------------------------- MODULE AudioBufferProofs -------------------------
(***************************************************************************)
(* Proofs about AudioBuffer, for rings of any size, any watermarks, and    *)
(* writes, reads and trims of any length at any stream times.              *)
(***************************************************************************)
EXTENDS AudioBuffer, TLAPS

-----------------------------------------------------------------------------
(* The inductive invariant.                                                *)

(* The four positions agree with the two counts.                           *)
HeadsInv ==
  /\ head = Wrap(tail + fill, capacity)
  /\ chunk_head = Wrap(chunk_tail + chunk_count, MaxChunks)

(* Only a read has anything to retire.                                     *)
TodoInv == op.kind # "consume" => op.todo = 0

Inv == TypeOK /\ HeadsInv /\ TodoInv /\ RoomForWatermark /\ ChunksMatchFrames

-----------------------------------------------------------------------------
(* Positions in a ring.                                                    *)

LEMMA WrapType ==
  ASSUME NEW n \in Nat \ {0}, NEW a \in 0..(n - 1), NEW k \in 0..n
  PROVE  Wrap(a + k, n) \in 0..(n - 1)
  BY DEF Wrap

LEMMA WrapTwice ==
  ASSUME NEW n \in Nat \ {0}, NEW a \in 0..(n - 1), NEW k \in Nat, NEW i \in Nat, k + i <= n
  PROVE  Wrap(Wrap(a + k, n) + i, n) = Wrap(a + (k + i), n)
  BY DEF Wrap

LEMMA WrapApart ==
  ASSUME NEW n \in Nat \ {0}, NEW a \in 0..(n - 1), NEW i \in 0..(n - 1), i # 0
  PROVE  Wrap(a + i, n) # a
  BY DEF Wrap

(* How far behind the head h a position lies.                              *)
Behind(p, h, n) == IF p < h THEN p + n - h ELSE p - h

LEMMA BehindHead ==
  ASSUME NEW n \in Nat \ {0}, NEW t \in 0..(n - 1), NEW f \in 0..n, NEW q \in 0..(n - 1)
  PROVE  Behind(Wrap(t + q, n), Wrap(t + f, n), n) = IF q < f THEN n - (f - q) ELSE q - f
  BY DEF Behind, Wrap

LEMMA InRange ==
  ASSUME NEW n \in Nat, NEW p \in Nat, p < n
  PROVE  p \in 0..(n - 1) /\ p \in 0..n
  OBVIOUS

LEMMA CapacityType ==
  ASSUME NEW ms \in Maxima
  PROVE  capacity_for(ms) \in Nat \ {0}
<1>1. ms \in Nat /\ Multiplier \in Nat /\ ms > 0 /\ Multiplier > 0
  BY SizesAssumption
<1>2. ms * Multiplier \in Nat /\ ms * Multiplier > 0
  BY <1>1
<1> QED
  BY <1>2 DEF capacity_for

-----------------------------------------------------------------------------
(* What the typing says, in the form the steps below use it.               *)
LEMMA Typed ==
  ASSUME TypeOK
  PROVE  /\ capacity \in Nat /\ capacity > 0
         /\ head \in 0..(capacity - 1) /\ tail \in 0..(capacity - 1)
         /\ fill \in Nat /\ fill <= capacity
         /\ chunk_head \in 0..(MaxChunks - 1) /\ chunk_tail \in 0..(MaxChunks - 1)
         /\ chunk_count \in Nat /\ chunk_count <= MaxChunks
         /\ MaxChunks \in Nat /\ MaxChunks > 0
         /\ op \in Op /\ op.todo \in Nat /\ op.frames \in Nat /\ op.pts \in Int
         /\ op.keep \in Nat /\ op.least \in Nat
  BY SizesAssumption DEF TypeOK, Op

LEMMA FrameType ==
  ASSUME TypeOK, NEW i \in 0..(capacity - 1)
  PROVE  FrameAt(i) \in Int
<1>1. Wrap(tail + i, capacity) \in 0..(capacity - 1)
  BY Typed, WrapType
<1> QED
  BY <1>1 DEF TypeOK, FrameAt

LEMMA ChunkType ==
  ASSUME TypeOK, NEW i \in 0..(MaxChunks - 1)
  PROVE  /\ ChunkAt(i) \in PtsChunk
         /\ ChunkAt(i).pts \in Int /\ ChunkAt(i).size \in Nat /\ ChunkAt(i).consumed \in Nat
<1>1. Wrap(chunk_tail + i, MaxChunks) \in 0..(MaxChunks - 1)
  BY Typed, WrapType
<1>2. ChunkAt(i) \in PtsChunk
  BY <1>1 DEF TypeOK, ChunkAt
<1> QED
  BY <1>2 DEF PtsChunk

LEMMA ChunkZero ==
  ASSUME TypeOK
  PROVE  ChunkAt(0) = chunks[chunk_tail]
  BY Typed DEF ChunkAt, Wrap

-----------------------------------------------------------------------------
(* The frames after a step, in terms of those before it.                   *)

(* The i-th queued frame, and chunk, after the step.                       *)
FrameAfter(i) == data'[Wrap(tail' + i, capacity')]
ChunkAfter(i) == chunks'[Wrap(chunk_tail' + i, MaxChunks)]

(* k frames are taken off the front.                                       *)
Taken(k) ==
  /\ tail' = Wrap(tail + k, capacity)
  /\ fill' = fill - k
  /\ UNCHANGED <<capacity, data, head>>

LEMMA TakenFrames ==
  ASSUME TypeOK, HeadsInv, NEW k \in 0..fill, Taken(k)
  PROVE  /\ tail' \in 0..(capacity - 1)
         /\ fill' \in Nat /\ fill' = fill - k /\ fill' <= capacity
         /\ head = Wrap(tail' + fill', capacity)
         /\ \A i \in 0..(fill' - 1) : FrameAfter(i) = FrameAt(k + i)
<1>1. tail' \in 0..(capacity - 1)
  BY Typed, WrapType DEF Taken
<1>2. fill' \in Nat /\ fill' = fill - k /\ fill' <= capacity
  BY Typed DEF Taken
<1>4. k \in Nat /\ k + fill' = fill
  BY Typed, <1>2
<1>3. Wrap(Wrap(tail + k, capacity) + fill', capacity) = Wrap(tail + (k + fill'), capacity)
  <2>1. k + fill' <= capacity /\ capacity \in Nat \ {0} /\ tail \in 0..(capacity - 1)
    BY Typed, <1>4
  <2> QED
    BY <1>2, <1>4, <2>1, WrapTwice
<1>5. ASSUME NEW i \in 0..(fill' - 1)
      PROVE  FrameAfter(i) = FrameAt(k + i)
  <2>1. /\ i \in Nat /\ k + i <= capacity
        /\ capacity \in Nat \ {0} /\ tail \in 0..(capacity - 1)
    BY Typed, <1>2, <1>4, <1>5
  <2>2. Wrap(Wrap(tail + k, capacity) + i, capacity) = Wrap(tail + (k + i), capacity)
    BY <1>4, <2>1, WrapTwice
  <2> QED
    BY <2>2 DEF FrameAt, FrameAfter, Taken
<1> QED
  BY <1>1, <1>2, <1>3, <1>4, <1>5 DEF HeadsInv, Taken

(* What an operation does to the queue, seen from outside.                 *)
FramesKept ==
  fill' = fill /\ \A i \in 0..(fill - 1) : FrameAfter(i) = FrameAt(i)

FramesDropped ==
  \E k \in 1..fill :
    fill' = fill - k /\ \A i \in 0..(fill' - 1) : FrameAfter(i) = FrameAt(k + i)

FramesAdded ==
  \E w \in Nat, pts \in Int :
    /\ fill' = fill + w
    /\ \A i \in 0..(fill - 1) : FrameAfter(i) = FrameAt(i)
    /\ \A i \in 0..(w - 1) : FrameAfter(fill + i) = pts + i

-----------------------------------------------------------------------------
(* The chunks after a step.                                                *)

(* The oldest chunk is retired.                                            *)
Retired ==
  /\ chunk_tail' = Wrap(chunk_tail + 1, MaxChunks)
  /\ chunk_count' = chunk_count - 1
  /\ UNCHANGED <<chunks, chunk_head>>

LEMMA RetiredChunks ==
  ASSUME TypeOK, HeadsInv, chunk_count > 0, Retired
  PROVE  /\ chunk_tail' \in 0..(MaxChunks - 1)
         /\ chunk_count' \in Nat /\ chunk_count' = chunk_count - 1 /\ chunk_count' <= MaxChunks
         /\ chunk_head = Wrap(chunk_tail' + chunk_count', MaxChunks)
         /\ \A i \in 0..(chunk_count' - 1) : ChunkAfter(i) = ChunkAt(i + 1)
<1>1. chunk_tail' \in 0..(MaxChunks - 1)
  BY Typed, WrapType DEF Retired
<1>2. chunk_count' \in Nat /\ chunk_count' = chunk_count - 1 /\ chunk_count' <= MaxChunks
  BY Typed DEF Retired
<1>4. 1 + chunk_count' = chunk_count
  BY Typed, <1>2
<1>3. Wrap(Wrap(chunk_tail + 1, MaxChunks) + chunk_count', MaxChunks)
        = Wrap(chunk_tail + (1 + chunk_count'), MaxChunks)
  <2>1. /\ 1 + chunk_count' <= MaxChunks
        /\ MaxChunks \in Nat \ {0} /\ chunk_tail \in 0..(MaxChunks - 1) /\ 1 \in Nat
    BY Typed, <1>4
  <2> QED
    BY <1>2, <2>1, WrapTwice
<1>5. ASSUME NEW i \in 0..(chunk_count' - 1)
      PROVE  ChunkAfter(i) = ChunkAt(i + 1)
  <2>1. /\ i \in Nat /\ 1 + i = i + 1 /\ 1 + i <= MaxChunks
        /\ MaxChunks \in Nat \ {0} /\ chunk_tail \in 0..(MaxChunks - 1) /\ 1 \in Nat
    BY Typed, <1>2, <1>5
  <2>2. Wrap(Wrap(chunk_tail + 1, MaxChunks) + i, MaxChunks) = Wrap(chunk_tail + (1 + i), MaxChunks)
    BY <2>1, WrapTwice
  <2> QED
    BY <2>1, <2>2 DEF ChunkAt, ChunkAfter, Retired
<1> QED
  BY <1>1, <1>2, <1>3, <1>4, <1>5 DEF HeadsInv, Retired

(* The first chunk ends where the second begins.                           *)
LEMMA FirstChunk ==
  ASSUME TypeOK, chunk_count > 0,
         NEW at \in [0..chunk_count -> 0..(fill + op.todo)], Covers(at)
  PROVE  /\ at[1] = Remaining(ChunkAt(0))
         /\ Remaining(ChunkAt(0)) \in Nat /\ Remaining(ChunkAt(0)) > 0
         /\ Remaining(ChunkAt(0)) <= fill + op.todo
<1>1. 0 \in 0..(chunk_count - 1) /\ 1 \in 0..chunk_count /\ 0 \in 0..(MaxChunks - 1)
  BY SMTT(30), Typed
<1>2. /\ at[1] = at[0] + Remaining(ChunkAt(0)) /\ at[0] = 0
      /\ ChunkAt(0).size > ChunkAt(0).consumed
  BY <1>1 DEF Covers
<1>3. ChunkAt(0).size \in Nat /\ ChunkAt(0).consumed \in Nat
  BY <1>1, ChunkType
<1>4. at[1] \in 0..(fill + op.todo)
  BY <1>1
<1>5. Remaining(ChunkAt(0)) \in Nat /\ Remaining(ChunkAt(0)) > 0
  BY <1>2, <1>3 DEF Remaining
<1>6. at[1] = Remaining(ChunkAt(0))
  BY <1>2, <1>5
<1> QED
  BY <1>4, <1>5, <1>6, Typed

(* Retiring the first chunk together with the frames it accounts for,      *)
(* taken off the ring now or before.                                       *)
LEMMA CoversRetired ==
  ASSUME TypeOK, TypeOK', HeadsInv, chunk_count > 0, Retired,
         NEW at \in [0..chunk_count -> 0..(fill + op.todo)], Covers(at),
         fill' + op'.todo = fill + op.todo - at[1],
         \A p \in 0..(fill + op.todo - 1) : p >= at[1] + op'.todo =>
            FrameAfter(p - at[1] - op'.todo) = FrameAt(p - op.todo) /\ p >= op.todo
  PROVE  ChunksMatchFrames'
<1> DEFINE b == at[1]
           bt == [i \in 0..(chunk_count - 1) |-> at[i + 1] - b]
<1>1. /\ chunk_count' = chunk_count - 1
      /\ \A i \in 0..(chunk_count' - 1) : ChunkAfter(i) = ChunkAt(i + 1)
  BY RetiredChunks
<1>2. /\ chunk_count \in Nat /\ chunk_count <= MaxChunks /\ fill \in Nat /\ op.todo \in Nat
      /\ fill' \in Nat /\ op'.todo \in Nat
  BY Typed DEF TypeOK, Op
<1>0. b \in Nat
  BY <1>2
<1>3. /\ b \in Nat
      /\ \A i \in 0..(chunk_count - 1) : i + 1 \in 0..chunk_count /\ at[i + 1] \in b..(fill + op.todo)
  <2>1. 1 \in 0..chunk_count
    BY <1>2
  <2>2. ASSUME NEW i \in 0..(chunk_count - 1)
        PROVE  i + 1 \in 0..chunk_count /\ at[i + 1] \in b..(fill + op.todo)
    <3>1. i + 1 \in 0..chunk_count /\ 1 <= i + 1
      BY <1>2
    <3>2. at[1] <= at[i + 1]
      BY <2>1, <3>1 DEF Covers
    <3>3. at[i + 1] \in 0..(fill + op.todo) /\ at[1] \in 0..(fill + op.todo)
      BY <2>1, <3>1
    <3> QED
      BY <1>2, <3>1, <3>2, <3>3
  <2> QED
    BY <1>2, <2>1, <2>2
<1>4. bt \in [0..chunk_count' -> 0..(fill' + op'.todo)]
  BY SMTT(30), <1>1, <1>2, <1>3
<1>5. bt[0] = 0 /\ bt[chunk_count'] = fill' + op'.todo
  <2>1. at[chunk_count] = fill + op.todo
    BY DEF Covers
  <2> QED
    BY <1>1, <1>2, <1>3, <2>1
<1>6. \A i, j \in 0..chunk_count' : i <= j => bt[i] <= bt[j]
  <2> SUFFICES ASSUME NEW i \in 0..chunk_count', NEW j \in 0..chunk_count', i <= j
               PROVE  bt[i] <= bt[j]
    OBVIOUS
  <2>1. i + 1 \in 0..chunk_count /\ j + 1 \in 0..chunk_count /\ i + 1 <= j + 1
    BY <1>1, <1>2
  <2>2. at[i + 1] <= at[j + 1]
    BY <2>1 DEF Covers
  <2> QED
    BY <1>1, <1>2, <1>3, <2>2
<1>7. ASSUME NEW i \in 0..(chunk_count' - 1)
      PROVE  /\ ChunkAfter(i).size > ChunkAfter(i).consumed
             /\ bt[i + 1] = bt[i] + Remaining(ChunkAfter(i))
             /\ \A p \in op'.todo..(fill' + op'.todo - 1) :
                  bt[i] <= p /\ p < bt[i + 1] =>
                    FrameAfter(p - op'.todo) = ChunkAfter(i).pts + ChunkAfter(i).consumed + (p - bt[i])
  <2> HIDE DEF bt, b
  <2>a. i \in Nat /\ i + 1 <= chunk_count - 1
    BY <1>1, <1>2, <1>7
  <2>b. /\ i + 1 \in 0..(chunk_count - 1) /\ i \in 0..(chunk_count - 1)
        /\ i + 1 \in 0..(MaxChunks - 1)
    BY SMTT(30), <1>2, <2>a, Typed
  <2>c. ChunkAfter(i) = ChunkAt(i + 1)
    BY <1>1, <1>7
  <2>1. /\ i + 1 \in 0..(chunk_count - 1) /\ i \in 0..(chunk_count - 1)
        /\ ChunkAfter(i) = ChunkAt(i + 1) /\ i + 1 \in 0..(MaxChunks - 1)
    BY <2>b, <2>c
  <2>2. /\ ChunkAt(i + 1).size > ChunkAt(i + 1).consumed
        /\ at[(i + 1) + 1] = at[i + 1] + Remaining(ChunkAt(i + 1))
        /\ \A p \in op.todo..(fill + op.todo - 1) :
             at[i + 1] <= p /\ p < at[(i + 1) + 1] =>
               FrameAt(p - op.todo) = ChunkAt(i + 1).pts + ChunkAt(i + 1).consumed + (p - at[i + 1])
    BY <2>1 DEF Covers
  <2>3. /\ ChunkAt(i + 1).pts \in Int /\ ChunkAt(i + 1).size \in Nat /\ ChunkAt(i + 1).consumed \in Nat
        /\ Remaining(ChunkAt(i + 1)) \in Int
    BY <2>1, ChunkType DEF Remaining
  <2>4. bt[i] = at[i + 1] - b /\ bt[i + 1] = at[(i + 1) + 1] - b
    BY <2>1 DEF bt
  <2>5. at[i + 1] \in Nat /\ at[(i + 1) + 1] \in Nat
    BY SMTT(30), <1>2, <1>3, <2>1
  <2>6. bt[i + 1] = bt[i] + Remaining(ChunkAfter(i))
    BY <1>3, <2>1, <2>2, <2>3, <2>4, <2>5
  <2>7. ASSUME NEW p \in op'.todo..(fill' + op'.todo - 1), bt[i] <= p, p < bt[i + 1]
        PROVE  FrameAfter(p - op'.todo) = ChunkAfter(i).pts + ChunkAfter(i).consumed + (p - bt[i])
    <3>1. p + b \in 0..(fill + op.todo - 1) /\ p + b >= b + op'.todo
      <4>1. p \in Nat /\ op'.todo <= p /\ p < fill' + op'.todo
        BY <1>2, <2>7
      <4>2. fill' + op'.todo = fill + op.todo - b
        BY DEF b
      <4>3. p + b \in Nat /\ p + b >= b + op'.todo
        BY <1>0, <1>2, <4>1
      <4>4. p + b < fill + op.todo
        BY SMTT(30), <1>0, <1>2, <4>1, <4>2
      <4> QED
        BY <1>2, <4>3, <4>4
    <3>2. FrameAfter((p + b) - b - op'.todo) = FrameAt((p + b) - op.todo) /\ p + b >= op.todo
      BY <3>1 DEF b
    <3>3. (p + b) - b - op'.todo = p - op'.todo
      BY <1>2, <1>3, <2>7
    <3>4. at[i + 1] <= p + b /\ p + b < at[(i + 1) + 1] /\ p + b \in op.todo..(fill + op.todo - 1)
      <4>1. bt[i] <= p /\ p < bt[i + 1] /\ p \in Int
        BY <1>2, <2>7
      <4>2. at[i + 1] <= p + b /\ p + b < at[(i + 1) + 1]
        BY <1>0, <2>4, <2>5, <4>1
      <4> QED
        BY <1>2, <3>1, <3>2, <4>2
    <3>5. FrameAt((p + b) - op.todo)
            = ChunkAt(i + 1).pts + ChunkAt(i + 1).consumed + ((p + b) - at[i + 1])
      BY <2>2, <3>4
    <3>6. (p + b) - at[i + 1] = p - bt[i]
      BY SMTT(30), <1>2, <1>3, <2>4, <2>5, <2>7
    <3> QED
      BY <2>1, <3>2, <3>3, <3>5, <3>6
  <2> QED
    BY <2>1, <2>2, <2>6, <2>7
<1> HIDE DEF bt
<1>8. PICK e : e = bt
  OBVIOUS
<1>9. Covers(e)'
  BY <1>5, <1>6, <1>7, <1>8 DEF Covers, FrameAt, FrameAfter, ChunkAt, ChunkAfter
<1> QED
  BY <1>4, <1>8, <1>9 DEF ChunksMatchFrames

(* The chunks stay, and the frames they account for, those a read has      *)
(* taken included, are as many as before.                                  *)
LEMMA CoversKept ==
  ASSUME TypeOK, TypeOK', UNCHANGED ptss, ChunksMatchFrames,
         fill' + op'.todo = fill + op.todo,
         op.todo <= op'.todo \/ op'.todo = op.todo,
         \A p \in op'.todo..(fill' + op'.todo - 1) :
            FrameAfter(p - op'.todo) = FrameAt(p - op.todo)
  PROVE  ChunksMatchFrames'
<1>1. PICK at \in [0..chunk_count -> 0..(fill + op.todo)] : Covers(at)
  BY DEF ChunksMatchFrames
<1>2. /\ fill \in Nat /\ op.todo \in Nat /\ fill' \in Nat /\ op'.todo \in Nat
      /\ chunk_count' = chunk_count /\ chunks' = chunks /\ chunk_tail' = chunk_tail
  BY Typed DEF TypeOK, Op, ptss
<1>3. /\ at[0] = 0 /\ at[chunk_count'] = fill' + op'.todo
      /\ \A i, j \in 0..chunk_count' : i <= j => at[i] <= at[j]
  BY <1>1, <1>2 DEF Covers
<1>4. \A i : ChunkAfter(i) = ChunkAt(i)
  BY <1>2 DEF ChunkAfter, ChunkAt
<1>5. ASSUME NEW i \in 0..(chunk_count' - 1)
      PROVE  /\ ChunkAfter(i).size > ChunkAfter(i).consumed
             /\ at[i + 1] = at[i] + Remaining(ChunkAfter(i))
             /\ \A p \in op'.todo..(fill' + op'.todo - 1) :
                  at[i] <= p /\ p < at[i + 1] =>
                    FrameAfter(p - op'.todo) = ChunkAfter(i).pts + ChunkAfter(i).consumed + (p - at[i])
  <2>1. /\ ChunkAt(i).size > ChunkAt(i).consumed
        /\ at[i + 1] = at[i] + Remaining(ChunkAt(i))
        /\ \A p \in op.todo..(fill + op.todo - 1) :
             at[i] <= p /\ p < at[i + 1] =>
               FrameAt(p - op.todo) = ChunkAt(i).pts + ChunkAt(i).consumed + (p - at[i])
    BY <1>1, <1>2, <1>5 DEF Covers
  <2>2. ASSUME NEW p \in op'.todo..(fill' + op'.todo - 1)
        PROVE  p \in op.todo..(fill + op.todo - 1)
    BY SMTT(30), <1>2, <2>2
  <2> QED
    BY <1>4, <2>1, <2>2
<1>6. Covers(at)'
  BY <1>3, <1>5 DEF Covers, FrameAt, FrameAfter, ChunkAt, ChunkAfter
<1>7. at \in [0..chunk_count' -> 0..(fill' + op'.todo)]
  BY <1>1, <1>2
<1> QED
  BY <1>6, <1>7 DEF ChunksMatchFrames

LEMMA CoversEmptied ==
  ASSUME fill' = 0, chunk_count' = 0, op'.todo = 0
  PROVE  ChunksMatchFrames'
<1>1. PICK e : e = [i \in 0..0 |-> 0]
  OBVIOUS
<1>2. e \in [0..chunk_count' -> 0..(fill' + op'.todo)] /\ e[0] = 0
  BY <1>1
<1>3. Covers(e)'
  BY <1>2 DEF Covers
<1> QED
  BY <1>2, <1>3 DEF ChunksMatchFrames

(* The end of a read that leaves part of a chunk.                          *)
LEMMA CoversPart ==
  ASSUME TypeOK, TypeOK', chunk_count > 0,
         NEW at \in [0..chunk_count -> 0..(fill + op.todo)], Covers(at),
         op.todo < at[1], op'.todo = 0, fill' = fill,
         chunk_count' = chunk_count,
         \A i \in 1..(chunk_count - 1) : ChunkAfter(i) = ChunkAt(i),
         /\ ChunkAfter(0).pts = ChunkAt(0).pts
         /\ ChunkAfter(0).size = ChunkAt(0).size
         /\ ChunkAfter(0).consumed = ChunkAt(0).consumed + op.todo,
         \A i : FrameAfter(i) = FrameAt(i)
  PROVE  ChunksMatchFrames'
<1> DEFINE t == op.todo
           bt == [i \in 0..chunk_count |-> IF i = 0 THEN 0 ELSE at[i] - t]
<1>1. /\ chunk_count \in Nat /\ chunk_count <= MaxChunks /\ fill \in Nat /\ t \in Nat
  BY Typed
<1>2. \A i \in 1..chunk_count : at[i] \in at[1]..(fill + t) /\ at[i] - t \in 0..fill
  <2> SUFFICES ASSUME NEW i \in 1..chunk_count
               PROVE  at[i] \in at[1]..(fill + t) /\ at[i] - t \in 0..fill
    OBVIOUS
  <2>1. 1 \in 0..chunk_count /\ i \in 0..chunk_count /\ 1 <= i
    BY <1>1
  <2>2. at[1] <= at[i] /\ at[1] \in 0..(fill + t) /\ at[i] \in 0..(fill + t)
    BY <2>1 DEF Covers
  <2> QED
    BY <1>1, <2>2
<1>3. bt \in [0..chunk_count' -> 0..(fill' + op'.todo)]
  BY <1>1, <1>2
<1>4. bt[0] = 0 /\ bt[chunk_count'] = fill' + op'.todo
  <2>1. at[chunk_count] = fill + t
    BY DEF Covers
  <2> QED
    BY <1>1, <2>1
<1>5. \A i, j \in 0..chunk_count' : i <= j => bt[i] <= bt[j]
  <2> SUFFICES ASSUME NEW i \in 0..chunk_count', NEW j \in 0..chunk_count', i <= j
               PROVE  bt[i] <= bt[j]
    OBVIOUS
  <2>1. at[i] <= at[j]
    BY DEF Covers
  <2>2. CASE i = 0
    BY <1>1, <1>2, <2>2
  <2>3. CASE i # 0
    <3>1. i \in 1..chunk_count /\ j \in 1..chunk_count
      BY <1>1, <2>3
    <3>2. bt[i] = at[i] - t /\ bt[j] = at[j] - t /\ at[i] \in Int /\ at[j] \in Int
      BY <1>1, <1>2, <3>1
    <3> QED
      BY <1>1, <2>1, <3>2
  <2> QED
    BY <2>2, <2>3
<1>6. ASSUME NEW i \in 0..(chunk_count' - 1)
      PROVE  /\ ChunkAfter(i).size > ChunkAfter(i).consumed
             /\ bt[i + 1] = bt[i] + Remaining(ChunkAfter(i))
             /\ \A p \in op'.todo..(fill' + op'.todo - 1) :
                  bt[i] <= p /\ p < bt[i + 1] =>
                    FrameAfter(p - op'.todo) = ChunkAfter(i).pts + ChunkAfter(i).consumed + (p - bt[i])
  <2>1. /\ i \in 0..(chunk_count - 1) /\ i + 1 \in 1..chunk_count /\ i \in 0..(MaxChunks - 1)
    BY <1>1, <1>6, Typed
  <2>2. /\ ChunkAt(i).size > ChunkAt(i).consumed
        /\ at[i + 1] = at[i] + Remaining(ChunkAt(i))
        /\ at[0] = 0
        /\ \A p \in t..(fill + t - 1) :
             at[i] <= p /\ p < at[i + 1] =>
               FrameAt(p - t) = ChunkAt(i).pts + ChunkAt(i).consumed + (p - at[i])
    BY <2>1 DEF Covers
  <2>3. ChunkAt(i).pts \in Int /\ ChunkAt(i).size \in Nat /\ ChunkAt(i).consumed \in Nat
    BY <2>1, ChunkType
  <2>4. bt[i + 1] = at[i + 1] - t /\ at[i + 1] \in Nat
    BY <1>1, <1>2, <2>1
  <2>x. t \in Nat /\ fill \in Nat /\ fill' = fill /\ op'.todo = 0
    BY <1>1
  <2> HIDE DEF bt
  <2>5. CASE i = 0
    <3>1. bt[i] = 0 /\ at[i] = 0
      BY <1>1, <2>1, <2>2, <2>5 DEF bt
    <3>2. at[i + 1] = ChunkAt(i).size - ChunkAt(i).consumed
      BY <2>2, <2>3, <3>1 DEF Remaining
    <3>3. ChunkAfter(i).size > ChunkAfter(i).consumed
      BY <1>1, <2>3, <2>5, <3>2
    <3>4. bt[i + 1] = bt[i] + Remaining(ChunkAfter(i))
      BY <1>1, <2>3, <2>4, <2>5, <3>1, <3>2 DEF Remaining
    <3>5. ASSUME NEW p \in op'.todo..(fill' + op'.todo - 1), bt[i] <= p, p < bt[i + 1]
          PROVE  FrameAfter(p - op'.todo) = ChunkAfter(i).pts + ChunkAfter(i).consumed + (p - bt[i])
      <4>1. p \in Nat /\ p < fill /\ p - op'.todo = p
        BY <1>1, <3>5
      <4>2. p + t \in t..(fill + t - 1) /\ at[i] <= p + t /\ p + t < at[i + 1]
        <5> HIDE DEF t
        <5>1. bt[i] <= p /\ p < bt[i + 1]
          BY <3>5
        <5>2. at[i] <= p + t /\ p + t < at[i + 1]
          BY <2>4, <2>x, <3>1, <4>1, <5>1
        <5> QED
          BY <2>x, <4>1, <5>2
      <4>3. FrameAt((p + t) - t) = ChunkAt(i).pts + ChunkAt(i).consumed + ((p + t) - at[i])
        BY <2>2, <4>2
      <4>4. (p + t) - t = p /\ (p + t) - at[i] = p + t /\ p - bt[i] = p
        BY <1>1, <3>1, <4>1
      <4>5. FrameAt(p) = ChunkAt(i).pts + (ChunkAt(i).consumed + t) + p
        <5> HIDE DEF t
        <5> QED
          BY <2>3, <2>x, <4>1, <4>3, <4>4
      <4> QED
        BY <2>5, <4>1, <4>4, <4>5
    <3> QED
      BY <3>3, <3>4, <3>5
  <2>6. CASE i # 0
    <3>1. i \in 1..(chunk_count - 1) /\ ChunkAfter(i) = ChunkAt(i)
      BY <2>1, <2>6
    <3>2. bt[i] = at[i] - t /\ at[i] \in Nat
      BY <1>1, <1>2, <2>1, <2>6 DEF bt
    <3>3. bt[i + 1] = bt[i] + Remaining(ChunkAfter(i))
      <4> HIDE DEF t
      <4>1. Remaining(ChunkAt(i)) \in Int
        BY <2>3 DEF Remaining
      <4> QED
        BY <2>2, <2>4, <2>x, <3>1, <3>2, <4>1
    <3>4. ASSUME NEW p \in op'.todo..(fill' + op'.todo - 1), bt[i] <= p, p < bt[i + 1]
          PROVE  FrameAfter(p - op'.todo) = ChunkAfter(i).pts + ChunkAfter(i).consumed + (p - bt[i])
      <4>1. p \in Nat /\ p < fill /\ p - op'.todo = p
        BY <1>1, <3>4
      <4>2. p + t \in t..(fill + t - 1) /\ at[i] <= p + t /\ p + t < at[i + 1]
        <5> HIDE DEF t
        <5>1. bt[i] <= p /\ p < bt[i + 1]
          BY <3>4
        <5>2. at[i] <= p + t /\ p + t < at[i + 1]
          BY <2>4, <2>x, <3>2, <4>1, <5>1
        <5> QED
          BY <2>x, <4>1, <5>2
      <4>3. FrameAt((p + t) - t) = ChunkAt(i).pts + ChunkAt(i).consumed + ((p + t) - at[i])
        BY <2>2, <4>2
      <4>4. (p + t) - t = p /\ (p + t) - at[i] = p - bt[i]
        BY <1>1, <3>2, <4>1
      <4> QED
        BY <3>1, <4>1, <4>3, <4>4
    <3> QED
      BY <2>2, <3>1, <3>3, <3>4
  <2> QED
    BY <2>5, <2>6
<1> HIDE DEF bt
<1>7. PICK e : e = bt
  OBVIOUS
<1>8. Covers(e)'
  BY <1>4, <1>5, <1>6, <1>7 DEF Covers, FrameAt, FrameAfter, ChunkAt, ChunkAfter
<1> QED
  BY <1>3, <1>7, <1>8 DEF ChunksMatchFrames

(* A chunk of w frames that begins at pts is added.                        *)
LEMMA CoversWritten ==
  ASSUME TypeOK, TypeOK', ChunksMatchFrames, op.todo = 0, op'.todo = 0,
         NEW w \in Nat, w > 0, NEW pts \in Int,
         fill' = fill + w, chunk_count' = chunk_count + 1,
         \A i \in 0..(chunk_count - 1) : ChunkAfter(i) = ChunkAt(i),
         ChunkAfter(chunk_count) = [pts |-> pts, size |-> w, consumed |-> 0],
         \A i \in 0..(fill - 1) : FrameAfter(i) = FrameAt(i),
         \A i \in 0..(w - 1) : FrameAfter(fill + i) = pts + i
  PROVE  ChunksMatchFrames'
<1> DEFINE n == chunk_count
           f == fill
<1>1. n \in Nat /\ f \in Nat
  BY Typed
<1>2. PICK at \in [0..n -> 0..(f + op.todo)] : Covers(at)
  BY DEF ChunksMatchFrames
<1> DEFINE bt == [i \in 0..(n + 1) |-> IF i = n + 1 THEN f + w ELSE at[i]]
<1>3. /\ at[0] = 0 /\ at[n] = f
      /\ \A i \in 0..n : at[i] \in 0..f
      /\ \A i, j \in 0..n : i <= j => at[i] <= at[j]
  BY <1>1, <1>2 DEF Covers
<1>4. bt \in [0..chunk_count' -> 0..(fill' + op'.todo)]
  BY <1>1, <1>3
<1>5. bt[0] = 0 /\ bt[chunk_count'] = fill' + op'.todo
  BY <1>1, <1>3
<1>6. \A i, j \in 0..chunk_count' : i <= j => bt[i] <= bt[j]
  <2> SUFFICES ASSUME NEW i \in 0..(n + 1), NEW j \in 0..(n + 1), i <= j
               PROVE  bt[i] <= bt[j]
    OBVIOUS
  <2>1. CASE j = n + 1
    BY <1>1, <1>3, <2>1
  <2>2. CASE j # n + 1
    BY <1>1, <1>3, <2>2
  <2> QED
    BY <2>1, <2>2
<1>7. ASSUME NEW i \in 0..(chunk_count' - 1)
      PROVE  /\ ChunkAfter(i).size > ChunkAfter(i).consumed
             /\ bt[i + 1] = bt[i] + Remaining(ChunkAfter(i))
             /\ \A p \in op'.todo..(fill' + op'.todo - 1) :
                  bt[i] <= p /\ p < bt[i + 1] =>
                    FrameAfter(p - op'.todo) = ChunkAfter(i).pts + ChunkAfter(i).consumed + (p - bt[i])
  <2>1. i \in 0..n
    BY <1>1, <1>7
  <2>2. bt[i] = at[i] /\ at[i] \in 0..f /\ (i = n => bt[i] = f)
    BY <1>1, <1>3, <2>1
  <2>3. bt[i + 1] = IF i = n THEN f + w ELSE at[i + 1]
    BY <1>1, <2>1
  <2> HIDE DEF bt
  <2>4. CASE i = n
    <3>1. ChunkAfter(i) = [pts |-> pts, size |-> w, consumed |-> 0]
      BY <2>4
    <3>2. ChunkAfter(i).pts = pts /\ ChunkAfter(i).size = w /\ ChunkAfter(i).consumed = 0
      BY <3>1
    <3>3. bt[i + 1] = bt[i] + Remaining(ChunkAfter(i))
      BY <1>1, <2>2, <2>3, <2>4, <3>2 DEF Remaining
    <3>4. ASSUME NEW p \in op'.todo..(fill' + op'.todo - 1), bt[i] <= p, p < bt[i + 1]
          PROVE  FrameAfter(p - op'.todo) = ChunkAfter(i).pts + ChunkAfter(i).consumed + (p - bt[i])
      <4>1. p \in Nat /\ p - op'.todo = p
        BY <1>1, <3>4
      <4>2. f <= p /\ p < f + w
        BY <2>2, <2>3, <2>4, <3>4
      <4>3. p - f \in 0..(w - 1) /\ f + (p - f) = p
        BY <1>1, <4>1, <4>2
      <4>4. FrameAfter(f + (p - f)) = pts + (p - f)
        BY <4>3
      <4> QED
        BY <1>1, <2>2, <2>4, <3>2, <4>1, <4>3, <4>4
    <3> QED
      BY <3>2, <3>3, <3>4
  <2>5. CASE i # n
    <3>1. i \in 0..(n - 1) /\ i + 1 \in 0..n
      BY <1>1, <2>1, <2>5
    <3>2. /\ ChunkAt(i).size > ChunkAt(i).consumed
          /\ at[i + 1] = at[i] + Remaining(ChunkAt(i))
          /\ \A p \in op.todo..(f + op.todo - 1) :
               at[i] <= p /\ p < at[i + 1] =>
                 FrameAt(p - op.todo) = ChunkAt(i).pts + ChunkAt(i).consumed + (p - at[i])
      BY <1>2, <3>1 DEF Covers
    <3>3. ChunkAfter(i) = ChunkAt(i) /\ bt[i + 1] = at[i + 1] /\ at[i + 1] \in 0..f
      BY <1>3, <2>3, <2>5, <3>1
    <3>4. ASSUME NEW p \in op'.todo..(fill' + op'.todo - 1), bt[i] <= p, p < bt[i + 1]
          PROVE  FrameAfter(p - op'.todo) = ChunkAfter(i).pts + ChunkAfter(i).consumed + (p - bt[i])
      <4>1. p \in Nat /\ p - op'.todo = p /\ p - op.todo = p
        BY <1>1, <3>4
      <4>2. p \in 0..(f - 1) /\ p \in op.todo..(f + op.todo - 1)
        BY <1>1, <3>3, <3>4, <4>1
      <4>3. FrameAt(p - op.todo) = ChunkAt(i).pts + ChunkAt(i).consumed + (p - at[i])
        BY <2>2, <3>2, <3>3, <3>4, <4>2
      <4>4. FrameAfter(p) = FrameAt(p)
        BY <4>2
      <4> QED
        BY <2>2, <3>3, <4>1, <4>3, <4>4
    <3> QED
      BY <2>2, <3>2, <3>3, <3>4
  <2> QED
    BY <2>4, <2>5
<1> HIDE DEF bt
<1>8. PICK e : e = bt
  OBVIOUS
<1>9. Covers(e)'
  BY <1>5, <1>6, <1>7, <1>8 DEF Covers, FrameAt, FrameAfter, ChunkAt, ChunkAfter
<1> QED
  BY <1>4, <1>8, <1>9 DEF ChunksMatchFrames

-----------------------------------------------------------------------------
(* Init, and one lemma for each action.                                    *)

LEMMA InitInv ==
  ASSUME Init
  PROVE  Inv
<1>1. max_ms \in Maxima /\ capacity = capacity_for(max_ms) /\ capacity \in Nat \ {0}
  BY CapacityType DEF Init
<1>2. MaxChunks \in Nat /\ MaxChunks > 0
  BY SizesAssumption
<1>3. TypeOK
  <2>1. NoOp \in Op
    BY DEF NoOp, Op
  <2>2. [frames |-> << >>, pts |-> 0] \in [frames : Seq(Int), pts : Int]
    OBVIOUS
  <2>3. chunks \in [0..(MaxChunks - 1) -> PtsChunk]
    BY DEF Init, PtsChunk
  <2>4. data \in [0..(capacity - 1) -> Int]
    BY DEF Init
  <2> QED
    BY <1>1, <1>2, <2>1, <2>2, <2>3, <2>4 DEF Init, TypeOK
<1>4. HeadsInv
  BY <1>1, <1>2 DEF Init, HeadsInv, Wrap
<1>5. TodoInv
  BY DEF Init, TodoInv, NoOp
<1>6. RoomForWatermark
  BY <1>1 DEF RoomForWatermark
<1>7. ChunksMatchFrames
  <2>1. PICK e : e = [i \in 0..0 |-> 0]
    OBVIOUS
  <2>2. fill = 0 /\ chunk_count = 0 /\ op.todo = 0
    BY DEF Init, NoOp
  <2>3. e \in [0..chunk_count -> 0..(fill + op.todo)] /\ e[0] = 0
    BY <2>1, <2>2
  <2>4. Covers(e)
    BY <2>2, <2>3 DEF Covers
  <2> QED
    BY <2>3, <2>4 DEF ChunksMatchFrames
<1> QED
  BY <1>3, <1>4, <1>5, <1>6, <1>7 DEF Inv

(* A step that leaves the ring and the chunks alone, and retires nothing.  *)
LEMMA StartStep ==
  ASSUME Inv, UNCHANGED <<ring, ptss, max_ms, out>>, op' \in Op,
         op'.todo = op.todo, op'.kind # "consume" => op'.todo = 0
  PROVE  Inv'
<1>1. TypeOK'
  BY DEF Inv, TypeOK, ring, ptss
<1>2. HeadsInv' /\ RoomForWatermark' /\ TodoInv'
  BY DEF Inv, HeadsInv, RoomForWatermark, TodoInv, ring, ptss
<1>3. ChunksMatchFrames'
  <2>1. \A i : FrameAfter(i) = FrameAt(i)
    BY DEF FrameAfter, FrameAt, ring
  <2>2. /\ fill' = fill /\ fill \in Nat /\ op.todo \in Nat
        /\ \A p \in op'.todo..(fill' + op'.todo - 1) :
             FrameAfter(p - op'.todo) = FrameAt(p - op.todo)
    BY <2>1, Typed DEF Inv, ring
  <2> QED
    BY <1>1, <2>2, CoversKept DEF Inv
<1> QED
  BY <1>1, <1>2, <1>3 DEF Inv

LEMMA WritePtsStep ==
  ASSUME Inv, NEW n \in Lengths, NEW t \in Times, WritePts(n, t)
  PROVE  Inv'
<1>1. n \in Nat /\ t \in Int
  BY CallsAssumption
<1>2. op' \in Op /\ op'.todo = 0 /\ op'.kind = "write"
  BY <1>1 DEF WritePts, NoOp, Op
<1>3. op.todo = 0
  BY DEF Inv, TodoInv, WritePts
<1> QED
  BY <1>2, <1>3, StartStep DEF WritePts

LEMMA TrimToKeepMsStep ==
  ASSUME Inv, NEW keep \in Lengths, TrimToKeepMs(keep, 1)
  PROVE  Inv'
<1>1. keep \in Nat
  BY CallsAssumption
<1>2. op' \in Op /\ op'.todo = 0 /\ op'.kind = "trim"
  <2>1. op' = [kind |-> "trim", todo |-> 0, frames |-> 0, pts |-> 0, keep |-> keep, least |-> 1]
    BY DEF TrimToKeepMs, NoOp
  <2>2. 0 \in Nat /\ 1 \in Nat /\ 0 \in Int
    OBVIOUS
  <2> QED
    BY <1>1, <2>1, <2>2 DEF Op
<1>3. op.todo = 0
  BY DEF Inv, TodoInv, TrimToKeepMs
<1> QED
  BY <1>2, <1>3, StartStep DEF TrimToKeepMs

LEMMA TrimEndsStep ==
  ASSUME Inv, TrimEnds
  PROVE  Inv'
<1>1. NoOp \in Op /\ NoOp.todo = 0
  BY DEF NoOp, Op
<1>2. op.todo = 0 /\ op' = NoOp
  BY DEF Inv, TodoInv, TrimEnds
<1> QED
  BY <1>1, <1>2, StartStep DEF TrimEnds

(* A read whose chunks have run out has nothing left to retire.            *)
LEMMA ReadEndsStep ==
  ASSUME Inv, ReadEnds
  PROVE  Inv'
<1>1. NoOp \in Op /\ NoOp.todo = 0 /\ op' = NoOp
  BY DEF NoOp, Op, ReadEnds
<1>2. CASE op.todo = 0
  BY <1>1, <1>2, StartStep DEF ReadEnds
<1>3. CASE chunk_count = 0
  <2>1. PICK at \in [0..chunk_count -> 0..(fill + op.todo)] : Covers(at)
    BY DEF Inv, ChunksMatchFrames
  <2>2. fill + op.todo = 0
    BY <1>3, <2>1 DEF Covers
  <2>3. op.todo = 0
    BY SMTT(30), <2>2, Typed DEF Inv
  <2> QED
    BY <1>1, <2>3, StartStep DEF ReadEnds
<1> QED
  BY <1>2, <1>3 DEF ReadEnds

(* A chunk is dropped with the frames it accounts for, all of which are    *)
(* there: nothing is being read.                                           *)
LEMMA SkipStep ==
  ASSUME Inv, chunk_count > 0, op.todo = 0, skip_oldest_chunk, UNCHANGED <<max_ms, op, out>>
  PROVE  Inv' /\ FramesDropped
<1>1. PICK at \in [0..chunk_count -> 0..(fill + op.todo)] : Covers(at)
  BY DEF Inv, ChunksMatchFrames
<1> DEFINE left == Remaining(ChunkAt(0))
<1>2. at[1] = left /\ left \in Nat /\ left > 0 /\ left <= fill
  <2>1. at[1] = left /\ left \in Nat /\ left > 0 /\ left <= fill + op.todo
    BY <1>1, FirstChunk DEF Inv
  <2> HIDE DEF left
  <2> QED
    BY <2>1, Typed DEF Inv
<1>3. Taken(left) /\ Retired
  BY <1>2 DEF skip_oldest_chunk, Taken, Retired
<1>4. left \in 0..fill /\ fill \in Nat
  BY <1>2, Typed DEF Inv
<1>5. /\ tail' \in 0..(capacity - 1)
      /\ fill' \in Nat /\ fill' = fill - left /\ fill' <= capacity
      /\ head = Wrap(tail' + fill', capacity)
      /\ \A i \in 0..(fill' - 1) : FrameAfter(i) = FrameAt(left + i)
  BY <1>3, <1>4, TakenFrames DEF Inv
<1>6. /\ chunk_tail' \in 0..(MaxChunks - 1)
      /\ chunk_count' \in Nat /\ chunk_count' <= MaxChunks
      /\ chunk_head = Wrap(chunk_tail' + chunk_count', MaxChunks)
  BY <1>3, RetiredChunks DEF Inv
<1>7. UNCHANGED <<capacity, data, head, chunks, chunk_head, max_ms, op, out>>
  BY DEF skip_oldest_chunk
<1>8. TypeOK'
  <2>1. fill' \in 0..capacity' /\ chunk_count' \in 0..MaxChunks
    BY <1>5, <1>6, <1>7, Typed DEF Inv
  <2> QED
    BY <1>5, <1>6, <1>7, <2>1 DEF Inv, TypeOK
<1>9. HeadsInv' /\ TodoInv' /\ RoomForWatermark'
  BY <1>5, <1>6, <1>7 DEF Inv, HeadsInv, TodoInv, RoomForWatermark
<1>10. ChunksMatchFrames'
  <2> HIDE DEF left
  <2>1. fill' + op'.todo = fill + op.todo - at[1]
    BY <1>2, <1>4, <1>5, <1>7
  <2>2. ASSUME NEW p \in 0..(fill + op.todo - 1), p >= at[1] + op'.todo
        PROVE  FrameAfter(p - at[1] - op'.todo) = FrameAt(p - op.todo) /\ p >= op.todo
    <3>1. p \in Nat /\ p < fill /\ p >= left /\ op'.todo = 0 /\ op.todo = 0
      BY <1>2, <1>4, <1>7, <2>2
    <3>2. p - left \in 0..(fill' - 1) /\ left + (p - left) = p
      BY <1>2, <1>4, <1>5, <3>1
    <3>3. FrameAfter(p - left) = FrameAt(left + (p - left))
      BY <1>5, <3>2
    <3>4. p - at[1] - op'.todo = p - left /\ p - op.todo = p
      BY <1>2, <3>1
    <3> QED
      BY <3>1, <3>2, <3>3, <3>4
  <2> QED
    BY <1>1, <1>3, <1>8, <2>1, <2>2, CoversRetired DEF Inv
<1>11. FramesDropped
  <2>1. left \in 1..fill
    BY <1>2, <1>4
  <2> QED
    BY <1>5, <2>1 DEF FramesDropped
<1> QED
  BY <1>8, <1>9, <1>10, <1>11 DEF Inv

LEMMA MakeRoomStep ==
  ASSUME Inv, MakeRoomForChunk
  PROVE  Inv' /\ FramesDropped
<1>1. chunk_count > 0
  BY Typed DEF Inv, MakeRoomForChunk
<1>2. op.todo = 0
  BY DEF Inv, TodoInv, MakeRoomForChunk
<1> QED
  BY <1>1, <1>2, SkipStep DEF MakeRoomForChunk

LEMMA TrimOldestStep ==
  ASSUME Inv, TrimOldest
  PROVE  Inv' /\ FramesDropped
<1>1. chunk_count > 0
  BY Typed DEF Inv, TrimOldest
<1>2. op.todo = 0
  BY DEF Inv, TodoInv, TrimOldest
<1> QED
  BY <1>1, <1>2, SkipStep DEF TrimOldest

(* A read takes frames whose chunks are retired in the turns that follow.  *)
LEMMA ReadPtsStep ==
  ASSUME Inv, NEW n \in Lengths, ReadPts(n)
  PROVE  Inv'
<1> DEFINE got == IF n < fill THEN n ELSE fill
<1>1. /\ fill > 0 /\ op.kind = "none"
      /\ out' = [frames |-> [i \in 1..got |-> FrameAt(i - 1)], pts |-> OldestPts]
      /\ tail' = Wrap(tail + got, capacity)
      /\ fill' = fill - got
      /\ op' = [NoOp EXCEPT !.kind = "consume", !.todo = got]
      /\ UNCHANGED <<capacity, data, head, ptss, max_ms>>
  BY DEF ReadPts
<1>2. got \in 0..fill /\ got \in Nat /\ fill \in Nat /\ fill <= capacity
  BY <1>1, CallsAssumption, Typed DEF Inv
<1> HIDE DEF got
<1>3. Taken(got)
  BY <1>1 DEF Taken
<1>4. /\ tail' \in 0..(capacity - 1)
      /\ fill' \in Nat /\ fill' = fill - got /\ fill' <= capacity
      /\ head = Wrap(tail' + fill', capacity)
      /\ \A i \in 0..(fill' - 1) : FrameAfter(i) = FrameAt(got + i)
  BY <1>2, <1>3, TakenFrames DEF Inv
<1>5. op' \in Op /\ op'.todo = got /\ op'.kind = "consume"
  <2>1. op' = [kind |-> "consume", todo |-> got, frames |-> 0, pts |-> 0, keep |-> 0, least |-> 0]
    BY <1>1 DEF NoOp
  <2>2. 0 \in Nat /\ 0 \in Int
    OBVIOUS
  <2> QED
    BY <1>2, <2>1, <2>2 DEF Op
<1>6. out' \in [frames : Seq(Int), pts : Int]
  <2>1. \A i \in 1..got : FrameAt(i - 1) \in Int
    <3> SUFFICES ASSUME NEW i \in 1..got
                 PROVE  FrameAt(i - 1) \in Int
      OBVIOUS
    <3>1. i - 1 \in 0..(capacity - 1)
      BY <1>2, Typed DEF Inv
    <3> QED
      BY <3>1, FrameType DEF Inv
  <2>2. [i \in 1..got |-> FrameAt(i - 1)] \in Seq(Int)
    BY <1>2, <2>1
  <2>3. OldestPts \in Int
    <3>1. 0 \in 0..(MaxChunks - 1)
      BY Typed DEF Inv
    <3>2. ChunkAt(0).pts \in Int /\ ChunkAt(0).consumed \in Nat
      BY <3>1, ChunkType DEF Inv
    <3> QED
      BY <3>2 DEF OldestPts
  <2> QED
    BY <1>1, <2>2, <2>3
<1>7. TypeOK'
  <2>1. fill' \in 0..capacity'
    BY <1>1, <1>2, <1>4
  <2> QED
    BY <1>1, <1>4, <1>5, <1>6, <2>1 DEF Inv, TypeOK, ptss
<1>8. HeadsInv' /\ TodoInv' /\ RoomForWatermark'
  BY <1>1, <1>4, <1>5 DEF Inv, HeadsInv, TodoInv, RoomForWatermark, ptss
<1>9. op.todo = 0
  BY <1>1 DEF Inv, TodoInv
<1>10. ChunksMatchFrames'
  <2>1. fill' + op'.todo = fill + op.todo /\ op.todo <= op'.todo
    BY <1>2, <1>4, <1>5, <1>9
  <2>2. ASSUME NEW p \in op'.todo..(fill' + op'.todo - 1)
        PROVE  FrameAfter(p - op'.todo) = FrameAt(p - op.todo)
    <3>1. p - got \in 0..(fill' - 1) /\ got + (p - got) = p /\ p - op.todo = p
      BY <1>2, <1>4, <1>5, <1>9, <2>2
    <3> QED
      BY <1>4, <1>5, <3>1
  <2> QED
    BY <1>1, <1>7, <2>1, <2>2, CoversKept DEF Inv
<1> QED
  BY <1>7, <1>8, <1>10 DEF Inv

(* A turn of pts_consume that retires a whole chunk.                       *)
LEMMA ConsumeWholeStep ==
  ASSUME Inv, PtsConsume, op.todo >= Remaining(ChunkAt(0))
  PROVE  Inv'
<1> DEFINE left == Remaining(ChunkAt(0))
<1>1. PICK at \in [0..chunk_count -> 0..(fill + op.todo)] : Covers(at)
  BY DEF Inv, ChunksMatchFrames
<1>2. /\ op.kind = "consume" /\ op.todo \in Nat /\ fill \in Nat /\ op \in Op
      /\ chunk_count > 0 /\ chunk_count \in Nat
  BY Typed DEF Inv, PtsConsume
<1>3. at[1] = left /\ left \in Nat /\ left <= op.todo
  BY <1>1, <1>2, FirstChunk DEF Inv
<1>4. /\ op' = [op EXCEPT !.todo = op.todo - left]
      /\ Retired
      /\ UNCHANGED <<ring, max_ms, out>>
  BY <1>2, <1>3 DEF PtsConsume, Retired
<1> HIDE DEF left
<1>5. op' \in Op /\ op'.todo = op.todo - left /\ op'.todo \in Nat /\ op'.kind = "consume"
  <2>1. op.todo - left \in Nat
    BY <1>2, <1>3
  <2> QED
    BY <1>2, <1>4, <2>1 DEF Op
<1>6. /\ chunk_tail' \in 0..(MaxChunks - 1)
      /\ chunk_count' \in Nat /\ chunk_count' <= MaxChunks
      /\ chunk_head = Wrap(chunk_tail' + chunk_count', MaxChunks)
  BY <1>2, <1>4, RetiredChunks DEF Inv
<1>7. UNCHANGED <<capacity, data, head, tail, fill, chunks, chunk_head, max_ms, out>>
  BY <1>4 DEF Retired, ring
<1>8. TypeOK'
  <2>1. chunk_count' \in 0..MaxChunks
    BY <1>6, Typed DEF Inv
  <2> QED
    BY <1>5, <1>6, <1>7, <2>1 DEF Inv, TypeOK
<1>9. HeadsInv' /\ TodoInv' /\ RoomForWatermark'
  BY <1>5, <1>6, <1>7 DEF Inv, HeadsInv, TodoInv, RoomForWatermark
<1>10. ChunksMatchFrames'
  <2>1. fill' + op'.todo = fill + op.todo - at[1]
    BY <1>2, <1>3, <1>5, <1>7
  <2>2. ASSUME NEW p \in 0..(fill + op.todo - 1), p >= at[1] + op'.todo
        PROVE  FrameAfter(p - at[1] - op'.todo) = FrameAt(p - op.todo) /\ p >= op.todo
    <3>1. p - at[1] - op'.todo = p - op.todo /\ p >= op.todo
      BY SMTT(30), <1>2, <1>3, <1>5, <2>2
    <3>2. \A i : FrameAfter(i) = FrameAt(i)
      BY <1>7 DEF FrameAfter, FrameAt
    <3> QED
      BY <3>1, <3>2
  <2> QED
    BY <1>1, <1>2, <1>4, <1>8, <2>1, <2>2, CoversRetired DEF Inv
<1> QED
  BY <1>8, <1>9, <1>10 DEF Inv

(* The last turn of pts_consume, which leaves part of a chunk.             *)
LEMMA ConsumePartStep ==
  ASSUME Inv, PtsConsume, op.todo < Remaining(ChunkAt(0))
  PROVE  Inv'
<1> DEFINE left == Remaining(ChunkAt(0))
<1>1. PICK at \in [0..chunk_count -> 0..(fill + op.todo)] : Covers(at)
  BY DEF Inv, ChunksMatchFrames
<1>2. /\ op.kind = "consume" /\ op.todo \in Nat /\ fill \in Nat /\ op \in Op
      /\ chunk_count > 0 /\ chunk_count \in Nat /\ chunk_count <= MaxChunks
      /\ MaxChunks \in Nat \ {0} /\ chunk_tail \in 0..(MaxChunks - 1)
  BY Typed DEF Inv, PtsConsume
<1>3. at[1] = left /\ left \in Nat /\ op.todo < left
  BY <1>1, <1>2, FirstChunk DEF Inv
<1>4. /\ op' = [op EXCEPT !.todo = 0]
      /\ chunks' = [chunks EXCEPT ![chunk_tail].consumed = @ + op.todo]
      /\ UNCHANGED <<ring, chunk_head, chunk_tail, chunk_count, max_ms, out>>
  BY <1>2, <1>3 DEF PtsConsume
<1>5. op' \in Op /\ op'.todo = 0 /\ op'.kind = "consume"
  BY <1>2, <1>4 DEF Op
<1>6. UNCHANGED <<capacity, data, head, tail, fill>>
  BY <1>4 DEF ring
<1>7. chunks \in [0..(MaxChunks - 1) -> PtsChunk] /\ chunks[chunk_tail] \in PtsChunk
  BY <1>2 DEF Inv, TypeOK
<1>8. /\ chunks' \in [0..(MaxChunks - 1) -> PtsChunk]
      /\ chunks'[chunk_tail].pts = chunks[chunk_tail].pts
      /\ chunks'[chunk_tail].size = chunks[chunk_tail].size
      /\ chunks'[chunk_tail].consumed = chunks[chunk_tail].consumed + op.todo
      /\ \A j \in 0..(MaxChunks - 1) : j # chunk_tail => chunks'[j] = chunks[j]
  <2>2. chunks[chunk_tail].consumed \in Nat
    BY <1>7 DEF PtsChunk
  <2>1. chunks[chunk_tail].consumed + op.todo \in Nat
    BY <1>2, <2>2
  <2> QED
    BY <1>2, <1>4, <1>7, <2>1 DEF PtsChunk
<1>9. TypeOK'
  BY <1>4, <1>5, <1>6, <1>8 DEF Inv, TypeOK
<1>10. HeadsInv' /\ TodoInv' /\ RoomForWatermark'
  BY <1>4, <1>5, <1>6 DEF Inv, HeadsInv, TodoInv, RoomForWatermark
<1>11. \A i \in 1..(chunk_count - 1) : ChunkAfter(i) = ChunkAt(i)
  <2> SUFFICES ASSUME NEW i \in 1..(chunk_count - 1)
               PROVE  ChunkAfter(i) = ChunkAt(i)
    OBVIOUS
  <2>1. i \in 0..(MaxChunks - 1) /\ i # 0 /\ i \in 0..MaxChunks
    BY <1>2
  <2>2. Wrap(chunk_tail + i, MaxChunks) # chunk_tail
    BY <1>2, <2>1, WrapApart
  <2>3. Wrap(chunk_tail + i, MaxChunks) \in 0..(MaxChunks - 1)
    BY <1>2, <2>1, WrapType
  <2> QED
    BY <1>4, <1>8, <2>2, <2>3 DEF ChunkAfter, ChunkAt
<1>12. /\ ChunkAfter(0).pts = ChunkAt(0).pts
       /\ ChunkAfter(0).size = ChunkAt(0).size
       /\ ChunkAfter(0).consumed = ChunkAt(0).consumed + op.todo
  <2>1. Wrap(chunk_tail + 0, MaxChunks) = chunk_tail
    BY <1>2 DEF Wrap
  <2> QED
    BY <1>4, <1>8, <2>1 DEF ChunkAfter, ChunkAt
<1>13. \A i : FrameAfter(i) = FrameAt(i)
  BY <1>6 DEF FrameAfter, FrameAt
<1>14. ChunksMatchFrames'
  BY <1>1, <1>2, <1>3, <1>4, <1>5, <1>6, <1>9, <1>11, <1>12, <1>13, CoversPart DEF Inv
<1> QED
  BY <1>9, <1>10, <1>14 DEF Inv

LEMMA PtsConsumeStep ==
  ASSUME Inv, PtsConsume
  PROVE  Inv'
  BY ConsumeWholeStep, ConsumePartStep DEF PtsConsume

LEMMA FlushStep ==
  ASSUME Inv, Flush
  PROVE  Inv'
<1>1. /\ op.kind = "none" /\ Emptied /\ UNCHANGED <<capacity, data, max_ms, op, out>>
  BY DEF Flush
<1>2. TypeOK'
  BY <1>1, Typed DEF Inv, TypeOK, Emptied
<1>3. HeadsInv' /\ TodoInv' /\ RoomForWatermark'
  BY <1>1, Typed DEF Inv, HeadsInv, TodoInv, RoomForWatermark, Emptied, Wrap
<1>4. op'.todo = 0
  BY <1>1 DEF Inv, TodoInv
<1>5. ChunksMatchFrames'
  BY <1>1, <1>4, CoversEmptied DEF Emptied
<1> QED
  BY <1>2, <1>3, <1>5 DEF Inv

LEMMA ReconfigureStep ==
  ASSUME Inv, Reconfigure
  PROVE  Inv'
<1>1. /\ op.kind = "none" /\ Emptied /\ UNCHANGED <<max_ms, op, out>>
      /\ capacity' = capacity_for(max_ms)
      /\ data' = [p \in 0..(capacity' - 1) |-> 0]
  BY DEF Reconfigure
<1>2. max_ms \in Maxima
  BY DEF Inv, TypeOK
<1>3. capacity' \in Nat \ {0}
  BY <1>1, <1>2, CapacityType
<1>4. TypeOK'
  <2>1. data' \in [0..(capacity' - 1) -> Int]
    BY <1>1
  <2>4. capacity' \in Nat /\ capacity' > 0
    BY <1>3
  <2>2. 0 \in 0..(capacity' - 1) /\ 0 \in 0..capacity'
    BY <2>4, InRange
  <2>3. 0 \in 0..(MaxChunks - 1) /\ 0 \in 0..MaxChunks
    BY Typed DEF Inv
  <2> QED
    BY <1>1, <1>3, <2>1, <2>2, <2>3 DEF Inv, TypeOK, Emptied
<1>5. HeadsInv' /\ TodoInv'
  BY <1>1, <1>3, Typed DEF Inv, HeadsInv, TodoInv, Emptied, Wrap
<1>6. RoomForWatermark'
  <2>1. capacity_for(max_ms)' = capacity_for(max_ms)
    BY <1>1 DEF capacity_for
  <2> QED
    BY <1>1, <1>3, <2>1 DEF RoomForWatermark
<1>7. op'.todo = 0
  BY <1>1 DEF Inv, TodoInv
<1>8. ChunksMatchFrames'
  BY <1>1, <1>7, CoversEmptied DEF Emptied
<1> QED
  BY <1>4, <1>5, <1>6, <1>8 DEF Inv

(* Growing keeps every frame queued, in its place in the queue.            *)
LEMMA ResizeStep ==
  ASSUME Inv, NEW ms \in Maxima, Resize(ms)
  PROVE  Inv' /\ FramesKept
<1>1. /\ op.kind = "none" /\ max_ms' = ms /\ UNCHANGED <<fill, ptss, op, out>>
  BY DEF Resize
<1>2. /\ fill \in Nat /\ fill <= capacity /\ capacity \in Nat
      /\ capacity_for(ms) \in Nat \ {0}
  BY Typed, CapacityType DEF Inv
<1>3. op.todo = 0 /\ op'.todo = 0 /\ fill' = fill
  BY <1>1 DEF Inv, TodoInv
<1>4. CASE capacity_for(ms) > capacity
  <2>1. /\ capacity' = capacity_for(ms)
        /\ data' = [p \in 0..(capacity' - 1) |-> IF p < fill THEN FrameAt(p) ELSE 0]
        /\ tail' = 0 /\ head' = Wrap(fill, capacity')
    BY <1>4 DEF Resize
  <2>2. capacity' \in Nat \ {0} /\ capacity' > capacity /\ fill < capacity'
    BY <1>2, <1>4, <2>1
  <2>3. data' \in [0..(capacity' - 1) -> Int]
    <3>1. ASSUME NEW p \in 0..(capacity' - 1)
          PROVE  (IF p < fill THEN FrameAt(p) ELSE 0) \in Int
      <4>1. CASE p < fill
        <5>1. p \in 0..(capacity - 1)
          BY <1>2, <2>2, <3>1, <4>1
        <5> QED
          BY <4>1, <5>1, FrameType DEF Inv
      <4>2. CASE ~(p < fill)
        BY <4>2
      <4> QED
        BY <4>1, <4>2
    <3> QED
      BY <2>1, <3>1
  <2>4. head' = fill
    BY <2>1, <2>2 DEF Wrap
  <2>5. TypeOK'
    <3>1. head' \in 0..(capacity' - 1) /\ tail' \in 0..(capacity' - 1) /\ fill' \in 0..capacity'
      BY <1>2, <1>3, <2>1, <2>2, <2>4
    <3> QED
      BY <1>1, <2>2, <2>3, <3>1 DEF Inv, TypeOK, ptss
  <2>6. HeadsInv' /\ TodoInv'
    <3>1. head' = Wrap(tail' + fill', capacity')
      BY <1>2, <1>3, <2>1
    <3> QED
      BY <1>1, <3>1 DEF Inv, HeadsInv, TodoInv, ptss
  <2>7. RoomForWatermark'
    BY <1>1, <1>2, <2>1 DEF RoomForWatermark, capacity_for
  <2>8. ASSUME NEW p \in op'.todo..(fill' + op'.todo - 1)
        PROVE  FrameAfter(p - op'.todo) = FrameAt(p - op.todo)
    <3>0. p \in 0..(fill - 1)
      BY <1>2, <1>3, <2>8
    <3>2. p \in Nat /\ p < fill /\ capacity' \in Nat
      BY <1>2, <2>2, <3>0
    <3>3. p \in 0..(capacity' - 1)
      <4>1. p < capacity'
        BY <1>2, <2>2, <3>2
      <4> QED
        BY <3>2, <4>1, InRange
    <3>4. p - op'.todo = p /\ p - op.todo = p
      BY <1>3, <3>2
    <3>1. p \in 0..(capacity' - 1) /\ p < fill /\ p - op'.todo = p /\ p - op.todo = p
      BY <3>2, <3>3, <3>4
    <3>5. Wrap(tail' + p, capacity') = p
      BY <2>1, <2>2, <3>1 DEF Wrap
    <3> QED
      BY <2>1, <3>1, <3>5 DEF FrameAfter
  <2>9. ChunksMatchFrames'
    BY <1>1, <1>3, <2>5, <2>8, CoversKept DEF Inv
  <2>10. FramesKept
    <3>1. \A p \in 0..(fill - 1) : FrameAfter(p - 0) = FrameAt(p - 0)
      BY <1>2, <1>3, <2>8
    <3>2. \A p \in 0..(fill - 1) : p - 0 = p
      BY <1>2
    <3> QED
      BY <1>3, <3>1, <3>2 DEF FramesKept
  <2> QED
    BY <2>5, <2>6, <2>7, <2>9, <2>10 DEF Inv
<1>5. CASE ~(capacity_for(ms) > capacity)
  <2>1. UNCHANGED <<capacity, data, tail, head, fill>>
    BY <1>5 DEF Resize
  <2>2. TypeOK'
    BY <1>1, <2>1 DEF Inv, TypeOK, ptss
  <2>3. HeadsInv' /\ TodoInv'
    BY <1>1, <2>1 DEF Inv, HeadsInv, TodoInv, ptss
  <2>4. RoomForWatermark'
    <3>1. capacity >= capacity_for(ms)
      BY <1>2, <1>5
    <3> QED
      BY <1>1, <2>1, <3>1 DEF RoomForWatermark, capacity_for
  <2>5. ASSUME NEW p \in op'.todo..(fill' + op'.todo - 1)
        PROVE  FrameAfter(p - op'.todo) = FrameAt(p - op.todo)
    BY <1>3, <2>1 DEF FrameAfter, FrameAt
  <2>6. ChunksMatchFrames'
    BY <1>1, <1>3, <2>2, <2>5, CoversKept DEF Inv
  <2>7. FramesKept
    BY <2>1 DEF FramesKept, FrameAfter, FrameAt
  <2> QED
    BY <2>2, <2>3, <2>4, <2>6, <2>7 DEF Inv
<1> QED
  BY <1>4, <1>5

(* The frames of a write go behind those held, as many as there is room    *)
(* for, and a chunk that accounts for them behind the chunks.              *)
LEMMA WriteInnerStep ==
  ASSUME Inv, WriteInner
  PROVE  Inv' /\ FramesAdded
<1> DEFINE avail   == capacity - fill
           asked   == op.frames - Excess
           pts     == op.pts + Excess
           written == IF asked < avail THEN asked ELSE avail
<1>1. /\ op.kind = "write" /\ chunk_count < MaxChunks /\ op' = NoOp
      /\ UNCHANGED <<capacity, tail, chunk_tail, max_ms, out>>
      /\ data' = [p \in 0..(capacity - 1) |->
                    IF Behind(p, head, capacity) < written
                    THEN pts + Behind(p, head, capacity) ELSE data[p]]
      /\ head' = Wrap(head + written, capacity)
      /\ fill' = fill + written
      /\ IF written > 0
         THEN /\ chunks' = [chunks EXCEPT ![chunk_head] =
                              [pts |-> pts, size |-> written, consumed |-> 0]]
              /\ chunk_head' = Wrap(chunk_head + 1, MaxChunks)
              /\ chunk_count' = chunk_count + 1
         ELSE UNCHANGED <<chunks, chunk_head, chunk_count>>
  BY DEF WriteInner, ring_write, Behind
<1>2. /\ capacity \in Nat /\ capacity > 0 /\ capacity \in Nat \ {0}
      /\ tail \in 0..(capacity - 1) /\ head \in 0..(capacity - 1)
      /\ fill \in Nat /\ fill <= capacity /\ fill \in 0..capacity
      /\ chunk_tail \in 0..(MaxChunks - 1) /\ chunk_head \in 0..(MaxChunks - 1)
      /\ chunk_count \in Nat /\ MaxChunks \in Nat \ {0}
      /\ op.frames \in Nat /\ op.pts \in Int
  BY Typed DEF Inv
<1>3. Excess \in Nat /\ asked \in Nat
  BY <1>2 DEF Excess
<1>4. /\ pts \in Int /\ written \in Nat /\ fill + written <= capacity
  BY <1>2, <1>3
<1> HIDE DEF avail, asked, pts, written
<1>5. /\ head = Wrap(tail + fill, capacity)
      /\ chunk_head = Wrap(chunk_tail + chunk_count, MaxChunks)
      /\ op.todo = 0 /\ op'.todo = 0 /\ NoOp \in Op
  BY <1>1 DEF Inv, HeadsInv, TodoInv, NoOp, Op
<1>6. \A i \in 0..(fill - 1) : FrameAfter(i) = FrameAt(i)
  <2> SUFFICES ASSUME NEW i \in 0..(fill - 1)
               PROVE  FrameAfter(i) = FrameAt(i)
    OBVIOUS
  <2>1. i \in Nat /\ i < fill /\ i \in 0..(capacity - 1) /\ i \in 0..capacity
    BY <1>2
  <2>2. Behind(Wrap(tail + i, capacity), head, capacity) = capacity - (fill - i)
    BY <1>2, <1>5, <2>1, BehindHead
  <2>3. ~(capacity - (fill - i) < written)
    BY <1>2, <1>4, <2>1
  <2>4. Wrap(tail + i, capacity) \in 0..(capacity - 1)
    BY <1>2, <2>1, WrapType
  <2> QED
    BY <1>1, <2>2, <2>3, <2>4 DEF FrameAfter, FrameAt
<1>7. \A i \in 0..(written - 1) : FrameAfter(fill + i) = pts + i
  <2> SUFFICES ASSUME NEW i \in 0..(written - 1)
               PROVE  FrameAfter(fill + i) = pts + i
    OBVIOUS
  <2>1. /\ i \in Nat /\ i < written /\ fill + i \in 0..(capacity - 1) /\ fill + i \in 0..capacity
        /\ ~(fill + i < fill) /\ (fill + i) - fill = i
    BY <1>2, <1>4
  <2>2. Behind(Wrap(tail + (fill + i), capacity), head, capacity) = i
    <3>1. \A q \in 0..(capacity - 1) :
            Behind(Wrap(tail + q, capacity), Wrap(tail + fill, capacity), capacity)
              = IF q < fill THEN capacity - (fill - q) ELSE q - fill
      BY <1>2, BehindHead
    <3> QED
      BY <1>5, <2>1, <3>1
  <2>4. Wrap(tail + (fill + i), capacity) \in 0..(capacity - 1)
    BY <1>2, <2>1, WrapType
  <2> QED
    BY <1>1, <2>1, <2>2, <2>4 DEF FrameAfter
<1>8. data' \in [0..(capacity - 1) -> Int]
  <2>1. ASSUME NEW p \in 0..(capacity - 1)
        PROVE  (IF Behind(p, head, capacity) < written
                THEN pts + Behind(p, head, capacity) ELSE data[p]) \in Int
    <3>1. Behind(p, head, capacity) \in Int
      BY <1>2, <2>1 DEF Behind
    <3>2. data[p] \in Int
      BY <2>1 DEF Inv, TypeOK
    <3>3. pts + Behind(p, head, capacity) \in Int
      BY <1>4, <3>1
    <3> QED
      BY <3>2, <3>3
  <2> QED
    BY <1>1, <2>1
<1>9. /\ head' \in 0..(capacity - 1) /\ fill' \in 0..capacity
      /\ head' = Wrap(tail + fill', capacity)
  <2>1. written \in 0..capacity
    BY <1>2, <1>4
  <2>2. Wrap(head + written, capacity) \in 0..(capacity - 1)
    BY <1>2, <2>1, WrapType
  <2>3. Wrap(Wrap(tail + fill, capacity) + written, capacity) = Wrap(tail + (fill + written), capacity)
    BY <1>2, <1>4, WrapTwice
  <2>4. fill + written \in 0..capacity
    BY <1>2, <1>4
  <2> QED
    BY <1>1, <1>5, <2>2, <2>3, <2>4
<1>10. ASSUME written > 0
       PROVE  Inv'
  <2> DEFINE c == [pts |-> pts, size |-> written, consumed |-> 0]
  <2>1. /\ chunks' = [chunks EXCEPT ![chunk_head] = c]
        /\ chunk_head' = Wrap(chunk_head + 1, MaxChunks)
        /\ chunk_count' = chunk_count + 1
    BY <1>1, <1>10
  <2>2. c \in PtsChunk
    BY <1>4 DEF PtsChunk
  <2> HIDE DEF c
  <2>3. /\ chunks' \in [0..(MaxChunks - 1) -> PtsChunk]
        /\ chunks'[chunk_head] = c
        /\ \A j \in 0..(MaxChunks - 1) : j # chunk_head => chunks'[j] = chunks[j]
    BY <1>2, <2>1, <2>2 DEF Inv, TypeOK
  <2>4. /\ chunk_head' \in 0..(MaxChunks - 1)
        /\ chunk_head' = Wrap(chunk_tail + chunk_count', MaxChunks)
    <3>1. 1 \in 0..MaxChunks /\ 1 \in Nat /\ chunk_count + 1 <= MaxChunks
      BY <1>1, <1>2
    <3>2. Wrap(chunk_head + 1, MaxChunks) \in 0..(MaxChunks - 1)
      BY <1>2, <3>1, WrapType
    <3>3. Wrap(Wrap(chunk_tail + chunk_count, MaxChunks) + 1, MaxChunks)
            = Wrap(chunk_tail + (chunk_count + 1), MaxChunks)
      BY <1>2, <3>1, WrapTwice
    <3> QED
      BY <1>5, <2>1, <3>2, <3>3
  <2>5. TypeOK'
    <3>1. chunk_count' \in 0..MaxChunks
      BY <1>1, <1>2, <2>1
    <3> QED
      BY <1>1, <1>5, <1>8, <1>9, <2>3, <2>4, <3>1 DEF Inv, TypeOK
  <2>6. HeadsInv' /\ TodoInv' /\ RoomForWatermark'
    BY <1>1, <1>5, <1>9, <2>4 DEF Inv, HeadsInv, TodoInv, RoomForWatermark
  <2>7. \A i \in 0..(chunk_count - 1) : ChunkAfter(i) = ChunkAt(i)
    <3> SUFFICES ASSUME NEW i \in 0..(chunk_count - 1)
                 PROVE  ChunkAfter(i) = ChunkAt(i)
      OBVIOUS
    <3>1. i \in Nat /\ i < chunk_count /\ i \in 0..MaxChunks
      BY <1>1, <1>2
    <3>2. Wrap(chunk_tail + i, MaxChunks) \in 0..(MaxChunks - 1)
      BY <1>2, <3>1, WrapType
    <3>3. Wrap(chunk_tail + i, MaxChunks) # chunk_head
      BY <1>1, <1>2, <1>5, <3>1 DEF Wrap
    <3> QED
      BY <1>1, <2>3, <3>2, <3>3 DEF ChunkAfter, ChunkAt
  <2>8. ChunkAfter(chunk_count) = c
    BY <1>1, <1>5, <2>3 DEF ChunkAfter
  <2>9. ChunksMatchFrames'
    BY <1>1, <1>4, <1>5, <1>6, <1>7, <1>10, <2>1, <2>5, <2>7, <2>8, CoversWritten DEF Inv, c
  <2> QED
    BY <2>5, <2>6, <2>9 DEF Inv
<1>11. ASSUME ~(written > 0)
       PROVE  Inv'
  <2>1. written = 0 /\ fill' = fill /\ UNCHANGED <<chunks, chunk_head, chunk_count>>
    BY <1>1, <1>2, <1>4, <1>11
  <2>2. TypeOK'
    BY <1>1, <1>5, <1>8, <1>9, <2>1 DEF Inv, TypeOK
  <2>3. HeadsInv' /\ TodoInv' /\ RoomForWatermark'
    BY <1>1, <1>5, <1>9, <2>1 DEF Inv, HeadsInv, TodoInv, RoomForWatermark
  <2>4. ASSUME NEW p \in op'.todo..(fill' + op'.todo - 1)
        PROVE  FrameAfter(p - op'.todo) = FrameAt(p - op.todo)
    <3>0. p \in 0..(fill - 1)
      BY <1>2, <1>5, <2>1, <2>4
    <3>1. p - op'.todo = p /\ p - op.todo = p
      BY <1>5, <3>0
    <3> QED
      BY <1>6, <3>0, <3>1
  <2>5. ChunksMatchFrames'
    <3>1. UNCHANGED ptss /\ fill' + op'.todo = fill + op.todo /\ op'.todo = op.todo
      BY <1>1, <1>5, <2>1 DEF ptss
    <3> QED
      BY <2>2, <2>4, <3>1, CoversKept DEF Inv
  <2> QED
    BY <2>2, <2>3, <2>5 DEF Inv
<1>12. FramesAdded
  BY <1>1, <1>4, <1>6, <1>7 DEF FramesAdded
<1> QED
  BY <1>10, <1>11, <1>12

LEMMA NextInv ==
  ASSUME Inv, [Next]_vars
  PROVE  Inv'
<1>1. CASE UNCHANGED vars
  <2>1. UNCHANGED <<ring, ptss, max_ms, out>> /\ op' = op
    BY <1>1 DEF vars
  <2>2. op' \in Op /\ op'.todo = op.todo /\ (op'.kind # "consume" => op'.todo = 0)
    BY <2>1, Typed DEF Inv, TodoInv
  <2> QED
    BY <2>1, <2>2, StartStep
<1>2. CASE Next
  BY <1>2, WritePtsStep, MakeRoomStep, WriteInnerStep, ReadPtsStep, PtsConsumeStep, ReadEndsStep,
     TrimToKeepMsStep, TrimOldestStep, TrimEndsStep, FlushStep, ReconfigureStep, ResizeStep
     DEF Next
<1> QED
  BY <1>1, <1>2

(* The invariant the theorems below are read off.                          *)
THEOREM InvariantHolds == Spec => []Inv
  BY InitInv, NextInv, PTL DEF Spec

-----------------------------------------------------------------------------
(* Every variable keeps its type: no index ever leaves its ring.           *)
THEOREM TypeCorrect == Spec => []TypeOK
<1>1. Inv => TypeOK
  BY DEF Inv
<1> QED
  BY <1>1, InvariantHolds, PTL

(* Whatever order writes, reads, trims, flushes and resizes come in, the   *)
(* chunks account for exactly the frames held, each for its own: every     *)
(* queued frame is the one its chunk says it is.                           *)
THEOREM ChunksAccount == Spec => []ChunksMatchFrames
<1>1. Inv => ChunksMatchFrames
  BY DEF Inv
<1> QED
  BY <1>1, InvariantHolds, PTL

(* Between operations the frames and the chunks run out together, so that  *)
(* peek_state may answer for the one from the other.                       *)
THEOREM PeekTellsEmpty == Spec => []EmptyTogether
<1>1. Inv => EmptyTogether
  <2> SUFFICES ASSUME Inv, op.kind = "none"
               PROVE  fill = 0 <=> chunk_count = 0
    BY DEF EmptyTogether
  <2>1. op.todo = 0 /\ fill \in Nat /\ chunk_count \in Nat
    BY Typed DEF Inv, TodoInv
  <2>2. PICK at \in [0..chunk_count -> 0..(fill + op.todo)] : Covers(at)
    BY DEF Inv, ChunksMatchFrames
  <2>3. at[0] = 0 /\ at[chunk_count] = fill
    BY <2>1, <2>2 DEF Covers
  <2>4. CASE chunk_count > 0
    <3>1. Remaining(ChunkAt(0)) > 0 /\ Remaining(ChunkAt(0)) \in Nat
          /\ Remaining(ChunkAt(0)) <= fill + op.todo
      BY <2>2, <2>4, FirstChunk DEF Inv
    <3> QED
      BY <2>1, <2>4, <3>1
  <2> QED
    BY <2>1, <2>3, <2>4
<1> QED
  BY <1>1, InvariantHolds, PTL

(* The ring has room for the watermark in force, through every hot edit    *)
(* and every change of format.                                             *)
THEOREM RoomKept == Spec => []RoomForWatermark
<1>1. Inv => RoomForWatermark
  BY DEF Inv
<1> QED
  BY <1>1, InvariantHolds, PTL

-----------------------------------------------------------------------------
(* The buffer implements the queue of SampleQueue.                         *)

Queue == [i \in 1..fill |-> FrameAt(i - 1)]
QueueAfter == [i \in 1..fill' |-> FrameAfter(i - 1)]

LEMMA QueuePrimed == Queue' = QueueAfter
  BY DEF Queue, QueueAfter, FrameAt, FrameAfter

LEMMA QueueType ==
  ASSUME TypeOK
  PROVE  Queue \in Seq(Int) /\ Len(Queue) = fill
<1>1. fill \in Nat /\ fill <= capacity /\ capacity \in Nat
  BY Typed
<1>2. ASSUME NEW i \in 1..fill
      PROVE  FrameAt(i - 1) \in Int
  <2>1. i - 1 \in 0..(capacity - 1)
    BY <1>1, <1>2
  <2> QED
    BY <2>1, FrameType
<1> QED
  BY <1>1, <1>2 DEF Queue

LEMMA KeptStep ==
  ASSUME FramesKept, fill \in Nat, UNCHANGED out
  PROVE  UNCHANGED Abstract!vars
<1>1. ASSUME NEW i \in 1..fill
      PROVE  FrameAfter(i - 1) = FrameAt(i - 1)
  <2>1. i - 1 \in 0..(fill - 1)
    BY <1>1
  <2> QED
    BY <2>1 DEF FramesKept
<1>2. Queue' = Queue
  BY <1>1, QueuePrimed DEF Queue, QueueAfter, FramesKept
<1> QED
  BY <1>2 DEF Abstract!vars, Queue

(* The frames after the first k, as a sequence.                            *)
LEMMA Rest ==
  ASSUME TypeOK, NEW k \in 0..fill
  PROVE  /\ SubSeq(Queue, k + 1, Len(Queue)) = [i \in 1..(fill - k) |-> FrameAt(k + i - 1)]
         /\ SubSeq(Queue, 1, k) = [i \in 1..k |-> FrameAt(i - 1)]
<1>1. Queue \in Seq(Int) /\ Len(Queue) = fill /\ fill \in Nat /\ k \in Nat
  BY QueueType, Typed
<1>2. \A i \in 1..fill : Queue[i] = FrameAt(i - 1)
  BY DEF Queue
<1>3. SubSeq(Queue, k + 1, Len(Queue)) = [i \in 1..(fill - k) |-> Queue[k + i]]
  <2>1. \A m, n \in 0..fill : SubSeq(Queue, m + 1, n) = [i \in 1..(n - m) |-> Queue[m + i]]
    BY <1>1
  <2> QED
    BY <1>1, <2>1
<1>4. SubSeq(Queue, 1, k) = [i \in 1..k |-> Queue[i]]
  BY <1>1
<1>5. ASSUME NEW i \in 1..(fill - k)
      PROVE  Queue[k + i] = FrameAt(k + i - 1)
  BY <1>1, <1>2
<1> QED
  BY <1>1, <1>2, <1>3, <1>4, <1>5

LEMMA QueueAfterDrop ==
  ASSUME TypeOK, NEW k \in 0..fill, fill' = fill - k,
         \A i \in 0..(fill' - 1) : FrameAfter(i) = FrameAt(k + i)
  PROVE  Queue' = SubSeq(Queue, k + 1, Len(Queue))
<1>1. fill \in Nat /\ k \in Nat /\ fill' \in Nat
  BY Typed
<1>2. ASSUME NEW i \in 1..fill'
      PROVE  FrameAfter(i - 1) = FrameAt(k + i - 1)
  <2>1. i - 1 \in 0..(fill' - 1) /\ k + (i - 1) = k + i - 1
    BY <1>1, <1>2
  <2> QED
    BY <2>1
<1>3. QueueAfter = [i \in 1..fill' |-> FrameAt(k + i - 1)]
  BY <1>2 DEF QueueAfter
<1> QED
  BY <1>3, Rest, QueuePrimed

LEMMA DropStep ==
  ASSUME TypeOK, FramesDropped, UNCHANGED out
  PROVE  Abstract!Drop
<1>1. PICK k \in 1..fill :
        fill' = fill - k /\ \A i \in 0..(fill' - 1) : FrameAfter(i) = FrameAt(k + i)
  BY DEF FramesDropped
<1>2. k \in 0..fill /\ k \in 1..Len(Queue)
  BY QueueType
<1>3. Queue' = SubSeq(Queue, k + 1, Len(Queue))
  BY <1>1, <1>2, QueueAfterDrop
<1> QED
  BY <1>2, <1>3 DEF Abstract!Drop, Queue

(* The frames all go at once.                                              *)
LEMMA EmptyStep ==
  ASSUME TypeOK, fill' = 0, UNCHANGED out
  PROVE  Abstract!Drop \/ UNCHANGED Abstract!vars
<1>1. fill \in Nat
  BY Typed
<1>2. CASE fill = 0
  <2>1. FramesKept
    BY <1>2 DEF FramesKept
  <2> QED
    BY <1>1, <2>1, KeptStep
<1>3. CASE fill # 0
  <2>1. fill \in 1..fill /\ fill' = fill - fill /\ \A i \in 0..(fill' - 1) : FALSE
    BY <1>1, <1>3
  <2>2. FramesDropped
    BY <2>1 DEF FramesDropped
  <2> QED
    BY <2>2, DropStep
<1> QED
  BY <1>2, <1>3

(* The oldest chunk says which stream time the oldest frame has.           *)
LEMMA FirstFrame ==
  ASSUME Inv, fill > 0, op.kind = "none"
  PROVE  OldestPts = FrameAt(0)
<1>1. op.todo = 0 /\ fill \in Nat /\ chunk_count \in Nat
  BY Typed DEF Inv, TodoInv
<1>2. PICK at \in [0..chunk_count -> 0..(fill + op.todo)] : Covers(at)
  BY DEF Inv, ChunksMatchFrames
<1>3. at[0] = 0 /\ at[chunk_count] = fill
  BY <1>1, <1>2 DEF Covers
<1>4. chunk_count > 0 /\ 0 \in 0..(chunk_count - 1)
  BY <1>1, <1>3
<1>5. at[1] > 0
  BY <1>2, <1>4, FirstChunk DEF Inv
<1>6. 0 \in op.todo..(fill + op.todo - 1)
  BY <1>1
<1>7. \A p \in op.todo..(fill + op.todo - 1) :
         at[0] <= p /\ p < at[0 + 1] =>
           FrameAt(p - op.todo) = ChunkAt(0).pts + ChunkAt(0).consumed + (p - at[0])
  BY <1>2, <1>4 DEF Covers
<1>8. at[0] <= 0 /\ 0 < at[0 + 1]
  BY <1>3, <1>5
<1>9. FrameAt(0 - op.todo) = ChunkAt(0).pts + ChunkAt(0).consumed + (0 - at[0])
  BY <1>6, <1>7, <1>8
<1>10. 0 \in 0..(MaxChunks - 1)
  BY Typed DEF Inv
<1>11. ChunkAt(0).pts \in Int /\ ChunkAt(0).consumed \in Nat
  BY <1>10, ChunkType DEF Inv
<1>12. FrameAt(0) = ChunkAt(0).pts + ChunkAt(0).consumed
  <2>1. 0 - op.todo = 0 /\ 0 - at[0] = 0
    BY <1>1, <1>3
  <2> QED
    BY <1>9, <1>11, <2>1
<1> QED
  BY <1>4, <1>12 DEF OldestPts

LEMMA TakeStep ==
  ASSUME Inv, NEW n \in Lengths, ReadPts(n)
  PROVE  Abstract!Take
<1> DEFINE got == IF n < fill THEN n ELSE fill
<1>1. /\ fill > 0 /\ op.kind = "none"
      /\ out' = [frames |-> [i \in 1..got |-> FrameAt(i - 1)], pts |-> OldestPts]
      /\ tail' = Wrap(tail + got, capacity)
      /\ fill' = fill - got
      /\ UNCHANGED <<capacity, data, head>>
  BY DEF ReadPts
<1>2. got \in 0..fill /\ got \in 1..fill
  <2>1. n \in Nat /\ n > 0 /\ fill \in Nat /\ fill > 0
    BY <1>1, CallsAssumption, Typed DEF Inv
  <2> QED
    BY <2>1
<1> HIDE DEF got
<1>3. Taken(got)
  BY <1>1 DEF Taken
<1>4. \A i \in 0..(fill' - 1) : FrameAfter(i) = FrameAt(got + i)
  BY <1>2, <1>3, TakenFrames DEF Inv
<1>5. Queue' = SubSeq(Queue, got + 1, Len(Queue))
  BY <1>1, <1>2, <1>4, QueueAfterDrop DEF Inv
<1>6. SubSeq(Queue, 1, got) = [i \in 1..got |-> FrameAt(i - 1)]
  BY <1>2, Rest DEF Inv
<1>7. Queue[1] = FrameAt(0)
  <2>1. 1 \in 1..fill /\ 1 - 1 = 0
    BY <1>1, Typed DEF Inv
  <2> QED
    BY <2>1 DEF Queue
<1>8. out' = [frames |-> SubSeq(Queue, 1, got), pts |-> Queue[1]]
  BY <1>1, <1>6, <1>7, FirstFrame
<1>9. got \in 1..Len(Queue)
  BY <1>2, QueueType DEF Inv
<1> QED
  BY <1>5, <1>8, <1>9 DEF Abstract!Take, Queue

LEMMA PutStep ==
  ASSUME TypeOK, TypeOK', FramesAdded, UNCHANGED out
  PROVE  Abstract!Put
<1>1. PICK w \in Nat, pts \in Int :
        /\ fill' = fill + w
        /\ \A i \in 0..(fill - 1) : FrameAfter(i) = FrameAt(i)
        /\ \A i \in 0..(w - 1) : FrameAfter(fill + i) = pts + i
  BY DEF FramesAdded
<1>2. fill \in Nat /\ w \in Nat /\ pts \in Int /\ fill' \in Nat
  BY <1>1, Typed DEF TypeOK
<1>3. Queue \in Seq(Int) /\ Len(Queue) = fill
  BY QueueType
<1>4. Queue' \in Seq(Int) /\ Len(Queue') = fill'
  <2>1. QueueAfter \in Seq(Int) /\ Len(QueueAfter) = fill'
    <3>1. ASSUME NEW i \in 1..fill'
          PROVE  FrameAfter(i - 1) \in Int
      <4>1. CASE i <= fill
        <5>1. i - 1 \in 0..(fill - 1) /\ i \in 1..fill
          BY <1>2, <3>1, <4>1
        <5>2. FrameAt(i - 1) = Queue[i]
          BY <5>1 DEF Queue
        <5>3. Queue[i] \in Int
          BY <1>3, <5>1
        <5> QED
          BY <1>1, <5>1, <5>2, <5>3
      <4>2. CASE ~(i <= fill)
        <5>1. i - 1 - fill \in 0..(w - 1) /\ fill + (i - 1 - fill) = i - 1
          BY <1>1, <1>2, <3>1, <4>2
        <5>2. FrameAfter(fill + (i - 1 - fill)) = pts + (i - 1 - fill)
          BY <1>1, <5>1
        <5> QED
          BY <1>2, <5>1, <5>2
      <4> QED
        BY <4>1, <4>2
    <3> QED
      BY <1>2, <3>1 DEF QueueAfter
  <2> QED
    BY <2>1, QueuePrimed
<1>5. \A i \in 1..fill' : Queue'[i] = FrameAfter(i - 1)
  BY QueuePrimed DEF QueueAfter
<1>6. SubSeq(Queue', 1, Len(Queue)) = Queue
  <2>1. Queue = [i \in 1..fill |-> Queue[i]]
    BY <1>3
  <2>2. PICK q : q = Queue'
    OBVIOUS
  <2>3. SubSeq(q, 1, fill) = [i \in 1..fill |-> q[i]]
    BY <1>1, <1>2, <1>4, <2>2
  <2>4. ASSUME NEW i \in 1..fill
        PROVE  q[i] = Queue[i]
    <3>1. i \in 1..fill' /\ i - 1 \in 0..(fill - 1)
      BY <1>1, <1>2, <2>4
    <3>2. FrameAt(i - 1) = Queue[i]
      BY <2>4 DEF Queue
    <3> QED
      BY <1>1, <1>5, <2>2, <3>1, <3>2
  <2> QED
    BY <1>3, <2>1, <2>2, <2>3, <2>4
<1>7. ASSUME NEW i \in 1..fill', i > fill + 1
      PROVE  Queue'[i] = Queue'[i - 1] + 1
  <2>1. /\ i - 1 \in 1..fill'
        /\ i - 1 - fill \in 0..(w - 1) /\ fill + (i - 1 - fill) = i - 1
        /\ i - 2 - fill \in 0..(w - 1) /\ fill + (i - 2 - fill) = (i - 1) - 1
    BY <1>1, <1>2, <1>7
  <2>2. FrameAfter(i - 1) = pts + (i - 1 - fill) /\ FrameAfter((i - 1) - 1) = pts + (i - 2 - fill)
    <3>1. FrameAfter(fill + (i - 1 - fill)) = pts + (i - 1 - fill)
      BY <1>1, <2>1
    <3>2. FrameAfter(fill + (i - 2 - fill)) = pts + (i - 2 - fill)
      BY <1>1, <2>1
    <3> QED
      BY <2>1, <3>1, <3>2
  <2>3. Queue'[i] = FrameAfter(i - 1) /\ Queue'[i - 1] = FrameAfter((i - 1) - 1)
    BY <1>5, <2>1
  <2>4. pts + (i - 1 - fill) = pts + (i - 2 - fill) + 1
    BY <1>2
  <2> QED
    BY <2>2, <2>3, <2>4
<1>8. /\ Len(Queue') >= Len(Queue)
      /\ \A i \in 1..Len(Queue') : i > Len(Queue) + 1 => Queue'[i] = Queue'[i - 1] + 1
  BY <1>1, <1>2, <1>3, <1>4, <1>7
<1> QED
  BY <1>6, <1>8 DEF Abstract!Put, Queue

LEMMA InitImplements ==
  ASSUME Init
  PROVE  Abstract!Init
<1>1. fill = 0 /\ out = [frames |-> << >>, pts |-> 0]
  BY DEF Init
<1>2. Queue = << >>
  BY <1>1 DEF Queue
<1> QED
  BY <1>1, <1>2 DEF Abstract!Init, Queue

LEMMA NextImplements ==
  ASSUME Inv, Inv', [Next]_vars
  PROVE  [Abstract!Next]_(Abstract!vars)
<1>1. TypeOK /\ TypeOK' /\ fill \in Nat
  BY Typed DEF Inv
<1>2. ASSUME UNCHANGED <<ring, out>>
      PROVE  UNCHANGED Abstract!vars
  <2>1. FramesKept
    BY <1>2 DEF FramesKept, FrameAfter, FrameAt, ring
  <2> QED
    BY <1>1, <1>2, <2>1, KeptStep
<1>3. ASSUME NEW n \in Lengths, NEW t \in Times, WritePts(n, t)
      PROVE  UNCHANGED Abstract!vars
  BY <1>2, <1>3 DEF WritePts
<1>4. ASSUME MakeRoomForChunk \/ TrimOldest
      PROVE  Abstract!Drop
  <2>1. FramesDropped
    BY <1>4, MakeRoomStep, TrimOldestStep
  <2> QED
    BY <1>1, <1>4, <2>1, DropStep DEF MakeRoomForChunk, TrimOldest
<1>5. ASSUME WriteInner
      PROVE  Abstract!Put
  <2>1. FramesAdded
    BY <1>5, WriteInnerStep
  <2> QED
    BY <1>1, <1>5, <2>1, PutStep DEF WriteInner
<1>6. ASSUME NEW n \in Lengths, ReadPts(n)
      PROVE  Abstract!Take
  BY <1>6, TakeStep
<1>7. ASSUME PtsConsume \/ ReadEnds
      PROVE  UNCHANGED Abstract!vars
  BY <1>2, <1>7 DEF PtsConsume, ReadEnds
<1>8. ASSUME NEW keep \in Lengths, TrimToKeepMs(keep, 1)
      PROVE  UNCHANGED Abstract!vars
  BY <1>2, <1>8 DEF TrimToKeepMs
<1>9. ASSUME TrimEnds
      PROVE  UNCHANGED Abstract!vars
  BY <1>2, <1>9 DEF TrimEnds
<1>10. ASSUME Flush \/ Reconfigure
       PROVE  Abstract!Drop \/ UNCHANGED Abstract!vars
  BY <1>1, <1>10, EmptyStep DEF Flush, Reconfigure, Emptied
<1>11. ASSUME NEW ms \in Maxima, Resize(ms)
       PROVE  UNCHANGED Abstract!vars
  <2>1. FramesKept
    BY <1>11, ResizeStep
  <2> QED
    BY <1>1, <1>11, <2>1, KeptStep DEF Resize
<1>12. CASE UNCHANGED vars
  BY <1>2, <1>12 DEF vars
<1>13. CASE Next
  BY <1>3, <1>4, <1>5, <1>6, <1>7, <1>8, <1>9, <1>10, <1>11, <1>13 DEF Next, Abstract!Next
<1> QED
  BY <1>12, <1>13

(* The ring, its chunks and their five counters behave as a queue of       *)
(* frames: what is read comes in the order it was written, starting with   *)
(* the oldest frame held and labelled with that frame's stream time; what  *)
(* is given up is the oldest of what is held.                              *)
THEOREM BufferIsAQueue == Spec => ReadsInOrder
<1>1. Init => Abstract!Init
  BY InitImplements
<1>2. Inv /\ Inv' /\ [Next]_vars => [Abstract!Next]_(Abstract!vars)
  BY NextImplements
<1> QED
  BY <1>1, <1>2, InvariantHolds, PTL DEF Spec, ReadsInOrder, Abstract!Spec
=============================================================================
