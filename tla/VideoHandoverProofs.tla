------------------------- MODULE VideoHandoverProofs -------------------------
(***************************************************************************)
(* Proofs about VideoHandover, for a queue and a pacing lead of any size   *)
(* and any number of connections and packets.                              *)
(***************************************************************************)
EXTENDS VideoHandover, SequenceTheorems, TLAPS

USE DEF None

-----------------------------------------------------------------------------
(* The inductive invariant.                                                *)

(* The queue is in the order of the connections, and behind the decoder.   *)
OrderInv ==
  /\ decoder <= connection
  /\ \A i \in 1..Len(msgs) :
       /\ msgs[i].connection \in 1..connection
       /\ decoder <= msgs[i].connection
  /\ \A i, j \in 1..Len(msgs) : i <= j => msgs[i].connection <= msgs[j].connection
  /\ video = "decode" =>
       /\ packet.connection \in 1..connection
       /\ decoder <= packet.connection
       /\ \A i \in 1..Len(msgs) : packet.connection <= msgs[i].connection

(* The decoder of connection c is owned (d), among the first n messages    *)
(* of s, or lost.                                                          *)
Bound(c, s, n, d, lost) ==
  \/ c \in lost
  \/ d = c
  \/ \E j \in 1..n : s[j].kind = "decoder" /\ s[j].connection = c

BindInv ==
  video # "exited" =>
    /\ \A i \in 1..Len(msgs) :
         msgs[i].kind = "packet" => Bound(msgs[i].connection, msgs, i - 1, decoder, dropped)
    /\ receiver \in {"opened", "reading"} /\ has_video =>
         Bound(connection, msgs, Len(msgs), decoder, dropped)
    /\ video = "decode" => packet.connection \in dropped \/ decoder = packet.connection

(* Everything under way came after the last request to clear, and whatever *)
(* is behind the decoder came after the last clear.                        *)
ClearInv ==
  /\ cleared <= asked /\ asked <= connection
  /\ receiver \in {"opened", "reading"} => asked < connection
  /\ \A i \in 1..Len(msgs) : asked < msgs[i].connection
  /\ video = "decode" => cleared < packet.connection
  /\ \A i \in 1..Len(pacing) : cleared < pacing[i].connection
  /\ last_frame # None => cleared < last_frame
  /\ picture # None => cleared < picture

(* The keyframe gate is open only for a connection that has started, as    *)
(* long as nothing older is under way to open it.                          *)
Gated(c) == first_keyframe /\ c \in drained \ dropped => c \in started

CleanInv ==
  /\ \A c \in drained : c <= connection
  /\ \A i \in 1..Len(msgs) : msgs[i].kind = "packet" =>
       /\ \A c \in drained : c <= msgs[i].connection
       /\ Gated(msgs[i].connection)
  /\ video = "decode" =>
       /\ \A c \in drained : c <= packet.connection
       /\ Gated(packet.connection)
  /\ receiver = "reading" => Gated(connection)
  /\ CleanStart

(* A connection whose stream has just opened has sent nothing yet.         *)
FreshInv ==
  /\ \A i \in 1..Len(pacing) : pacing[i].connection <= connection
  /\ receiver = "opened" =>
       /\ \A i \in 1..Len(msgs) : msgs[i].kind = "packet" => msgs[i].connection < connection
       /\ video = "decode" => packet.connection < connection
       /\ \A i \in 1..Len(pacing) : pacing[i].connection < connection

Inv == OrderInv /\ BindInv /\ ClearInv /\ CleanInv /\ FreshInv

-----------------------------------------------------------------------------
(* Sequences: dropping from the front, adding at the end.                  *)

LEMMA Rest ==
  ASSUME NEW S, NEW s \in Seq(S), NEW n \in 0..Len(s)
  PROVE  /\ From(s, n) \in Seq(S)
         /\ Len(From(s, n)) = Len(s) - n
         /\ \A i \in 1..(Len(s) - n) : From(s, n)[i] = s[n + i]
<1>1. \A i \in (n + 1)..Len(s) : s[i] \in S
  OBVIOUS
<1>2. /\ From(s, n) \in Seq(S)
      /\ Len(From(s, n)) = IF n + 1 <= Len(s) THEN Len(s) - (n + 1) + 1 ELSE 0
      /\ \A i \in 1..(Len(s) - (n + 1) + 1) : From(s, n)[i] = s[(n + 1) + i - 1]
  BY <1>1, SubSeqProperties DEF From
<1>3. Len(s) \in Nat
  OBVIOUS
<1> QED
  BY <1>2, <1>3

LEMMA Behead ==
  ASSUME NEW S, NEW s \in Seq(S), s # << >>
  PROVE  /\ s[1] \in S
         /\ Len(s) >= 1
         /\ Tail(s) \in Seq(S)
         /\ Len(Tail(s)) = Len(s) - 1
         /\ \A i \in 1..(Len(s) - 1) : Tail(s)[i] = s[i + 1]
  BY HeadTailProperties, EmptySeq

LEMMA Added ==
  ASSUME NEW S, NEW s \in Seq(S), NEW e \in S
  PROVE  /\ Append(s, e) \in Seq(S)
         /\ Len(Append(s, e)) = Len(s) + 1
         /\ \A i \in 1..Len(s) : Append(s, e)[i] = s[i]
         /\ Append(s, e)[Len(s) + 1] = e
  BY AppendProperties

LEMMA Shifted ==
  ASSUME NEW s \in Seq(Msg), NEW e \in Msg, NEW n \in 0..Len(s),
         NEW t, t = From(Append(s, e), n)
  PROVE  /\ t \in Seq(Msg)
         /\ Len(t) = Len(s) + 1 - n
         /\ \A i \in 1..(Len(s) - n) : t[i] = s[n + i]
         /\ t[Len(s) + 1 - n] = e
         /\ \A i \in 1..Len(t) :
              \/ i \in 1..(Len(s) - n) /\ n + i \in 1..Len(s) /\ t[i] = s[n + i]
              \/ i = Len(s) + 1 - n /\ t[i] = e
<1> DEFINE a == Append(s, e)
<1>1. /\ a \in Seq(Msg) /\ Len(a) = Len(s) + 1
      /\ \A i \in 1..Len(s) : a[i] = s[i]
      /\ a[Len(s) + 1] = e
  BY Added
<1>2. Len(s) \in Nat
  OBVIOUS
<1>3. n \in 0..Len(a)
  BY <1>1, <1>2
<1> HIDE DEF a
<1>4. /\ From(a, n) \in Seq(Msg)
      /\ Len(From(a, n)) = Len(a) - n
      /\ \A i \in 1..(Len(a) - n) : From(a, n)[i] = a[n + i]
  BY <1>1, <1>3, Rest
<1>5. t = From(a, n)
  BY DEF a
<1>6. t \in Seq(Msg) /\ Len(t) = Len(s) + 1 - n
  BY <1>1, <1>2, <1>4, <1>5
<1>7. t[Len(s) + 1 - n] = e
  <2>1. Len(s) + 1 - n \in 1..(Len(a) - n) /\ n + (Len(s) + 1 - n) = Len(s) + 1
    BY <1>1, <1>2
  <2> QED
    BY <1>1, <1>4, <1>5, <2>1
<1>8. ASSUME NEW i \in 1..(Len(s) - n)
      PROVE  n + i \in 1..Len(s) /\ t[i] = s[n + i]
  <2>1. i \in 1..(Len(a) - n) /\ n + i \in 1..Len(s)
    BY <1>1, <1>2
  <2> QED
    BY <1>1, <1>4, <1>5, <2>1
<1>9. \A i \in 1..Len(t) : i \in 1..(Len(s) - n) \/ i = Len(s) + 1 - n
  BY <1>2, <1>6
<1> QED
  BY <1>6, <1>7, <1>8, <1>9

(* A bound decoder stays bound when k messages leave the front, provided   *)
(* the decoders among them are lost.                                       *)
LEMMA BoundMoves ==
  ASSUME NEW c, NEW s, NEW t, NEW d, NEW lost, NEW lost1,
         NEW n \in Nat, NEW k \in 0..n,
         Bound(c, s, n, d, lost),
         lost \subseteq lost1,
         \A j \in 1..k : s[j].kind = "decoder" => s[j].connection \in lost1,
         \A j \in 1..(n - k) : t[j] = s[k + j]
  PROVE  Bound(c, t, n - k, d, lost1)
<1>1. CASE c \in lost \/ d = c
  BY <1>1 DEF Bound
<1>2. ASSUME NEW j \in 1..n, s[j].kind = "decoder", s[j].connection = c
      PROVE  Bound(c, t, n - k, d, lost1)
  <2>1. CASE j \in 1..k
    BY <1>2, <2>1 DEF Bound
  <2>2. CASE j > k
    <3>1. j - k \in 1..(n - k) /\ k + (j - k) = j
      BY <2>2
    <3>2. t[j - k] = s[j]
      BY <3>1
    <3> QED
      BY <1>2, <3>1, <3>2 DEF Bound
  <2> QED
    BY <2>1, <2>2
<1> QED
  BY <1>1, <1>2 DEF Bound

-----------------------------------------------------------------------------
(* Type correctness.                                                       *)

LEMMA MsgTypes ==
  ASSUME NEW c \in 0..MaxConnections, NEW key \in BOOLEAN
  PROVE  /\ Packet(c, key) \in Msg
         /\ Packet(c, key).kind = "packet"
         /\ Packet(c, key).connection = c
         /\ Packet(c, key).key = key
         /\ Decoder(c) \in Msg
         /\ Decoder(c).kind = "decoder"
         /\ Decoder(c).connection = c
  BY DEF Packet, Decoder, Msg

LEMMA MsgFields ==
  ASSUME NEW m \in Msg
  PROVE  /\ m.kind \in {"packet", "decoder"}
         /\ m.connection \in 0..MaxConnections
         /\ m.key \in BOOLEAN
  BY DEF Msg

LEMMA FrameFields ==
  ASSUME NEW f \in Frame
  PROVE  f.connection \in Connections /\ f.clean \in BOOLEAN
  BY DEF Frame

(* What the other lemmas need of TypeOK.                                   *)
LEMMA Typed ==
  ASSUME TypeOK
  PROVE  /\ msgs \in Seq(Msg) /\ Len(msgs) \in Nat
         /\ \A i \in 1..Len(msgs) :
              /\ msgs[i] \in Msg
              /\ msgs[i].kind \in {"packet", "decoder"}
              /\ msgs[i].connection \in Nat
         /\ pacing \in Seq(Frame) /\ Len(pacing) \in Nat
         /\ \A i \in 1..Len(pacing) : pacing[i].connection \in Nat
         /\ packet.connection \in Nat /\ packet.key \in BOOLEAN
         /\ connection \in Nat /\ connection \in 0..MaxConnections
         /\ decoder \in Nat /\ asked \in Nat /\ cleared \in Nat
         /\ last_frame \in Nat /\ picture \in Nat
         /\ has_video \in BOOLEAN /\ first_keyframe \in BOOLEAN
         /\ \A c \in drained : c \in Nat
         /\ MaxConnections \in Nat
<1>1. /\ msgs \in Seq(Msg) /\ pacing \in Seq(Frame) /\ packet \in Msg
      /\ connection \in 0..MaxConnections /\ decoder \in 0..MaxConnections
      /\ asked \in 0..MaxConnections /\ cleared \in 0..MaxConnections
      /\ last_frame \in 0..MaxConnections /\ picture \in 0..MaxConnections
      /\ has_video \in BOOLEAN /\ first_keyframe \in BOOLEAN
      /\ drained \subseteq Connections
  BY DEF TypeOK
<1>2. MaxConnections \in Nat
  BY BoundsAssumption
<1>3. \A i \in 1..Len(msgs) : msgs[i] \in Msg
  BY <1>1
<1>4. \A i \in 1..Len(pacing) : pacing[i] \in Frame
  BY <1>1
<1>5. Len(msgs) \in Nat /\ Len(pacing) \in Nat
  BY <1>1
<1>6. \A i \in 1..Len(msgs) :
        msgs[i].kind \in {"packet", "decoder"} /\ msgs[i].connection \in Nat
  BY <1>2, <1>3, MsgFields
<1>7. \A i \in 1..Len(pacing) : pacing[i].connection \in Nat
  BY <1>2, <1>4, FrameFields DEF Connections
<1>8. packet.connection \in Nat /\ packet.key \in BOOLEAN
  BY <1>1, <1>2, MsgFields
<1>9. \A c \in drained : c \in Nat
  BY <1>1, <1>2 DEF Connections
<1> QED
  BY <1>1, <1>2, <1>3, <1>5, <1>6, <1>7, <1>8, <1>9

LEMMA InitTyped == Init => TypeOK
<1> SUFFICES ASSUME Init PROVE TypeOK
  OBVIOUS
<1>1. msgs \in Seq(Msg) /\ pacing \in Seq(Frame)
  BY DEF Init
<1>2. 0 \in 0..MaxConnections /\ 0 \in 0..MaxPackets
  BY BoundsAssumption
<1>3. packet = Packet(0, FALSE)
  BY DEF Init
<1>4. Packet(0, FALSE) \in Msg
  BY <1>2, MsgTypes
<1>5. video = "top" /\ stop = "no" /\ receiver = "closed"
  BY DEF Init
<1>6. /\ connection = 0 /\ has_video = FALSE /\ reads = 0 /\ clear_pending = FALSE
      /\ decoder = 0 /\ first_keyframe = FALSE /\ last_frame = 0 /\ picture = 0
      /\ asked = 0 /\ cleared = 0 /\ dropped = {} /\ started = {} /\ drained = {}
  BY DEF Init
<1> QED
  BY <1>1, <1>2, <1>3, <1>4, <1>5, <1>6 DEF TypeOK

LEMMA ReceiverTyped ==
  ASSUME TypeOK, OrderInv, ClearInv, ReceiverNext
  PROVE  TypeOK'
<1> USE DEF TypeOK, rx, channel, output, history, receiver_step
<1>1. CASE Attempt
  BY <1>1 DEF Attempt
<1>2. CASE OpenFails
  BY <1>2 DEF OpenFails
<1>3. CASE Open
  <2>1. connection' \in 0..MaxConnections
    BY <1>3, BoundsAssumption DEF Open
  <2>2. reads' \in 0..MaxPackets
    BY <1>3, BoundsAssumption DEF Open
  <2>3. msgs' \in Seq(Msg)
    <3>1. Decoder(connection') \in Msg
      BY <2>1, MsgTypes
    <3>2. Append(msgs, Decoder(connection')) \in Seq(Msg)
      BY <3>1, Added
    <3> QED
      BY <1>3, <3>2 DEF Open
  <2> QED
    BY <1>3, <2>1, <2>2, <2>3 DEF Open, Notify, Unlocked
<1>4. CASE Reprobe
  BY <1>4 DEF Reprobe
<1>5. CASE PrepareNewConnection
  <2>1. connection \in Connections
    BY <1>5, Typed DEF PrepareNewConnection, ClearInv, Connections
  <2> QED
    BY <1>5, <2>1 DEF PrepareNewConnection
<1>6. ASSUME NEW key \in BOOLEAN, PushPacket(key)
      PROVE  TypeOK'
  <2> DEFINE e == Packet(connection, key)
  <2>1. e \in Msg /\ e.kind = "packet"
    BY MsgTypes
  <2> HIDE DEF e
  <2>2. PICK n \in 0..Len(msgs) :
          /\ msgs' = From(Append(msgs, e), n)
          /\ dropped' = dropped \cup
               {Append(msgs, e)[i].connection :
                  i \in {j \in 1..n : Append(msgs, e)[j].kind = "decoder"}}
    BY <1>6 DEF PushPacket, e
  <2>3. msgs' \in Seq(Msg)
    BY <2>1, <2>2, Shifted
  <2>4. \A i \in 1..n : Append(msgs, e)[i].connection \in Connections
    <3>1. \A i \in 1..Len(msgs) : Append(msgs, e)[i] = msgs[i]
      BY <2>1, Added
    <3>2. \A i \in 1..n : i \in 1..Len(msgs)
      BY Typed
    <3>3. \A i \in 1..Len(msgs) : msgs[i].connection \in Connections
      BY SMTT(30), Typed DEF OrderInv, Connections
    <3> QED
      BY <3>1, <3>2, <3>3
  <2>5. dropped' \subseteq Connections
    BY <2>2, <2>4
  <2>6. reads' \in 0..MaxPackets
    BY <1>6, BoundsAssumption DEF PushPacket
  <2> QED
    BY <1>6, <2>3, <2>5, <2>6 DEF PushPacket, Notify, Unlocked
<1>7. ASSUME NEW clear \in ClearSettings, Disconnect(clear)
      PROVE  TypeOK'
  <2>1. CASE clear
    <3>1. msgs' = << >>
      BY <1>7, <2>1 DEF Disconnect
    <3>2. msgs' \in Seq(Msg)
      BY <3>1
    <3> QED
      BY <1>7, <2>1, <3>2 DEF Disconnect, Notify, Unlocked
  <2>2. CASE ~clear
    BY <1>7, <2>2 DEF Disconnect
  <2> QED
    BY <2>1, <2>2
<1>8. CASE ReceiverExit
  <2>1. msgs' \in Seq(Msg)
    BY <1>8 DEF ReceiverExit
  <2> QED
    BY <1>8, <2>1 DEF ReceiverExit
<1> QED
  BY <1>1, <1>2, <1>3, <1>4, <1>5, <1>6, <1>7, <1>8 DEF ReceiverNext

LEMMA VideoTyped ==
  ASSUME TypeOK, OrderInv, VideoNext
  PROVE  TypeOK'
<1> USE DEF TypeOK, rx, channel, output, history, video_step, None
<1>0. 0 \in 0..MaxConnections
  BY BoundsAssumption
<1>1. CASE Finish
  <2>1. msgs' \in Seq(Msg) /\ pacing' \in Seq(Frame)
    BY <1>1 DEF Finish
  <2> QED
    BY <1>0, <1>1, <2>1 DEF Finish
<1>2. CASE TakeClear
  <2>1. pacing' \in Seq(Frame)
    BY <1>2 DEF TakeClear
  <2> QED
    BY <1>0, <1>2, <2>1 DEF TakeClear
<1>3. CASE NothingToClear
  BY <1>3 DEF NothingToClear
<1>4. CASE LookForDecoder
  BY <1>4 DEF LookForDecoder
<1>5. CASE AdoptDecoder
  <2>1. msgs # << >> => msgs[1].connection \in 0..MaxConnections /\ Tail(msgs) \in Seq(Msg)
    BY Behead, MsgFields
  <2> QED
    BY <1>5, <2>1 DEF AdoptDecoder
<1>6. CASE PopMessage
  <2>1. msgs[1] \in Msg /\ msgs[1].connection \in 0..MaxConnections /\ Tail(msgs) \in Seq(Msg)
    BY <1>6, Behead, MsgFields DEF PopMessage
  <2> QED
    BY <1>6, <2>1 DEF PopMessage
<1>7. CASE IntakeEnds
  BY <1>7 DEF IntakeEnds
<1>8. CASE Decode
  <2> DEFINE f == [connection |-> packet.connection, clean |-> packet.connection \in started']
  <2>1. packet.connection \in Connections
    BY <1>8, Typed DEF Decode, OrderInv, Connections
  <2>2. f \in Frame
    BY <2>1 DEF Frame
  <2>3. Append(pacing, f) \in Seq(Frame)
    BY <2>2, Added
  <2>4. pacing' \in Seq(Frame)
    BY <1>8, <2>3 DEF Decode
  <2>5. started' \subseteq Connections
    BY <1>8, <2>1 DEF Decode
  <2>6. first_keyframe' \in BOOLEAN
    BY <1>8 DEF Decode
  <2> QED
    BY <1>8, <2>4, <2>5, <2>6 DEF Decode
<1>9. CASE EmitDue
  <2>1. \A i \in 1..Len(pacing) : pacing[i].connection \in 0..MaxConnections
    <3>1. \A i \in 1..Len(pacing) : pacing[i] \in Frame
      OBVIOUS
    <3> QED
      BY <3>1, FrameFields, BoundsAssumption DEF Connections
  <2>2. ASSUME NEW n \in 1..Len(pacing),
               pacing' = From(pacing, n),
               last_frame' = pacing[n].connection,
               picture' \in {picture} \cup {pacing[i].connection : i \in 1..n}
        PROVE  /\ pacing' \in Seq(Frame)
               /\ last_frame' \in 0..MaxConnections
               /\ picture' \in 0..MaxConnections
    <3>1. n \in 0..Len(pacing) /\ \A i \in 1..n : i \in 1..Len(pacing)
      BY Typed
    <3>2. pacing' \in Seq(Frame)
      BY <2>2, <3>1, Rest
    <3> QED
      BY <2>1, <2>2, <3>1, <3>2
  <2>3. /\ pacing' \in Seq(Frame)
        /\ last_frame' \in 0..MaxConnections
        /\ picture' \in 0..MaxConnections
    BY <1>9, <2>2 DEF EmitDue
  <2> QED
    BY <1>9, <2>3 DEF EmitDue
<1>10. CASE RepeatLast
  BY <1>10 DEF RepeatLast
<1>11. CASE Wait
  BY <1>11 DEF Wait
<1>12. CASE FallAsleep
  BY <1>12 DEF FallAsleep
<1>13. CASE Timeout
  BY <1>13 DEF Timeout
<1> QED
  BY <1>1, <1>2, <1>3, <1>4, <1>5, <1>6, <1>7, <1>8, <1>9, <1>10, <1>11, <1>12, <1>13
     DEF VideoNext

LEMMA NextTyped ==
  ASSUME TypeOK, OrderInv, ClearInv, Next
  PROVE  TypeOK'
<1>1. CASE ReceiverNext
  BY <1>1, ReceiverTyped
<1>2. CASE VideoNext
  BY <1>2, VideoTyped
<1>3. CASE Stop
  BY <1>3 DEF Stop, others, TypeOK, rx, channel, output, history
<1>4. CASE WakeAll
  BY <1>4 DEF WakeAll, Notify, others, TypeOK, rx, channel, output, history
<1> QED
  BY <1>1, <1>2, <1>3, <1>4 DEF Next

-----------------------------------------------------------------------------
(* Steps that leave alone what the invariant speaks of.                    *)

Quiet ==
  /\ UNCHANGED <<connection, has_video, msgs, packet, decoder, first_keyframe, output, history>>
  /\ receiver' \in {"opened", "reading"} => receiver' = receiver
  /\ video' = "decode" <=> video = "decode"
  /\ video' = "exited" <=> video = "exited"

LEMMA QuietKeeps ==
  ASSUME Inv, Quiet
  PROVE  Inv'
<1> USE DEF Quiet, output, history
<1>1. OrderInv'
  BY DEF Inv, OrderInv
<1>2. BindInv'
  BY DEF Inv, BindInv
<1>3. ClearInv'
  BY DEF Inv, ClearInv
<1>4. CleanInv'
  BY DEF Inv, CleanInv, Gated, CleanStart
<1>5. FreshInv'
  BY DEF Inv, FreshInv
<1> QED
  BY <1>1, <1>2, <1>3, <1>4, <1>5 DEF Inv

LEMMA QuietSteps ==
  ASSUME \/ Attempt \/ OpenFails \/ Reprobe
         \/ NothingToClear \/ LookForDecoder \/ IntakeEnds \/ Wait \/ FallAsleep \/ Timeout
         \/ Stop \/ WakeAll \/ UNCHANGED vars
  PROVE  Quiet
<1> USE DEF Quiet, output, history, rx, channel, receiver_step, video_step, others
<1>1. CASE Attempt \/ OpenFails \/ Reprobe
  BY <1>1 DEF Attempt, OpenFails, Reprobe
<1>2. CASE NothingToClear \/ LookForDecoder \/ IntakeEnds
  BY <1>2 DEF NothingToClear, LookForDecoder, IntakeEnds
<1>3. CASE Wait \/ FallAsleep \/ Timeout
  BY <1>3 DEF Wait, FallAsleep, Timeout
<1>4. CASE Stop \/ WakeAll
  BY <1>4 DEF Stop, WakeAll, Notify
<1>5. CASE UNCHANGED vars
  BY <1>5 DEF vars
<1> QED
  BY <1>1, <1>2, <1>3, <1>4, <1>5

-----------------------------------------------------------------------------
(* Opening a connection, closing the keyframe gate for it.                 *)

LEMMA OpenKeeps ==
  ASSUME TypeOK, Inv, Open
  PROVE  Inv'
<1> USE DEF rx, channel, output, history, receiver_step
<1> DEFINE e == Decoder(connection')
<1>0. /\ connection' = connection + 1
      /\ connection' \in 0..MaxConnections
  BY Typed DEF Open
<1>1. e \in Msg /\ e.kind = "decoder" /\ e.connection = connection + 1
  BY <1>0, MsgTypes
<1> HIDE DEF e
<1>2. /\ \A i \in 1..Len(msgs) : i \in 1..Len(msgs') /\ msgs'[i] = msgs[i]
      /\ \/ Len(msgs') = Len(msgs) /\ has_video' = FALSE
         \/ /\ Len(msgs') = Len(msgs) + 1 /\ msgs'[Len(msgs) + 1] = e
  <2>1. CASE msgs' = msgs /\ has_video' = FALSE
    BY <2>1
  <2>2. CASE msgs' = Append(msgs, e)
    BY <1>1, <2>2, Added, Typed
  <2> QED
    BY <2>1, <2>2 DEF Open, e
<1>3. \A i \in 1..Len(msgs') : i \in 1..Len(msgs) \/ (i = Len(msgs) + 1 /\ msgs'[i] = e)
  BY <1>2, Typed
<1>4. /\ receiver = "opening" /\ receiver' = "opened"
      /\ video' = "decode" <=> video = "decode"
      /\ video' = "exited" <=> video = "exited"
      /\ UNCHANGED <<packet, decoder, first_keyframe, asked, cleared, dropped, started, drained,
                     pacing, last_frame, picture>>
  BY DEF Open, Notify
<1>5. OrderInv'
  <2>1. decoder <= connection /\ decoder <= connection'
    BY <1>0, Typed DEF Inv, OrderInv
  <2>2. \A i \in 1..Len(msgs) :
          /\ msgs'[i] = msgs[i]
          /\ msgs[i].connection \in 1..connection' /\ msgs[i].connection <= connection
          /\ decoder <= msgs[i].connection
    BY SMTT(30), <1>0, <1>2, Typed DEF Inv, OrderInv
  <2>3. e.connection \in 1..connection' /\ decoder <= e.connection
    BY <1>0, <1>1, <2>1, Typed
  <2>4. \A i, j \in 1..Len(msgs') : i <= j => msgs'[i].connection <= msgs'[j].connection
    <3> SUFFICES ASSUME NEW i \in 1..Len(msgs'), NEW j \in 1..Len(msgs'), i <= j
                 PROVE  msgs'[i].connection <= msgs'[j].connection
      OBVIOUS
    <3>1. CASE i \in 1..Len(msgs) /\ j \in 1..Len(msgs)
      BY <2>2, <3>1 DEF Inv, OrderInv
    <3>2. CASE i \in 1..Len(msgs) /\ msgs'[j] = e
      BY SMTT(30), <1>1, <2>2, <3>2, Typed
    <3>3. CASE msgs'[i] = e /\ msgs'[j] = e
      BY SMTT(30), <1>1, <3>3, Typed
    <3> QED
      BY <1>3, <3>1, <3>2, <3>3, Typed
  <2>5. video = "decode" => \A i \in 1..Len(msgs') : packet.connection <= msgs'[i].connection
    BY SMTT(30), <1>1, <1>3, <2>2, Typed DEF Inv, OrderInv
  <2>6. video = "decode" => packet.connection \in 1..connection' /\ decoder <= packet.connection
    BY <1>0, Typed DEF Inv, OrderInv
  <2>7. \A i \in 1..Len(msgs') : msgs'[i].connection \in 1..connection' /\ decoder <= msgs'[i].connection
    BY <1>3, <2>2, <2>3
  <2> QED
    BY <1>4, <2>1, <2>4, <2>5, <2>6, <2>7 DEF OrderInv
<1>6. BindInv'
  <2> SUFFICES ASSUME video # "exited" PROVE BindInv'
    BY <1>4 DEF BindInv
  <2>1. ASSUME NEW i \in 1..Len(msgs'), msgs'[i].kind = "packet"
        PROVE  Bound(msgs'[i].connection, msgs', i - 1, decoder, dropped)
    <3>1. i \in 1..Len(msgs) /\ msgs'[i] = msgs[i]
      BY <1>1, <1>2, <1>3, <2>1
    <3>2. Bound(msgs[i].connection, msgs, i - 1, decoder, dropped)
      BY <2>1, <3>1 DEF Inv, BindInv
    <3>3. \A j \in 1..(i - 1) : msgs'[j] = msgs[j]
      BY <1>2, <3>1, Typed
    <3> QED
      BY <3>1, <3>2, <3>3 DEF Bound
  <2>2. has_video' => Bound(connection', msgs', Len(msgs'), decoder, dropped)
    BY SMTT(30), <1>0, <1>1, <1>2, Typed DEF Bound
  <2>3. video = "decode" => packet.connection \in dropped \/ decoder = packet.connection
    BY DEF Inv, BindInv
  <2> QED
    BY <1>4, <2>1, <2>2, <2>3 DEF BindInv
<1>7. ClearInv'
  <2>1. \A i \in 1..Len(msgs') : asked < msgs'[i].connection
    BY SMTT(30), <1>1, <1>2, <1>3, Typed DEF Inv, ClearInv
  <2>2. asked < connection' /\ asked <= connection'
    BY <1>0, Typed DEF Inv, ClearInv
  <2> QED
    BY <1>4, <2>1, <2>2 DEF Inv, ClearInv
<1>8. CleanInv'
  <2>1. CleanStart'
    BY <1>4 DEF Inv, CleanInv, CleanStart
  <2>2. \A c \in drained : c <= connection'
    BY <1>0, Typed DEF Inv, CleanInv
  <2>3. \A i \in 1..Len(msgs') : msgs'[i].kind = "packet" => i \in 1..Len(msgs) /\ msgs'[i] = msgs[i]
    BY <1>1, <1>2, <1>3
  <2> QED
    BY <1>4, <2>1, <2>2, <2>3 DEF Inv, CleanInv, Gated
<1>9. FreshInv'
  <2>1. \A i \in 1..Len(pacing) : pacing[i].connection <= connection
    BY DEF Inv, FreshInv
  <2>2. \A i \in 1..Len(msgs') : msgs'[i].kind = "packet" => i \in 1..Len(msgs) /\ msgs'[i] = msgs[i]
    BY <1>1, <1>2, <1>3
  <2>3. \A i \in 1..Len(msgs) : msgs[i].connection <= connection
    BY Typed DEF Inv, OrderInv
  <2>4. video = "decode" => packet.connection <= connection
    BY Typed DEF Inv, OrderInv
  <2>5. \A i \in 1..Len(pacing) : pacing[i].connection < connection'
    BY <1>0, <2>1, Typed
  <2>6. \A i \in 1..Len(msgs') : msgs'[i].kind = "packet" => msgs'[i].connection < connection'
    BY SMTT(30), <1>0, <2>2, <2>3, Typed
  <2>7. video = "decode" => packet.connection < connection'
    BY <1>0, <2>4, Typed
  <2>8. \A i \in 1..Len(pacing) : pacing[i].connection <= connection'
    BY <1>0, <2>1, Typed
  <2> QED
    BY <1>4, <2>5, <2>6, <2>7, <2>8 DEF FreshInv
<1> QED
  BY <1>5, <1>6, <1>7, <1>8, <1>9 DEF Inv

LEMMA PrepareKeeps ==
  ASSUME TypeOK, Inv, PrepareNewConnection
  PROVE  Inv'
<1>1. /\ receiver = "opened" /\ receiver' = "reading" /\ first_keyframe' = FALSE
      /\ UNCHANGED <<connection, has_video, msgs, video, packet, decoder, pacing,
                     last_frame, picture, asked, cleared, dropped, started>>
  BY DEF PrepareNewConnection, rx, channel, output, history, receiver_step
<1>2. \/ drained' = drained
      \/ drained' = drained \cup {connection} /\ ~OlderUnderWay
  BY DEF PrepareNewConnection
<1>3. OrderInv'
  BY <1>1 DEF Inv, OrderInv
<1>4. BindInv'
  BY <1>1 DEF Inv, BindInv
<1>5. ClearInv'
  BY <1>1 DEF Inv, ClearInv
<1>6. CleanInv'
  <2>1. \A c : Gated(c)'
    BY <1>1 DEF Gated
  <2>2. ASSUME NEW c \in drained'
        PROVE  /\ c <= connection
               /\ \A i \in 1..Len(msgs) : msgs[i].kind = "packet" => c <= msgs[i].connection
               /\ video = "decode" => c <= packet.connection
    <3>1. CASE c \in drained
      BY <3>1 DEF Inv, CleanInv
    <3>2. CASE c = connection /\ ~OlderUnderWay
      <4>1. \A i \in 1..Len(msgs) : msgs[i].kind = "packet" => connection <= msgs[i].connection
        BY <3>2, Typed DEF OlderUnderWay
      <4>2. video = "decode" => connection <= packet.connection
        BY <3>2, Typed DEF OlderUnderWay
      <4> QED
        BY <3>2, <4>1, <4>2, Typed
    <3> QED
      BY <1>2, <3>1, <3>2
  <2>4. \A i \in 1..Len(pacing) : pacing[i].connection # connection
    BY <1>1, Typed DEF Inv, FreshInv
  <2>5. CleanStart'
    BY <1>1, <1>2, <2>4 DEF Inv, CleanInv, CleanStart
  <2> QED
    BY <1>1, <2>1, <2>2, <2>5 DEF CleanInv
<1>7. FreshInv'
  BY <1>1 DEF Inv, FreshInv
<1> QED
  BY <1>3, <1>4, <1>5, <1>6, <1>7 DEF Inv

-----------------------------------------------------------------------------
(* Pushing a packet, with what an overflow drops.                          *)

LEMMA PushKeeps ==
  ASSUME TypeOK, Inv, NEW key \in BOOLEAN, PushPacket(key)
  PROVE  Inv'
<1> DEFINE e == Packet(connection, key)
<1>1. e \in Msg /\ e.kind = "packet" /\ e.connection = connection
  BY MsgTypes, Typed
<1>2. /\ receiver = "reading" /\ receiver' = "reading" /\ has_video
      /\ video' = "decode" <=> video = "decode"
      /\ video' = "exited" <=> video = "exited"
      /\ UNCHANGED <<connection, has_video, packet, decoder, first_keyframe, pacing, last_frame,
                     picture, asked, cleared, started, drained>>
  BY DEF PushPacket, Notify, rx, channel, output, history, receiver_step
<1>3. PICK n \in 0..Len(msgs) :
        /\ msgs' = From(Append(msgs, e), n)
        /\ dropped' = dropped \cup
             {Append(msgs, e)[i].connection :
                i \in {j \in 1..n : Append(msgs, e)[j].kind = "decoder"}}
  BY DEF PushPacket
<1> HIDE DEF e
<1>4. msgs \in Seq(Msg) /\ e \in Msg /\ n \in 0..Len(msgs) /\ msgs' = From(Append(msgs, e), n)
  BY <1>1, <1>3, Typed
<1>5. /\ msgs' \in Seq(Msg)
      /\ Len(msgs') = Len(msgs) + 1 - n
      /\ \A i \in 1..(Len(msgs) - n) : msgs'[i] = msgs[n + i]
      /\ msgs'[Len(msgs) + 1 - n] = e
      /\ \A i \in 1..Len(msgs') :
           \/ i \in 1..(Len(msgs) - n) /\ n + i \in 1..Len(msgs) /\ msgs'[i] = msgs[n + i]
           \/ i = Len(msgs) + 1 - n /\ msgs'[i] = e
  BY <1>4, Shifted
<1>6. dropped \subseteq dropped'
  BY <1>3
<1>7. \A j \in 1..n : msgs[j].kind = "decoder" => msgs[j].connection \in dropped'
  <2>1. \A j \in 1..n : Append(msgs, e)[j] = msgs[j]
    <3>1. \A j \in 1..n : j \in 1..Len(msgs)
      BY Typed
    <3> QED
      BY <1>1, <3>1, Typed, Added
  <2> QED
    BY <1>3, <2>1
<1>8. connection \in 1..connection /\ decoder <= connection
  BY <1>2, Typed DEF Inv, ClearInv, OrderInv
<1>9. OrderInv'
  <2>1. \A i \in 1..Len(msgs) :
          /\ msgs[i].connection \in 1..connection /\ msgs[i].connection <= connection
          /\ decoder <= msgs[i].connection
    BY Typed DEF Inv, OrderInv
  <2>2. \A i \in 1..Len(msgs') :
          msgs'[i].connection \in 1..connection /\ decoder <= msgs'[i].connection
    BY <1>1, <1>5, <1>8, <2>1
  <2>3. ASSUME NEW i \in 1..Len(msgs'), NEW j \in 1..Len(msgs'), i <= j
        PROVE  msgs'[i].connection <= msgs'[j].connection
    <3>1. CASE j \in 1..(Len(msgs) - n)
      <4>1. i \in 1..(Len(msgs) - n)
        BY <2>3, <3>1, Typed
      <4>2. n + i <= n + j /\ n + i \in 1..Len(msgs) /\ n + j \in 1..Len(msgs)
        BY <2>3, <3>1, <4>1, Typed
      <4>3. msgs'[i] = msgs[n + i] /\ msgs'[j] = msgs[n + j]
        BY <1>5, <3>1, <4>1
      <4>4. msgs[n + i].connection <= msgs[n + j].connection
        BY <4>2 DEF Inv, OrderInv
      <4> QED
        BY <4>3, <4>4
    <3>2. CASE msgs'[j] = e
      <4>1. msgs'[i].connection <= connection
        BY <2>2, Typed
      <4>2. msgs'[j].connection = connection
        BY <1>1, <3>2
      <4> QED
        BY <4>1, <4>2
    <3> QED
      BY <1>5, <3>1, <3>2
  <2>4. video = "decode" =>
          /\ packet.connection \in 1..connection
          /\ decoder <= packet.connection
          /\ \A i \in 1..Len(msgs) : packet.connection <= msgs[i].connection
    BY DEF Inv, OrderInv
  <2>5. ASSUME video = "decode", NEW i \in 1..Len(msgs')
        PROVE  packet.connection <= msgs'[i].connection
    <3>1. CASE msgs'[i] = e
      BY <1>1, <2>4, <2>5, <3>1, Typed
    <3>2. CASE n + i \in 1..Len(msgs) /\ msgs'[i] = msgs[n + i]
      BY <2>4, <2>5, <3>2
    <3> QED
      BY <1>5, <3>1, <3>2
  <2> QED
    BY <1>2, <1>8, <2>2, <2>3, <2>4, <2>5 DEF OrderInv
<1>10. BindInv'
  <2> SUFFICES ASSUME video # "exited" PROVE BindInv'
    BY <1>2 DEF BindInv
  <2>1. ASSUME NEW c, NEW k \in n..Len(msgs), Bound(c, msgs, k, decoder, dropped)
        PROVE  Bound(c, msgs', k - n, decoder, dropped')
    <3>1. k \in Nat /\ n \in 0..k
      BY Typed
    <3>2. \A j \in 1..(k - n) : msgs'[j] = msgs[n + j]
      BY <1>5, Typed
    <3> QED
      BY <1>6, <1>7, <2>1, <3>1, <3>2, BoundMoves
  <2>2. Bound(connection, msgs', Len(msgs) - n, decoder, dropped')
    <3>1. Bound(connection, msgs, Len(msgs), decoder, dropped)
      BY <1>2 DEF Inv, BindInv
    <3>2. Len(msgs) \in n..Len(msgs)
      BY Typed
    <3> QED
      BY <2>1, <3>1, <3>2
  <2>3. Bound(connection, msgs', Len(msgs'), decoder, dropped')
    <3>1. 1..(Len(msgs) - n) \subseteq 1..Len(msgs')
      BY <1>5, Typed
    <3> QED
      BY <2>2, <3>1 DEF Bound
  <2>4. ASSUME NEW i \in 1..Len(msgs'), msgs'[i].kind = "packet"
        PROVE  Bound(msgs'[i].connection, msgs', i - 1, decoder, dropped')
    <3>1. CASE i = Len(msgs) + 1 - n /\ msgs'[i] = e
      <4>1. i - 1 = Len(msgs) - n
        BY <3>1, Typed
      <4> QED
        BY <1>1, <2>2, <3>1, <4>1
    <3>2. CASE i \in 1..(Len(msgs) - n) /\ n + i \in 1..Len(msgs) /\ msgs'[i] = msgs[n + i]
      <4>1. Bound(msgs[n + i].connection, msgs, (n + i) - 1, decoder, dropped)
        BY <2>4, <3>2 DEF Inv, BindInv
      <4>2. (n + i) - 1 \in n..Len(msgs) /\ ((n + i) - 1) - n = i - 1
        BY <3>2, Typed
      <4>3. Bound(msgs[n + i].connection, msgs', ((n + i) - 1) - n, decoder, dropped')
        BY <2>1, <4>1, <4>2
      <4> QED
        BY <3>2, <4>2, <4>3
    <3> QED
      BY <1>5, <3>1, <3>2
  <2>5. video = "decode" => packet.connection \in dropped' \/ decoder = packet.connection
    BY <1>6 DEF Inv, BindInv
  <2> QED
    BY <1>2, <2>3, <2>4, <2>5 DEF BindInv
<1>11. ClearInv'
  <2>1. asked < connection
    BY <1>2 DEF Inv, ClearInv
  <2>2. \A i \in 1..Len(msgs') : asked < msgs'[i].connection
    BY <1>1, <1>5, <2>1 DEF Inv, ClearInv
  <2> QED
    BY <1>2, <2>2 DEF Inv, ClearInv
<1>12. CleanInv'
  <2>1. \A c : Gated(c) => Gated(c)'
    BY <1>2, <1>6 DEF Gated
  <2>2. \A c \in drained : c <= connection
    BY DEF Inv, CleanInv
  <2>3. Gated(connection)'
    BY <1>2, <1>6 DEF Gated, Inv, CleanInv
  <2>4. ASSUME NEW i \in 1..Len(msgs'), msgs'[i].kind = "packet"
        PROVE  /\ \A c \in drained : c <= msgs'[i].connection
               /\ first_keyframe /\ msgs'[i].connection \in drained \ dropped' =>
                    msgs'[i].connection \in started
    <3>1. CASE msgs'[i] = e
      BY <1>1, <1>2, <2>2, <2>3, <3>1 DEF Gated
    <3>2. CASE n + i \in 1..Len(msgs) /\ msgs'[i] = msgs[n + i]
      BY <1>6, <2>4, <3>2 DEF Inv, CleanInv, Gated
    <3> QED
      BY <1>5, <3>1, <3>2
  <2>5. CleanStart'
    BY <1>2, <1>6 DEF Inv, CleanInv, CleanStart
  <2>6. video = "decode" =>
          /\ \A c \in drained : c <= packet.connection
          /\ first_keyframe /\ packet.connection \in drained \ dropped' =>
               packet.connection \in started
    BY <1>6 DEF Inv, CleanInv, Gated
  <2> QED
    BY <1>2, <2>2, <2>3, <2>4, <2>5, <2>6 DEF CleanInv, Gated
<1>13. FreshInv'
  BY <1>2 DEF Inv, FreshInv
<1> QED
  BY <1>9, <1>10, <1>11, <1>12, <1>13 DEF Inv

-----------------------------------------------------------------------------
(* Emptying the queue: a disconnect that clears, the receiver's exit, the  *)
(* end of the video thread.                                                *)

Drains ==
  /\ msgs' = << >>
  /\ receiver' \notin {"opened", "reading"}
  /\ asked' = asked \/ (receiver = "reading" /\ asked' = connection)
  /\ video' = "decode" <=> video = "decode"
  /\ video' = "exited" <=> video = "exited"
  /\ UNCHANGED <<connection, packet, decoder, first_keyframe, pacing, last_frame, picture,
                 cleared, dropped, started, drained>>

LEMMA DrainsKeeps ==
  ASSUME TypeOK, Inv, Drains
  PROVE  Inv'
<1> USE DEF Drains
<1>1. \A i : i \notin 1..Len(msgs')
  BY EmptySeq
<1>2. OrderInv'
  BY <1>1 DEF Inv, OrderInv
<1>3. BindInv'
  BY <1>1 DEF Inv, BindInv
<1>4. ClearInv'
  <2>1. cleared <= asked' /\ asked' <= connection
    BY Typed DEF Inv, ClearInv
  <2> QED
    BY <1>1, <2>1 DEF Inv, ClearInv
<1>5. CleanInv'
  BY <1>1 DEF Inv, CleanInv, Gated, CleanStart
<1>6. FreshInv'
  BY <1>1 DEF Inv, FreshInv
<1> QED
  BY <1>2, <1>3, <1>4, <1>5, <1>6 DEF Inv

LEMMA DisconnectKeeps ==
  ASSUME TypeOK, Inv, NEW clear \in ClearSettings, Disconnect(clear)
  PROVE  Inv'
<1> USE DEF Disconnect, rx, channel, output, history, receiver_step
<1>1. CASE clear
  <2>1. Drains
    BY <1>1 DEF Drains, Notify
  <2> QED
    BY <2>1, DrainsKeeps
<1>2. CASE ~clear
  <2>1. Quiet
    BY <1>2 DEF Quiet
  <2> QED
    BY <2>1, QuietKeeps
<1> QED
  BY <1>1, <1>2

LEMMA ExitKeeps ==
  ASSUME TypeOK, Inv, ReceiverExit
  PROVE  Inv'
<1>1. Drains
  BY DEF Drains, ReceiverExit, rx, channel, output, history, receiver_step
<1> QED
  BY <1>1, DrainsKeeps

LEMMA FinishKeeps ==
  ASSUME TypeOK, Inv, Finish
  PROVE  Inv'
<1>1. /\ msgs' = << >> /\ pacing' = << >> /\ decoder' = 0 /\ video' = "exited"
      /\ UNCHANGED <<receiver, connection, packet, first_keyframe, last_frame, picture,
                     asked, cleared, dropped, started, drained>>
  BY DEF Finish, rx, channel, output, history, video_step
<1>2. \A i : i \notin 1..Len(msgs') /\ i \notin 1..Len(pacing')
  BY <1>1, EmptySeq
<1>3. OrderInv'
  BY <1>1, <1>2, Typed DEF OrderInv
<1>4. BindInv'
  BY <1>1 DEF BindInv
<1>5. ClearInv'
  BY <1>1, <1>2 DEF Inv, ClearInv
<1>6. CleanInv'
  BY <1>1, <1>2 DEF Inv, CleanInv, Gated, CleanStart
<1>7. FreshInv'
  BY <1>1, <1>2 DEF Inv, FreshInv
<1> QED
  BY <1>3, <1>4, <1>5, <1>6, <1>7 DEF Inv

-----------------------------------------------------------------------------
(* Taking the first message: its decoder is adopted, or it is a packet,    *)
(* popped to be decoded or discarded.                                      *)

Takes ==
  /\ msgs # << >> /\ msgs' = Tail(msgs)
  /\ video \notin {"decode", "exited"} /\ video' # "exited"
  /\ UNCHANGED <<receiver, connection, has_video, first_keyframe, pacing, last_frame, picture,
                 asked, cleared, dropped, started, drained>>

TakesDecoder ==
  /\ msgs[1].kind = "decoder"
  /\ decoder' = msgs[1].connection
  /\ video' # "decode"

TakesPacket ==
  /\ msgs[1].kind = "packet"
  /\ decoder' = decoder
  /\ video' = "decode" => packet' = msgs[1]

LEMMA TakesKeeps ==
  ASSUME TypeOK, Inv, Takes, TakesDecoder \/ TakesPacket
  PROVE  Inv'
<1>1. /\ Len(msgs) >= 1 /\ Len(msgs') = Len(msgs) - 1
      /\ \A i \in 1..(Len(msgs) - 1) : msgs'[i] = msgs[i + 1]
  BY Behead, Typed DEF Takes
<1>2. \A i \in 1..Len(msgs') :
        i + 1 \in 1..Len(msgs) /\ 1 <= i + 1 /\ msgs'[i] = msgs[i + 1]
  BY SMTT(30), <1>1, Typed
<1>3. 1 \in 1..Len(msgs)
  BY <1>1, Typed
<1>4. /\ video # "decode" /\ video # "exited" /\ video' # "exited"
      /\ UNCHANGED <<receiver, connection, has_video, first_keyframe, pacing, last_frame, picture,
                     asked, cleared, dropped, started, drained>>
  BY DEF Takes
<1>5. \A i \in 1..Len(msgs) :
        /\ msgs[i].connection \in 1..connection
        /\ decoder <= msgs[i].connection
        /\ msgs[1].connection <= msgs[i].connection
  BY <1>3, Typed DEF Inv, OrderInv
<1>6. \/ decoder' = decoder
      \/ decoder' = msgs[1].connection
  BY DEF TakesDecoder, TakesPacket
<1>7. video' = "decode" => packet' = msgs[1] /\ decoder' = decoder /\ msgs[1].kind = "packet"
  BY DEF TakesDecoder, TakesPacket
<1>8. OrderInv'
  <2>1. decoder' <= connection
    BY <1>3, <1>5, <1>6, Typed DEF Inv, OrderInv
  <2>2. \A i \in 1..Len(msgs') : msgs'[i].connection \in 1..connection /\ decoder' <= msgs'[i].connection
    BY <1>2, <1>5, <1>6
  <2>3. ASSUME NEW i \in 1..Len(msgs'), NEW j \in 1..Len(msgs'), i <= j
        PROVE  msgs'[i].connection <= msgs'[j].connection
    <3>1. i + 1 <= j + 1
      BY <2>3, <1>1, Typed
    <3> QED
      BY <1>2, <3>1 DEF Inv, OrderInv
  <2>4. video' = "decode" =>
          /\ packet'.connection \in 1..connection
          /\ decoder' <= packet'.connection
    BY <1>3, <1>5, <1>7
  <2>5. video' = "decode" => \A i \in 1..Len(msgs') : packet'.connection <= msgs'[i].connection
    BY <1>2, <1>5, <1>7
  <2> QED
    BY <1>4, <2>1, <2>2, <2>3, <2>4, <2>5 DEF OrderInv
<1>9. BindInv'
  <2>1. ASSUME NEW n \in 1..Len(msgs), NEW c \in Nat, Bound(c, msgs, n, decoder, dropped),
               decoder <= c, msgs[1].connection <= c
        PROVE  Bound(c, msgs', n - 1, decoder', dropped)
    <3>1. \A j \in 1..(n - 1) : j \in 1..(Len(msgs) - 1)
      BY Typed
    <3>2. \A j \in 1..(n - 1) : msgs'[j] = msgs[1 + j]
      BY <1>1, <3>1, Typed
    <3>3. CASE TakesPacket
      <4>1. \A j \in 1..1 : msgs[j].kind = "decoder" => msgs[j].connection \in dropped
        BY <3>3 DEF TakesPacket
      <4>2. n \in Nat /\ 1 \in 0..n
        BY Typed
      <4>3. Bound(c, msgs', n - 1, decoder, dropped)
        BY <2>1, <3>2, <4>1, <4>2, BoundMoves
      <4> QED
        BY <3>3, <4>3 DEF TakesPacket
    <3>4. CASE TakesDecoder
      <4>1. decoder' = msgs[1].connection
        BY <3>4 DEF TakesDecoder
      <4>2. CASE c \in dropped
        BY <4>2 DEF Bound
      <4>3. CASE decoder = c
        <5>1. decoder <= msgs[1].connection
          BY <1>3, <1>5
        <5>2. decoder' = c
          BY <1>3, <2>1, <4>1, <4>3, <5>1, Typed
        <5> QED
          BY <5>2 DEF Bound
      <4>4. ASSUME NEW j \in 1..n, msgs[j].kind = "decoder", msgs[j].connection = c
            PROVE  Bound(c, msgs', n - 1, decoder', dropped)
        <5>1. CASE j = 1
          BY <4>1, <4>4, <5>1 DEF Bound
        <5>2. CASE j # 1
          <6>1. j - 1 \in 1..(n - 1) /\ 1 + (j - 1) = j
            BY <5>2, Typed
          <6>2. msgs'[j - 1] = msgs[j]
            BY <3>2, <6>1
          <6> QED
            BY <4>4, <6>1, <6>2 DEF Bound
        <5> QED
          BY <5>1, <5>2
      <4> QED
        BY <2>1, <4>2, <4>3, <4>4 DEF Bound
    <3> QED
      BY <3>3, <3>4
  <2>2. ASSUME NEW i \in 1..Len(msgs'), msgs'[i].kind = "packet"
        PROVE  Bound(msgs'[i].connection, msgs', i - 1, decoder', dropped)
    <3>1. i + 1 \in 1..Len(msgs) /\ msgs'[i] = msgs[i + 1]
      BY <1>2
    <3>2. Bound(msgs[i + 1].connection, msgs, (i + 1) - 1, decoder, dropped)
      BY <1>4, <2>2, <3>1 DEF Inv, BindInv
    <3>3. (i + 1) - 1 = i /\ i \in 1..Len(msgs)
      BY <1>1, Typed
    <3>4. msgs[i + 1].connection \in Nat
      BY <3>1, Typed
    <3>5. Bound(msgs[i + 1].connection, msgs, i, decoder, dropped)
      BY <3>2, <3>3
    <3> QED
      BY <1>5, <2>1, <3>1, <3>3, <3>4, <3>5
  <2>3. receiver \in {"opened", "reading"} /\ has_video =>
          Bound(connection, msgs', Len(msgs'), decoder', dropped)
    <3> SUFFICES ASSUME receiver \in {"opened", "reading"}, has_video
                 PROVE  Bound(connection, msgs', Len(msgs'), decoder', dropped)
      OBVIOUS
    <3>1. Bound(connection, msgs, Len(msgs), decoder, dropped)
      BY <1>4 DEF Inv, BindInv
    <3>2. decoder <= connection /\ msgs[1].connection <= connection
      BY <1>3, <1>5, Typed DEF Inv, OrderInv
    <3>3. Len(msgs) \in 1..Len(msgs) /\ connection \in Nat
      BY <1>1, Typed
    <3>4. Bound(connection, msgs', Len(msgs) - 1, decoder', dropped)
      BY <2>1, <3>1, <3>2, <3>3
    <3> QED
      BY <1>1, <3>4
  <2>4. video' = "decode" => packet'.connection \in dropped \/ decoder' = packet'.connection
    <3>1. msgs[1].kind = "packet" => Bound(msgs[1].connection, msgs, 1 - 1, decoder, dropped)
      BY <1>3, <1>4 DEF Inv, BindInv
    <3>2. \A j \in 1..(1 - 1) : FALSE
      OBVIOUS
    <3> QED
      BY <1>7, <3>1, <3>2 DEF Bound
  <2> QED
    BY <1>4, <2>2, <2>3, <2>4 DEF BindInv
<1>10. ClearInv'
  <2>1. \A i \in 1..Len(msgs') : asked < msgs'[i].connection
    BY <1>2 DEF Inv, ClearInv
  <2>2. video' = "decode" => cleared < packet'.connection
    BY <1>3, <1>7, Typed DEF Inv, ClearInv
  <2> QED
    BY <1>4, <2>1, <2>2 DEF Inv, ClearInv
<1>11. CleanInv'
  <2>2. \A i \in 1..Len(msgs') : msgs'[i].kind = "packet" =>
          /\ \A c \in drained : c <= msgs'[i].connection
          /\ first_keyframe /\ msgs'[i].connection \in drained \ dropped =>
               msgs'[i].connection \in started
    BY <1>2, <1>4 DEF Inv, CleanInv, Gated
  <2>3. video' = "decode" =>
          /\ \A c \in drained : c <= packet'.connection
          /\ first_keyframe /\ packet'.connection \in drained \ dropped => packet'.connection \in started
    BY <1>3, <1>7 DEF Inv, CleanInv, Gated
  <2>4. CleanStart'
    BY <1>4 DEF Inv, CleanInv, CleanStart
  <2> QED
    BY <1>4, <2>2, <2>3, <2>4 DEF Inv, CleanInv, Gated
<1>12. FreshInv'
  <2>1. receiver = "opened" =>
          \A i \in 1..Len(msgs') : msgs'[i].kind = "packet" => msgs'[i].connection < connection
    BY <1>2 DEF Inv, FreshInv
  <2>2. receiver = "opened" /\ video' = "decode" => packet'.connection < connection
    BY <1>3, <1>7 DEF Inv, FreshInv
  <2> QED
    BY <1>4, <2>1, <2>2 DEF Inv, FreshInv
<1> QED
  BY <1>8, <1>9, <1>10, <1>11, <1>12 DEF Inv

LEMMA AdoptKeeps ==
  ASSUME TypeOK, Inv, AdoptDecoder
  PROVE  Inv'
<1> USE DEF AdoptDecoder, rx, channel, output, history, video_step
<1>1. CASE msgs = << >>
  <2>1. Quiet
    BY <1>1 DEF Quiet
  <2> QED
    BY <2>1, QuietKeeps
<1>2. CASE msgs # << >>
  <2>1. msgs[1].kind \in {"packet", "decoder"}
    BY <1>2, Behead, MsgFields, Typed
  <2>2. Takes
    BY <1>2 DEF Takes
  <2>3. TakesDecoder \/ TakesPacket
    BY <1>2, <2>1 DEF TakesDecoder, TakesPacket
  <2> QED
    BY <2>2, <2>3, TakesKeeps
<1> QED
  BY <1>1, <1>2

LEMMA PopKeeps ==
  ASSUME TypeOK, Inv, PopMessage
  PROVE  Inv'
<1> USE DEF PopMessage, rx, channel, output, history, video_step
<1>1. Takes
  BY DEF Takes
<1>2. TakesDecoder \/ TakesPacket
  BY DEF TakesDecoder, TakesPacket
<1> QED
  BY <1>1, <1>2, TakesKeeps

-----------------------------------------------------------------------------
(* The clear, decoding, and output.                                        *)

LEMMA ClearKeeps ==
  ASSUME TypeOK, Inv, TakeClear
  PROVE  Inv'
<1>1. /\ video = "top" /\ pacing' = << >> /\ last_frame' = None /\ picture' = None
      /\ cleared' = asked
      /\ UNCHANGED <<receiver, connection, has_video, msgs, video, packet, decoder, first_keyframe,
                     asked, dropped, started, drained>>
  BY DEF TakeClear, rx, channel, output, history, video_step
<1>2. \A i : i \notin 1..Len(pacing')
  BY <1>1, EmptySeq
<1>3. OrderInv'
  BY <1>1 DEF Inv, OrderInv
<1>4. BindInv'
  BY <1>1 DEF Inv, BindInv
<1>5. ClearInv'
  BY <1>1, <1>2, Typed DEF Inv, ClearInv
<1>6. CleanInv'
  BY <1>1, <1>2 DEF Inv, CleanInv, Gated, CleanStart
<1>7. FreshInv'
  BY <1>1, <1>2 DEF Inv, FreshInv
<1> QED
  BY <1>3, <1>4, <1>5, <1>6, <1>7 DEF Inv

LEMMA DecodeKeeps ==
  ASSUME TypeOK, Inv, Decode
  PROVE  Inv'
<1>1. /\ video = "decode" /\ video' = "intake"
      /\ UNCHANGED <<receiver, connection, has_video, msgs, packet, decoder, last_frame, picture,
                     asked, cleared, dropped, drained>>
  BY DEF Decode, rx, channel, output, history, video_step
<1>2. OrderInv'
  BY <1>1 DEF Inv, OrderInv
<1>3. BindInv'
  BY <1>1 DEF Inv, BindInv
<1>4. CASE UNCHANGED <<first_keyframe, pacing, started>>
  <2>1. ClearInv'
    BY <1>1, <1>4 DEF Inv, ClearInv
  <2>2. CleanInv'
    BY <1>1, <1>4 DEF Inv, CleanInv, Gated, CleanStart
  <2>3. FreshInv'
    BY <1>1, <1>4 DEF Inv, FreshInv
  <2> QED
    BY <1>2, <1>3, <2>1, <2>2, <2>3 DEF Inv
<1>5. CASE ~UNCHANGED <<first_keyframe, pacing, started>>
  <2> DEFINE f == [connection |-> packet.connection, clean |-> packet.connection \in started']
  <2>1. /\ packet.key \/ first_keyframe
        /\ started' = IF packet.key /\ decoder = packet.connection
                      THEN started \cup {decoder} ELSE started
        /\ pacing' = Append(pacing, f)
    BY <1>5 DEF Decode
  <2>2. packet.connection \in 1..connection
    BY <1>1 DEF Inv, OrderInv
  <2>3. f \in Frame
    <3>1. packet.connection \in Connections
      BY <2>2, Typed DEF Connections
    <3> QED
      BY <3>1 DEF Frame
  <2>4. f.connection = packet.connection /\ f.clean = (packet.connection \in started')
    OBVIOUS
  <2> HIDE DEF f
  <2>5. \A i \in 1..Len(pacing') :
          \/ i \in 1..Len(pacing) /\ pacing'[i] = pacing[i]
          \/ pacing'[i] = f
    <3>1. /\ Len(pacing') = Len(pacing) + 1
          /\ \A i \in 1..Len(pacing) : pacing'[i] = pacing[i]
          /\ pacing'[Len(pacing) + 1] = f
      BY <2>1, <2>3, Typed, Added
    <3> QED
      BY <3>1, Typed
  <2>6. ClearInv'
    <3>1. cleared < packet.connection
      BY <1>1 DEF Inv, ClearInv
    <3>2. \A i \in 1..Len(pacing') : cleared < pacing'[i].connection
      BY <2>4, <2>5, <3>1 DEF Inv, ClearInv
    <3> QED
      BY <1>1, <3>2 DEF Inv, ClearInv
  <2>7. started \subseteq started'
    BY <2>1
  (* A connection with nothing older under way, and no earlier than the    *)
  (* packet's, is the packet's; and its gate or its key packet started it. *)
  <2>8. ASSUME NEW c \in drained \ dropped, packet.connection <= c, c \in Nat,
               first_keyframe => c \in started
        PROVE  c \in started'
    <3>1. CASE first_keyframe
      BY <2>7, <2>8, <3>1
    <3>2. CASE packet.key
      <4>1. c <= packet.connection
        BY <1>1 DEF Inv, CleanInv
      <4>2. c = packet.connection
        BY <2>8, <4>1, Typed
      <4>3. decoder = c
        BY <1>1, <4>2 DEF Inv, BindInv
      <4> QED
        BY <2>1, <3>2, <4>2, <4>3
    <3> QED
      BY <2>1, <3>1, <3>2
  <2>9. CleanInv'
    <3>1. \A i \in 1..Len(msgs) : msgs[i].kind = "packet" =>
            (msgs[i].connection \in drained \ dropped => msgs[i].connection \in started')
      <4> SUFFICES ASSUME NEW i \in 1..Len(msgs), msgs[i].kind = "packet",
                          msgs[i].connection \in drained \ dropped
                   PROVE  msgs[i].connection \in started'
        OBVIOUS
      <4>1. packet.connection <= msgs[i].connection
        BY <1>1 DEF Inv, OrderInv
      <4>2. first_keyframe => msgs[i].connection \in started
        BY DEF Inv, CleanInv, Gated
      <4> QED
        BY <2>8, <4>1, <4>2, Typed
    <3>2. receiver = "reading" /\ connection \in drained \ dropped => connection \in started'
      <4> SUFFICES ASSUME receiver = "reading", connection \in drained \ dropped
                   PROVE  connection \in started'
        OBVIOUS
      <4>1. packet.connection <= connection
        BY <2>2, Typed
      <4>2. first_keyframe => connection \in started
        BY DEF Inv, CleanInv, Gated
      <4> QED
        BY <2>8, <4>1, <4>2, Typed
    <3>3. packet.connection \in drained \ dropped => packet.connection \in started'
      <4> SUFFICES ASSUME packet.connection \in drained \ dropped
                   PROVE  packet.connection \in started'
        OBVIOUS
      <4>1. first_keyframe => packet.connection \in started
        BY <1>1 DEF Inv, CleanInv, Gated
      <4> QED
        BY <2>8, <4>1, Typed
    <3>4. CleanStart'
      BY <1>1, <2>4, <2>5, <3>3 DEF Inv, CleanInv, CleanStart
    <3> QED
      BY <1>1, <3>1, <3>2, <3>4 DEF Inv, CleanInv, Gated
  <2>10. FreshInv'
    <3>1. packet.connection <= connection
      BY <2>2, Typed
    <3>2. receiver = "opened" => packet.connection < connection
      BY <1>1 DEF Inv, FreshInv
    <3> QED
      BY <1>1, <2>4, <2>5, <3>1, <3>2 DEF Inv, FreshInv
  <2> QED
    BY <1>2, <1>3, <2>6, <2>9, <2>10 DEF Inv
<1> QED
  BY <1>4, <1>5

LEMMA OutputKeeps ==
  ASSUME TypeOK, Inv, EmitDue \/ RepeatLast
  PROVE  Inv'
<1>1. /\ video # "decode" /\ video' # "decode" /\ video # "exited" /\ video' # "exited"
      /\ UNCHANGED <<receiver, connection, has_video, msgs, packet, decoder, first_keyframe,
                     asked, cleared, dropped, started, drained>>
  BY DEF EmitDue, RepeatLast, rx, channel, history, video_step
<1>2. OrderInv'
  BY <1>1 DEF Inv, OrderInv
<1>3. BindInv'
  BY <1>1 DEF Inv, BindInv
<1>4. CASE UNCHANGED output
  <2>1. UNCHANGED <<pacing, last_frame, picture>>
    BY <1>4 DEF output
  <2>2. ClearInv'
    BY <1>1, <2>1 DEF Inv, ClearInv
  <2>3. CleanInv'
    BY <1>1, <2>1 DEF Inv, CleanInv, Gated, CleanStart
  <2>4. FreshInv'
    BY <1>1, <2>1 DEF Inv, FreshInv
  <2> QED
    BY <1>2, <1>3, <2>2, <2>3, <2>4 DEF Inv
<1>5. ASSUME NEW n \in 1..Len(pacing),
             pacing' = From(pacing, n),
             last_frame' = pacing[n].connection,
             picture' \in {picture} \cup {pacing[i].connection : i \in 1..n}
      PROVE  Inv'
  <2>1. n \in 0..Len(pacing) /\ \A i \in 1..n : i \in 1..Len(pacing)
    BY Typed
  <2>2. /\ Len(pacing') = Len(pacing) - n
        /\ \A i \in 1..(Len(pacing) - n) : pacing'[i] = pacing[n + i]
    BY <1>5, <2>1, Rest, Typed
  <2>3. \A i \in 1..Len(pacing') : n + i \in 1..Len(pacing) /\ pacing'[i] = pacing[n + i]
    BY <2>2, Typed
  <2>4. ClearInv'
    <3>1. \A i \in 1..Len(pacing) : cleared < pacing[i].connection
      BY DEF Inv, ClearInv
    <3>2. cleared < last_frame'
      BY <1>5, <3>1
    <3>3. picture' # None => cleared < picture'
      BY <1>5, <2>1, <3>1 DEF Inv, ClearInv
    <3>4. \A i \in 1..Len(pacing') : cleared < pacing'[i].connection
      BY <2>3, <3>1
    <3> QED
      BY <1>1, <3>2, <3>3, <3>4 DEF Inv, ClearInv
  <2>5. CleanInv'
    <3>1. CleanStart'
      BY <1>1, <2>3 DEF Inv, CleanInv, CleanStart
    <3> QED
      BY <1>1, <3>1 DEF Inv, CleanInv, Gated
  <2>6. FreshInv'
    BY <1>1, <2>3 DEF Inv, FreshInv
  <2> QED
    BY <1>2, <1>3, <2>4, <2>5, <2>6 DEF Inv
<1>6. CASE RepeatLast /\ last_frame # None /\ picture' = last_frame
  <2>1. UNCHANGED <<pacing, last_frame>> /\ last_frame # None /\ picture' = last_frame
    BY <1>6 DEF RepeatLast
  <2>2. ClearInv'
    BY <1>1, <2>1 DEF Inv, ClearInv
  <2>3. CleanInv'
    BY <1>1, <2>1 DEF Inv, CleanInv, Gated, CleanStart
  <2>4. FreshInv'
    BY <1>1, <2>1 DEF Inv, FreshInv
  <2> QED
    BY <1>2, <1>3, <2>2, <2>3, <2>4 DEF Inv
<1>7. CASE RepeatLast
  BY <1>4, <1>6, <1>7 DEF RepeatLast, output
<1>8. CASE EmitDue
  BY <1>4, <1>5, <1>8 DEF EmitDue
<1> QED
  BY <1>7, <1>8

-----------------------------------------------------------------------------
(* The invariant and the theorems.                                         *)

LEMMA InitInv == Init => Inv
<1> SUFFICES ASSUME Init PROVE Inv
  OBVIOUS
<1>1. /\ receiver = "closed" /\ connection = 0 /\ video = "top" /\ decoder = 0
      /\ first_keyframe = FALSE /\ last_frame = None /\ picture = None
      /\ asked = 0 /\ cleared = 0 /\ drained = {} /\ msgs = << >> /\ pacing = << >>
  BY DEF Init
<1>2. \A i : i \notin 1..Len(msgs) /\ i \notin 1..Len(pacing)
  BY <1>1, EmptySeq
<1>3. OrderInv
  BY <1>1, <1>2 DEF OrderInv
<1>4. BindInv
  BY <1>1, <1>2 DEF BindInv
<1>5. ClearInv
  BY <1>1, <1>2 DEF ClearInv
<1>6. CleanInv
  BY <1>1, <1>2 DEF CleanInv, Gated, CleanStart
<1>7. FreshInv
  BY <1>1, <1>2 DEF FreshInv
<1> QED
  BY <1>3, <1>4, <1>5, <1>6, <1>7 DEF Inv

LEMMA NextInv ==
  ASSUME TypeOK, Inv, Next
  PROVE  Inv'
<1>1. CASE ReceiverNext
  <2>1. CASE Attempt \/ OpenFails \/ Reprobe
    BY <2>1, QuietSteps, QuietKeeps
  <2>2. CASE Open
    BY <2>2, OpenKeeps
  <2>3. CASE PrepareNewConnection
    BY <2>3, PrepareKeeps
  <2>4. CASE \E key \in BOOLEAN : PushPacket(key)
    BY <2>4, PushKeeps
  <2>5. CASE \E clear \in ClearSettings : Disconnect(clear)
    BY <2>5, DisconnectKeeps
  <2>6. CASE ReceiverExit
    BY <2>6, ExitKeeps
  <2> QED
    BY <1>1, <2>1, <2>2, <2>3, <2>4, <2>5, <2>6 DEF ReceiverNext
<1>2. CASE VideoNext
  <2>1. CASE NothingToClear \/ LookForDecoder \/ IntakeEnds \/ Wait \/ FallAsleep \/ Timeout
    BY <2>1, QuietSteps, QuietKeeps
  <2>2. CASE Finish
    BY <2>2, FinishKeeps
  <2>3. CASE TakeClear
    BY <2>3, ClearKeeps
  <2>4. CASE AdoptDecoder
    BY <2>4, AdoptKeeps
  <2>5. CASE PopMessage
    BY <2>5, PopKeeps
  <2>6. CASE Decode
    BY <2>6, DecodeKeeps
  <2>7. CASE EmitDue \/ RepeatLast
    BY <2>7, OutputKeeps
  <2> QED
    BY <1>2, <2>1, <2>2, <2>3, <2>4, <2>5, <2>6, <2>7 DEF VideoNext
<1>3. CASE Stop \/ WakeAll
  BY <1>3, QuietSteps, QuietKeeps
<1> QED
  BY <1>1, <1>2, <1>3 DEF Next

(* The inductive invariant: the order of the queue, whose decoder is bound *)
(* to which packets, what came after the last clear, and what keeps the    *)
(* keyframe gate shut.                                                     *)
THEOREM InvariantHolds == Spec => [](TypeOK /\ Inv)
<1>1. Init => TypeOK /\ Inv
  BY InitTyped, InitInv
<1>2. TypeOK /\ Inv /\ [Next]_vars => (TypeOK /\ Inv)'
  <2> SUFFICES ASSUME TypeOK, Inv, [Next]_vars PROVE (TypeOK /\ Inv)'
    OBVIOUS
  <2>1. CASE Next
    <3>1. TypeOK'
      BY <2>1, NextTyped DEF Inv
    <3> QED
      BY <2>1, <3>1, NextInv
  <2>2. CASE UNCHANGED vars
    <3>1. TypeOK'
      BY <2>2 DEF vars, rx, channel, output, history, TypeOK
    <3> QED
      BY <2>2, <3>1, QuietSteps, QuietKeeps
  <2> QED
    BY <2>1, <2>2
<1> QED
  BY <1>1, <1>2, PTL DEF Spec

(* Every variable keeps its type.                                          *)
THEOREM TypeCorrect == Spec => []TypeOK
  BY InvariantHolds, PTL

(* The order of the queue binds a decoder to its packets, for a queue of   *)
(* any size, however it overflows.                                         *)
THEOREM DecoderIsBound == Spec => []PacketsMeetTheirDecoder
<1>1. TypeOK /\ Inv => PacketsMeetTheirDecoder
  BY DEF Inv, OrderInv, BindInv, PacketsMeetTheirDecoder
<1> QED
  BY <1>1, InvariantHolds, PTL

(* What a disconnect blanked stays off the screen.                         *)
THEOREM ClearHolds == Spec => []ClearIsFinal
<1>1. TypeOK /\ Inv => ClearIsFinal
  BY Typed DEF Inv, ClearInv, ClearIsFinal
<1> QED
  BY <1>1, InvariantHolds, PTL

(* A connection that begins with nothing older under way starts at a key   *)
(* frame.                                                                  *)
THEOREM StartsClean == Spec => []CleanStart
<1>1. TypeOK /\ Inv => CleanStart
  BY DEF Inv, CleanInv
<1> QED
  BY <1>1, InvariantHolds, PTL

(* Whoever gives the video thread work wakes it, and nobody enters the     *)
(* queue between its last look and its sleep.                              *)
LEMMA Woken ==
  ASSUME Unlocked, Notify
  PROVE  video' \notin {"falling", "asleep"}
  BY DEF Unlocked, Notify

LEMMA ReceiverWakes ==
  ASSUME NoSleepThroughWork, ReceiverNext
  PROVE  NoSleepThroughWork'
<1> USE DEF rx, channel, output, history, receiver_step, NoSleepThroughWork, has_work, has_room
<1>1. CASE Attempt \/ OpenFails \/ Reprobe \/ PrepareNewConnection
  BY <1>1 DEF Attempt, OpenFails, Reprobe, PrepareNewConnection
<1>2. CASE Open
  <2>1. CASE UNCHANGED <<msgs, video>>
    BY <1>2, <2>1 DEF Open
  <2>2. CASE Notify
    BY <1>2, <2>2, Woken DEF Open
  <2> QED
    BY <1>2, <2>1, <2>2 DEF Open
<1>3. ASSUME NEW key \in BOOLEAN, PushPacket(key)
      PROVE  NoSleepThroughWork'
  BY <1>3, Woken DEF PushPacket
<1>4. ASSUME NEW clear \in ClearSettings, Disconnect(clear)
      PROVE  NoSleepThroughWork'
  <2>1. CASE clear
    BY <1>4, <2>1, Woken DEF Disconnect
  <2>2. CASE ~clear
    BY <1>4, <2>2 DEF Disconnect
  <2> QED
    BY <2>1, <2>2
<1>5. CASE ReceiverExit
  BY <1>5 DEF ReceiverExit
<1> QED
  BY <1>1, <1>2, <1>3, <1>4, <1>5 DEF ReceiverNext

LEMMA VideoLooks ==
  ASSUME NoSleepThroughWork, VideoNext
  PROVE  NoSleepThroughWork'
<1> USE DEF NoSleepThroughWork
<1>1. CASE Wait \/ FallAsleep
  BY <1>1 DEF Wait, FallAsleep, rx, channel, output, history, video_step, has_work, has_room
<1>2. CASE Finish \/ TakeClear \/ NothingToClear \/ LookForDecoder
  BY <1>2 DEF Finish, TakeClear, NothingToClear, LookForDecoder
<1>3. CASE AdoptDecoder \/ PopMessage \/ IntakeEnds \/ Decode
  BY <1>3 DEF AdoptDecoder, PopMessage, IntakeEnds, Decode
<1>4. CASE EmitDue \/ RepeatLast \/ Timeout
  BY <1>4 DEF EmitDue, RepeatLast, Timeout
<1> QED
  BY <1>1, <1>2, <1>3, <1>4 DEF VideoNext

(* The video thread never sleeps while there is something for it to do.    *)
THEOREM SleepsOnlyIdle == Spec => []NoSleepThroughWork
<1>1. Init => NoSleepThroughWork
  BY DEF Init, NoSleepThroughWork
<1>2. NoSleepThroughWork /\ [Next]_vars => NoSleepThroughWork'
  <2> SUFFICES ASSUME NoSleepThroughWork, [Next]_vars PROVE NoSleepThroughWork'
    OBVIOUS
  <2>1. CASE ReceiverNext
    BY <2>1, ReceiverWakes
  <2>2. CASE VideoNext
    BY <2>2, VideoLooks
  <2>3. CASE Stop \/ WakeAll
    BY <2>3 DEF Stop, WakeAll, Notify, others, rx, channel, output, history,
                NoSleepThroughWork, has_work, has_room
  <2>4. CASE UNCHANGED vars
    BY <2>4 DEF vars, rx, channel, output, history, NoSleepThroughWork, has_work, has_room
  <2> QED
    BY <2>1, <2>2, <2>3, <2>4 DEF Next
<1> QED
  BY <1>1, <1>2, PTL DEF Spec
=============================================================================
