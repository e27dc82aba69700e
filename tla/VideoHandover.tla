---------------------------- MODULE VideoHandover ----------------------------
(***************************************************************************)
(* How video passes from the receiver thread to the video thread of one    *)
(* run: the queue between them (VideoChannel, irl-source/src/shared.rs),   *)
(* the receiver that opens connections and pushes what it reads            *)
(* (receiver/stream.rs, receiver/decode.rs), and the video thread's loop   *)
(* (video/thread.rs), which owns the decoder, paces what it decodes and    *)
(* hands frames to OBS.                                                    *)
(*                                                                         *)
(* A connection is one successful open attempt; connections are numbered.  *)
(* A packet is its connection and whether it is a key packet, and the      *)
(* frame it decodes into is the same pair.  Wait For Keyframe is on.       *)
(* Times are left out: a paced frame may come due at any moment.           *)
(*                                                                         *)
(* The queue's mutex is held across one action.  The video thread also     *)
(* holds it from its last look at the queue to the moment it sleeps        *)
(* (pc "falling"), and nothing else enters the queue meanwhile.            *)
(***************************************************************************)
EXTENDS Integers, Sequences

CONSTANTS
  Capacity,       (* packets the queue holds at most: its byte bound      *)
  Lead,           (* frames the pacing queue decodes ahead                *)
  ClearSettings,  (* what Clear On Disconnect may read at a disconnect    *)
  MaxConnections, (* BOUND: open attempts that get a stream               *)
  MaxPackets      (* BOUND: packets read from one connection              *)

ASSUME BoundsAssumption ==
  /\ Capacity \in Nat \ {0} /\ Lead \in Nat \ {0}
  /\ MaxConnections \in Nat /\ MaxPackets \in Nat
ASSUME ClearSettingsAssumption == ClearSettings \subseteq BOOLEAN

None == 0  (* no connection: no decoder, no frame, a blank screen *)

VARIABLES
  stop,           (* "no"; "flagged": thread_active is false; "woken": wake_all was called *)
  receiver,       (* what the receiver thread does next                   *)
  connection,     (* the newest connection                                *)
  has_video,      (* whether the receiver found a video stream in it      *)
  reads,          (* packets read from it (bounds the model)              *)
  msgs,           (* VideoQueue::msgs                                     *)
  clear_pending,  (* VideoQueue::clear_pending                            *)
  video,          (* what the video thread does next                      *)
  packet,         (* the packet it popped and is decoding                 *)
  decoder,        (* the connection whose decoder it owns                 *)
  first_keyframe, (* VideoFlags::first_keyframe                           *)
  pacing,         (* the paced frames                                     *)
  last_frame,     (* the connection of the frame it repeats when none is due *)
  picture,        (* the connection whose frame OBS shows                 *)
  asked,          (* history: the connection whose disconnect asked for the last clear *)
  cleared,        (* history: the one whose clear was carried out last    *)
  dropped,        (* history: connections whose decoder an overflow dropped *)
  started,        (* history: connections a key packet has been decoded for *)
  drained         (* history: connections that began with no older packet under way *)

rx      == <<receiver, connection, has_video, reads>>
channel == <<msgs, clear_pending>>
output  == <<pacing, last_frame, picture>>
history == <<asked, cleared, dropped, started, drained>>
vars == <<stop, rx, channel, video, packet, decoder, first_keyframe, output, history>>

Connections == 1..MaxConnections
Msg   == [kind : {"packet", "decoder"}, connection : 0..MaxConnections, key : BOOLEAN]
Frame == [connection : Connections, clean : BOOLEAN]

Packet(c, key) == [kind |-> "packet", connection |-> c, key |-> key]
Decoder(c)     == [kind |-> "decoder", connection |-> c, key |-> FALSE]

TypeOK ==
  /\ stop \in {"no", "flagged", "woken"}
  /\ receiver \in {"closed", "opening", "opened", "reading", "exited"}
  /\ connection \in 0..MaxConnections
  /\ has_video \in BOOLEAN
  /\ reads \in 0..MaxPackets
  /\ msgs \in Seq(Msg)
  /\ clear_pending \in BOOLEAN
  /\ video \in {"top", "look", "adopt", "intake", "decode", "emit", "repeat",
                "wait", "falling", "asleep", "exited"}
  /\ packet \in Msg /\ (video = "decode" => packet.kind = "packet")
  /\ decoder \in 0..MaxConnections
  /\ first_keyframe \in BOOLEAN
  /\ pacing \in Seq(Frame)
  /\ last_frame \in 0..MaxConnections
  /\ picture \in 0..MaxConnections
  /\ asked \in 0..MaxConnections
  /\ cleared \in 0..MaxConnections
  /\ dropped \subseteq Connections
  /\ started \subseteq Connections
  /\ drained \subseteq Connections

Init ==
  /\ stop = "no"
  /\ receiver = "closed" /\ connection = 0 /\ has_video = FALSE /\ reads = 0
  /\ msgs = << >> /\ clear_pending = FALSE
  /\ video = "top" /\ packet = Packet(None, FALSE) /\ decoder = None
  /\ first_keyframe = FALSE
  /\ pacing = << >> /\ last_frame = None /\ picture = None
  /\ asked = 0 /\ cleared = 0
  /\ dropped = {} /\ started = {} /\ drained = {}

-----------------------------------------------------------------------------
(* The queue.                                                              *)

active == stop = "no"

Unlocked == video # "falling"

(* notify_one, notify_all: a sleeper goes round its loop again.            *)
Notify == video' = IF video = "asleep" THEN "top" ELSE video

has_room == Len(pacing) < Lead

has_work == clear_pending \/ (has_room /\ msgs # << >>)

From(s, n) == SubSeq(s, n + 1, Len(s))

Fits(s) == Len(SelectSeq(s, LAMBDA m : m.kind = "packet")) <= Capacity

-----------------------------------------------------------------------------
(* The receiver thread.                                                    *)

receiver_step == UNCHANGED <<stop, packet, decoder, output, cleared, started>>

Attempt ==
  /\ receiver = "closed" /\ active
  /\ receiver' = "opening"
  /\ receiver_step
  /\ UNCHANGED <<connection, has_video, reads, channel, video, first_keyframe, asked, dropped, drained>>

OpenFails ==
  /\ receiver = "opening"
  /\ receiver' = "closed"
  /\ receiver_step
  /\ UNCHANGED <<connection, has_video, reads, channel, video, first_keyframe, asked, dropped, drained>>

(* Mutant: the decoder jumps the queue.                                    *)
OpenInstallsFirst ==
  /\ receiver = "opening" /\ Unlocked
  /\ connection < MaxConnections
  /\ connection' = connection + 1 /\ reads' = 0
  /\ receiver' = "opened" /\ has_video' = TRUE
  /\ msgs' = <<Decoder(connection')>> \o msgs
  /\ Notify
  /\ receiver_step /\ UNCHANGED <<clear_pending, first_keyframe, asked, dropped, drained>>

(* Mutant: a new connection starts from a fresh queue.                     *)
OpenResetsQueue ==
  /\ receiver = "opening" /\ Unlocked
  /\ connection < MaxConnections
  /\ connection' = connection + 1 /\ reads' = 0
  /\ receiver' = "opened" /\ has_video' = TRUE
  /\ msgs' = <<Decoder(connection')>> /\ clear_pending' = FALSE
  /\ Notify
  /\ receiver_step /\ UNCHANGED <<first_keyframe, asked, dropped, drained>>

(* The stream is open and its decoder, when it has video, in the queue.    *)
Open ==
  /\ receiver = "opening" /\ Unlocked
  /\ connection < MaxConnections
  /\ connection' = connection + 1 /\ reads' = 0
  /\ receiver' = "opened"
  /\ \/ /\ has_video' = TRUE
        /\ msgs' = Append(msgs, Decoder(connection'))
        /\ Notify
     \/ /\ has_video' = FALSE
        /\ UNCHANGED <<msgs, video>>
  /\ receiver_step /\ UNCHANGED <<clear_pending, first_keyframe, asked, dropped, drained>>

(* A fast probe that missed a stream the last connection had: closed and   *)
(* probed again in full at once.                                           *)
Reprobe ==
  /\ receiver = "opened" /\ connection > 1
  /\ receiver' = "opening"
  /\ receiver_step
  /\ UNCHANGED <<connection, has_video, reads, channel, video, first_keyframe, asked, dropped, drained>>

OlderUnderWay ==
  \/ \E i \in 1..Len(msgs) : msgs[i].kind = "packet" /\ msgs[i].connection < connection
  \/ video = "decode" /\ packet.connection < connection

(* Mutant: the keyframe gate stays open across the reconnect.              *)
PrepareKeepsKeyframe ==
  /\ receiver = "opened"
  /\ receiver' = "reading"
  /\ drained' = IF OlderUnderWay THEN drained ELSE drained \cup {connection}
  /\ receiver_step
  /\ UNCHANGED <<connection, has_video, reads, channel, video, first_keyframe, asked, dropped>>

PrepareNewConnection ==
  /\ receiver = "opened"
  /\ receiver' = "reading"
  /\ first_keyframe' = FALSE
  /\ drained' = IF OlderUnderWay THEN drained ELSE drained \cup {connection}
  /\ receiver_step
  /\ UNCHANGED <<connection, has_video, reads, channel, video, asked, dropped>>

(* push_packet drops from the front until the queue is within its bounds,  *)
(* whatever kind of message is in front.  Only packets count, so the last  *)
(* message dropped is a packet.  One bound is a span of timestamps, which  *)
(* a jump exceeds with any number of packets.                              *)
PushPacket(key) ==
  /\ receiver = "reading" /\ has_video /\ Unlocked
  /\ reads < MaxPackets
  /\ reads' = reads + 1
  /\ LET pushed == Append(msgs, Packet(connection, key))
     IN  \E n \in 0..Len(msgs) :
           /\ Fits(From(pushed, n))
           /\ n > 0 => pushed[n].kind = "packet"
           /\ msgs' = From(pushed, n)
           /\ dropped' = dropped \cup
                {pushed[i].connection : i \in {j \in 1..n : pushed[j].kind = "decoder"}}
  /\ Notify
  /\ receiver_step
  /\ UNCHANGED <<receiver, connection, has_video, clear_pending, first_keyframe, asked, drained>>

(* A read error: the connection is closed, and when Clear On Disconnect    *)
(* says so the queue is emptied and the video thread asked to blank.       *)
Disconnect(clear) ==
  /\ receiver = "reading"
  /\ receiver' = "closed"
  /\ IF clear
     THEN /\ Unlocked
          /\ msgs' = << >> /\ clear_pending' = TRUE /\ asked' = connection
          /\ Notify
     ELSE UNCHANGED <<channel, video, asked>>
  /\ receiver_step
  /\ UNCHANGED <<connection, has_video, reads, first_keyframe, dropped, drained>>

ReceiverExit ==
  /\ receiver \in {"closed", "reading"} /\ ~active /\ Unlocked
  /\ receiver' = "exited"
  /\ msgs' = << >>
  /\ receiver_step
  /\ UNCHANGED <<connection, has_video, reads, clear_pending, video, first_keyframe, asked, dropped, drained>>

ReceiverNext ==
  \/ Attempt \/ OpenFails \/ Open \/ Reprobe \/ PrepareNewConnection
  \/ \E key \in BOOLEAN : PushPacket(key)
  \/ \E clear \in ClearSettings : Disconnect(clear)
  \/ ReceiverExit

-----------------------------------------------------------------------------
(* The video thread.                                                       *)

video_step == UNCHANGED <<stop, rx, asked, dropped, drained>>

Finish ==
  /\ video = "top" /\ ~active
  /\ video' = "exited"
  /\ msgs' = << >> /\ pacing' = << >> /\ decoder' = None
  /\ video_step
  /\ UNCHANGED <<clear_pending, packet, first_keyframe, last_frame, picture, cleared, started>>

(* Mutant: the frame kept for repeating survives the clear.                *)
TakeClearKeepsLast ==
  /\ video = "top" /\ active
  /\ clear_pending
  /\ clear_pending' = FALSE
  /\ pacing' = << >> /\ picture' = None
  /\ cleared' = asked
  /\ video_step
  /\ UNCHANGED <<msgs, video, packet, decoder, first_keyframe, last_frame, started>>

TakeClear ==
  /\ video = "top" /\ active
  /\ clear_pending
  /\ clear_pending' = FALSE
  /\ pacing' = << >> /\ last_frame' = None /\ picture' = None
  /\ cleared' = asked
  /\ video_step
  /\ UNCHANGED <<msgs, video, packet, decoder, first_keyframe, started>>

NothingToClear ==
  /\ video = "top" /\ active
  /\ ~clear_pending
  /\ video' = "look"
  /\ video_step
  /\ UNCHANGED <<channel, packet, decoder, first_keyframe, output, cleared, started>>

(* next_is_decoder and the pop after it take the lock one after the other. *)
LookForDecoder ==
  /\ video = "look"
  /\ video' = IF msgs # << >> /\ msgs[1].kind = "decoder" THEN "adopt" ELSE "intake"
  /\ video_step
  /\ UNCHANGED <<channel, packet, decoder, first_keyframe, output, cleared, started>>

(* Whatever else the pop finds is discarded.                               *)
AdoptDecoder ==
  /\ video = "adopt"
  /\ video' = "look"
  /\ IF msgs = << >>
     THEN UNCHANGED <<msgs, decoder>>
     ELSE /\ msgs' = Tail(msgs)
          /\ decoder' = IF msgs[1].kind = "decoder" THEN msgs[1].connection ELSE decoder
  /\ video_step
  /\ UNCHANGED <<clear_pending, packet, first_keyframe, output, cleared, started>>

PopMessage ==
  /\ video = "intake"
  /\ has_room /\ msgs # << >>
  /\ msgs' = Tail(msgs)
  /\ \/ /\ msgs[1].kind = "decoder"
        /\ decoder' = msgs[1].connection
        /\ UNCHANGED <<video, packet>>
     \/ /\ msgs[1].kind = "packet"
        /\ packet' = msgs[1]
        /\ video' = "decode"
        /\ UNCHANGED decoder
  /\ video_step
  /\ UNCHANGED <<clear_pending, first_keyframe, output, cleared, started>>

IntakeEnds ==
  /\ video = "intake"
  /\ ~has_room \/ msgs = << >>
  /\ video' = "emit"
  /\ video_step
  /\ UNCHANGED <<channel, packet, decoder, first_keyframe, output, cleared, started>>

(* Not every packet yields a frame, and a frame passes the gate once a key *)
(* frame has.  (What the gate before the decoder keeps back is no key      *)
(* packet, and its frame would not pass this one either.)                  *)
Decode ==
  /\ video = "decode"
  /\ video' = "intake"
  /\ \/ UNCHANGED <<first_keyframe, pacing, started>>
     \/ /\ decoder # None
        /\ packet.key \/ first_keyframe
        /\ first_keyframe' = TRUE
        /\ started' = IF packet.key /\ decoder = packet.connection
                      THEN started \cup {decoder} ELSE started
        /\ pacing' = Append(pacing, [connection |-> packet.connection,
                                     clean |-> packet.connection \in started'])
  /\ video_step
  /\ UNCHANGED <<channel, packet, decoder, last_frame, picture, cleared>>

(* The first n paced frames are due; those libobs would skip are passed    *)
(* over.  OBS may refuse any: the last is kept for repeating all the same. *)
EmitDue ==
  /\ video = "emit"
  /\ video' = "repeat"
  /\ \/ UNCHANGED output
     \/ \E n \in 1..Len(pacing) :
          /\ pacing' = From(pacing, n)
          /\ last_frame' = pacing[n].connection
          /\ picture' \in {picture} \cup {pacing[i].connection : i \in 1..n}
  /\ video_step
  /\ UNCHANGED <<channel, packet, decoder, first_keyframe, cleared, started>>

(* keep_play_head_running.                                                 *)
RepeatLast ==
  /\ video = "repeat"
  /\ video' = "wait"
  /\ \/ UNCHANGED picture
     \/ last_frame # None /\ picture' = last_frame
  /\ video_step
  /\ UNCHANGED <<channel, packet, decoder, first_keyframe, pacing, last_frame, cleared, started>>

(* A frame that is due already sends the thread round again at once.       *)
Wait ==
  /\ video = "wait"
  /\ \/ video' = "top" /\ (has_work \/ ~active \/ pacing # << >>)
     \/ video' = "falling" /\ ~has_work /\ active
  /\ video_step
  /\ UNCHANGED <<channel, packet, decoder, first_keyframe, output, cleared, started>>

FallAsleep ==
  /\ video = "falling"
  /\ video' = "asleep"
  /\ video_step
  /\ UNCHANGED <<channel, packet, decoder, first_keyframe, output, cleared, started>>

(* Mutant: only a paced frame limits the sleep.                            *)
TimeoutWhenPaced ==
  /\ video = "asleep" /\ pacing # << >>
  /\ video' = "top"
  /\ video_step
  /\ UNCHANGED <<channel, packet, decoder, first_keyframe, output, cleared, started>>

(* VIDEO_PACING_MAX_WAIT_MS, or the moment the head frame is due.          *)
Timeout ==
  /\ video = "asleep"
  /\ video' = "top"
  /\ video_step
  /\ UNCHANGED <<channel, packet, decoder, first_keyframe, output, cleared, started>>

VideoNext ==
  \/ Finish \/ TakeClear \/ NothingToClear \/ LookForDecoder \/ AdoptDecoder
  \/ PopMessage \/ IntakeEnds \/ Decode \/ EmitDue \/ RepeatLast
  \/ Wait \/ FallAsleep \/ Timeout

-----------------------------------------------------------------------------
(* stop_receiver: the flag, then the wake-up, neither under the lock.      *)

others == UNCHANGED <<rx, channel, packet, decoder, first_keyframe, output, history>>

Stop ==
  /\ stop = "no" /\ stop' = "flagged"
  /\ UNCHANGED video /\ others

WakeAll ==
  /\ stop = "flagged" /\ stop' = "woken"
  /\ Notify /\ others

Next == ReceiverNext \/ VideoNext \/ Stop \/ WakeAll

Spec == Init /\ [][Next]_vars

(* The operating system runs both threads and the caller of stop_receiver, *)
(* and the wait of the video thread always has a timeout.  Nothing is      *)
(* assumed of the sender.                                                  *)
Fairness == WF_vars(VideoNext) /\ WF_vars(WakeAll)

FairSpec == Spec /\ Fairness

-----------------------------------------------------------------------------
(* Properties.                                                             *)

(* The queue's order binds a decoder to the packets that follow it: a      *)
(* packet is never decoded by a later connection's decoder, and by an      *)
(* earlier one's only when its own decoder was dropped by an overflow.     *)
PacketsMeetTheirDecoder ==
  video = "decode" =>
    /\ decoder <= packet.connection
    /\ decoder # packet.connection => packet.connection \in dropped

(* shared.rs:258 has an overflow cost artifacts until the next key frame:  *)
(* a key packet is decoded by its own connection's decoder.                *)
KeyMeetsItsDecoder == video = "decode" /\ packet.key => decoder = packet.connection

(* A disconnect that blanks the screen blanks it for good: no frame of     *)
(* that connection, queued, paced or kept for repeating, is shown after.   *)
ClearIsFinal == picture # None => picture > cleared

(* README.md:97, on the video that goes to OBS: nothing of a connection is *)
(* shown before its first key frame (overflows left aside).                *)
NothingBeforeKeyframe ==
  \A i \in 1..Len(pacing) : pacing[i].connection \notin dropped => pacing[i].clean

(* What does hold of it: a connection that begins when no packet of an     *)
(* older one is under way, and keeps its decoder, shows nothing before its *)
(* first key frame.                                                        *)
CleanStart ==
  \A i \in 1..Len(pacing) :
    pacing[i].connection \in drained \ dropped => pacing[i].clean

(* The video thread never sleeps through what the receiver sent it.        *)
NoSleepThroughWork == video \in {"falling", "asleep"} => ~has_work

(* The blank a disconnect asked for is carried out, whatever the next      *)
(* connection sends meanwhile, unless the run is stopped first.            *)
DisconnectBlanks ==
  \A c \in Connections : (asked = c) ~> (cleared >= c \/ ~active)

(* A stop whose wake-up falls between the video thread's last look and its *)
(* sleep is still noticed.                                                 *)
VideoEnds == ~active ~> (video = "exited")
=============================================================================
