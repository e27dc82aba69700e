----------------------------- MODULE Connection -----------------------------
(***************************************************************************)
(* The receiver thread of one run and its connection to the sender         *)
(* (irl-source/src/receiver/mod.rs, stream.rs, probe.rs): it opens the     *)
(* input, probes it, opens decoders, reads until the input fails, and      *)
(* opens it again; and the watch that gets it out of a call into FFmpeg    *)
(* that makes no progress (ffmpeg/src/format.rs).                          *)
(*                                                                         *)
(* Time is in ticks; a moment that is kept (io_start_us, eagain_since_us)  *)
(* is its age.  FFmpeg is external: a call into it connects, takes bytes,  *)
(* returns or fails when it likes, and polls the watch meanwhile.  What    *)
(* becomes of the packets is left to AudioIntake and VideoHandover, the    *)
(* waiting for room to Priming.                                            *)
(***************************************************************************)
EXTENDS Integers, FiniteSets

CONSTANTS
  Stall,     (* IO_STALL_TIMEOUT_US                                       *)
  Awaits,    (* what awaits_caller may say of the URL and the options     *)
  HwDecodes  (* values of Hardware Decoding                               *)

ASSUME StallAssumption == Stall \in Nat \ {0}
ASSUME SettingsAssumption ==
  Awaits \subseteq BOOLEAN /\ HwDecodes \subseteq {"off", "auto", "nvdec"}

VARIABLES
  active,       (* thread_active                                          *)
  awaits,       (* awaits_caller: this input waits to be called           *)
  hw_decode,    (* Hardware Decoding                                      *)
  pc,           (* what the thread does                                   *)
  fmt,          (* an input is open                                       *)
  fast,         (* the attempt under way probes fast                      *)
  prev,         (* prev_had_video, prev_had_audio                         *)
  streams,      (* those with an index, has_..._stream and ..._present    *)
  hw_device,    (* none, made for this connection, or left from another   *)
  decoder,      (* how the video decoder opened last decodes              *)
  reconnecting, (* StreamFlags::reconnecting                              *)
  eagain,       (* age of the unbroken run of EAGAIN reads, None if none  *)
  age,          (* age of io_start_us                                     *)
  connected,    (* FFmpeg: the far end is there, pb is not null           *)
  news,         (* bytes_read differs from io_bytes_read                  *)
  quiet         (* history: ticks since the call began, the far end came or a byte did *)

watch   == <<age, connected, news, quiet>>
session == <<prev, streams, hw_device, decoder>>
vars == <<active, awaits, hw_decode, pc, fmt, fast, session, reconnecting, eagain, watch>>

None == -1
Ages == 0..(Stall + 1)  (* BOUND: an age past the deadline is kept as this *)

Blocked == pc \in {"opening", "probing", "reading"}

TypeOK ==
  /\ {active, awaits, fmt, fast, reconnecting, connected, news} \subseteq BOOLEAN
  /\ hw_decode \in HwDecodes
  /\ pc \in {"top", "opening", "probing", "reading", "napping", "handling",
             "waiting", "exited"}
  /\ {prev, streams} \subseteq SUBSET {"video", "audio"}
  /\ hw_device \in {"none", "current", "stale"}
  /\ decoder \in {"none", "hw", "sw"}
  /\ eagain \in Ages \cup {None} /\ {age, quiet} \subseteq Ages

Init ==
  /\ active = TRUE /\ awaits \in Awaits /\ hw_decode \in HwDecodes
  /\ pc = "top" /\ fmt = FALSE /\ fast = FALSE
  /\ prev = {} /\ streams = {} /\ hw_device = "none" /\ decoder = "none"
  /\ reconnecting = FALSE /\ eagain = None
  /\ age = 0 /\ connected = FALSE /\ news = FALSE /\ quiet = 0

-----------------------------------------------------------------------------
(* The watch.                                                              *)

Older(a) == IF a = None \/ a > Stall THEN a ELSE a + 1

(* arm: a call begins.                                                     *)
Arm == age' = 0 /\ quiet' = 0

(* Mutant: the count of bytes is taken over from the context before.       *)
TrackOnwards == connected' = FALSE /\ news' = FALSE

(* track: a context is about to be opened.  No count of bytes equals -1,   *)
(* so the first poll that finds a connection takes it for progress.        *)
Track == connected' = FALSE /\ news' = TRUE

deadline_passed == age > Stall

(* Mutant: the stop is left to the loop.                                   *)
AbortAtDeadline ==
  \/ ~connected /\ ~awaits /\ deadline_passed
  \/ connected /\ ~news /\ deadline_passed

should_abort ==
  \/ ~active
  \/ ~connected /\ ~awaits /\ deadline_passed
  \/ connected /\ ~news /\ deadline_passed

(* Time passes in a call.                                                  *)
Tick ==
  /\ Blocked
  /\ age' = Older(age) /\ quiet' = Older(quiet) /\ eagain' = Older(eagain)
  /\ UNCHANGED <<active, awaits, hw_decode, pc, fmt, fast, session, reconnecting,
                 connected, news>>

(* FFmpeg: the far end answers or calls in; a byte comes.                  *)
Arrives ==
  /\ Blocked
  /\ connected' = TRUE /\ quiet' = 0
  /\ news' = (news \/ connected)
  /\ UNCHANGED <<active, awaits, hw_decode, pc, fmt, fast, session, reconnecting,
                 eagain, age>>

(* The callback, when it does not abort: progress restarts the clock.      *)
Progress ==
  /\ Blocked /\ ~should_abort
  /\ connected /\ news
  /\ news' = FALSE /\ age' = 0
  /\ UNCHANGED <<active, awaits, hw_decode, pc, fmt, fast, session, reconnecting,
                 eagain, connected, quiet>>

-----------------------------------------------------------------------------
(* Opening.                                                                *)

(* FormatContext::open, up to where avformat_open_input blocks.            *)
BeginAttempt(fast_probe) ==
  /\ pc' = "opening" /\ fast' = fast_probe
  /\ Track /\ Arm

(* What open_decoder can come to for the video stream: the decoder and the *)
(* connection's device.  A device that cannot be made or attached falls    *)
(* back to software, except when NVDEC is forced.                          *)
open_decoder ==
  LET forced == hw_decode = "nvdec"
      devices == IF hw_decode = "off" \/ hw_device # "none" THEN {hw_device}
                 ELSE {"none", "current"}
      hardware == hw_decode # "off" /\ devices # {"none"}
      failed == [decoder |-> "none", hw_device |-> "none"]
  IN  {failed}
      \cup {[decoder |-> "hw", hw_device |-> d] : d \in {e \in devices : hardware /\ e # "none"}}
      \cup {[decoder |-> "sw", hw_device |-> "none"] : d \in {e \in devices : ~forced}}

(* select_streams: which of the streams found get a decoder, and what the  *)
(* video decoder and the device are then.                                  *)
select_streams(found) ==
  {[streams   |-> {s \in found : IF s = "video" THEN v.decoder # "none" ELSE audio},
    decoder   |-> IF "video" \in found THEN v.decoder ELSE decoder,
    hw_device |-> IF "video" \in found THEN v.hw_device ELSE hw_device] :
   v \in open_decoder, audio \in BOOLEAN}

(* What a probe can come to.                                               *)
Probes == UNION {select_streams(found) : found \in SUBSET {"video", "audio"}}

Suffices(probe) == probe.streams # {} /\ (fast => prev \subseteq probe.streams)

(* close_ffmpeg.                                                           *)
Closed == fmt' = FALSE /\ streams' = {} /\ hw_device' = "none"

(* The attempt failed: after a fast probe the full one follows at once,    *)
(* after a full one wait_for_reconnect begins.                             *)
NextAttempt ==
  IF fast
  THEN BeginAttempt(FALSE) /\ UNCHANGED <<reconnecting>>
  ELSE /\ pc' = "waiting" /\ reconnecting' = TRUE
       /\ connected' = FALSE /\ UNCHANGED <<fast, age, news, quiet>>

(* run, at the top of the loop with nothing open: open_stream begins.      *)
OpenStream ==
  /\ pc = "top" /\ active /\ ~fmt
  /\ eagain' = None
  /\ BeginAttempt(prev # {})
  /\ hw_device' = IF hw_device = "current" THEN "stale" ELSE hw_device
  /\ UNCHANGED <<active, awaits, hw_decode, fmt, prev, streams, decoder, reconnecting>>

(* avformat_open_input fails, of itself or because the watch aborts it.    *)
OpenFails ==
  /\ pc = "opening"
  /\ NextAttempt
  /\ UNCHANGED <<active, awaits, hw_decode, fmt, session, eagain>>

(* It succeeds, and the probe begins.                                      *)
InputOpens ==
  /\ pc = "opening" /\ connected
  /\ pc' = "probing" /\ fmt' = TRUE
  /\ news' = TRUE /\ Arm
  /\ UNCHANGED <<active, awaits, hw_decode, fast, session, reconnecting, eagain, connected>>

(* find_stream_info fails: the context goes, and nothing else does.        *)
ProbeFails ==
  /\ pc = "probing"
  /\ fmt' = FALSE
  /\ NextAttempt
  /\ UNCHANGED <<active, awaits, hw_decode, session, eagain>>

(* The probe finds streams, and decoders open for some: with one at least, *)
(* and none missing that the last session had if the probe was a fast one, *)
(* the connection stands (prepare_new_connection).                         *)
ProbeSucceeds ==
  /\ pc = "probing"
  /\ \E probe \in Probes :
       /\ Suffices(probe)
       /\ streams' = probe.streams /\ prev' = probe.streams
       /\ decoder' = probe.decoder /\ hw_device' = probe.hw_device
  /\ reconnecting' = FALSE /\ pc' = "top"
  /\ UNCHANGED <<active, awaits, hw_decode, fmt, fast, eagain, watch>>

(* Too little was found: the connection is closed again.                   *)
ProbeFindsTooLittle ==
  /\ pc = "probing"
  /\ \E probe \in Probes : ~Suffices(probe) /\ decoder' = probe.decoder
  /\ Closed
  /\ NextAttempt
  /\ UNCHANGED <<active, awaits, hw_decode, prev, eagain>>

(* wait_for_reconnect: the delay is over, or the run is.                   *)
WaitOver ==
  /\ pc = "waiting"
  /\ reconnecting' = FALSE /\ pc' = "top"
  /\ UNCHANGED <<active, awaits, hw_decode, fmt, fast, session, eagain, watch>>

-----------------------------------------------------------------------------
(* Reading.                                                                *)

(* run, at the top with an input: there is room, and read_frame begins.    *)
ReadFrame ==
  /\ pc = "top" /\ active /\ fmt
  /\ pc' = "reading" /\ Arm
  /\ UNCHANGED <<active, awaits, hw_decode, fmt, fast, session, reconnecting, eagain,
                 connected, news>>

(* A packet, which ends a run of EAGAIN.                                   *)
PacketRead ==
  /\ pc = "reading" /\ connected
  /\ pc' = "handling" /\ eagain' = None
  /\ UNCHANGED <<active, awaits, hw_decode, fmt, fast, session, reconnecting, watch>>

(* The packet has gone to the audio decoder or to the video queue.         *)
PacketHandled ==
  /\ pc = "handling"
  /\ pc' = "top"
  /\ UNCHANGED <<active, awaits, hw_decode, fmt, fast, session, reconnecting, eagain, watch>>

(* Mutant: EAGAIN may go on for ever.                                      *)
RetryForEver == TRUE

(* retry_eagain: nothing yet.  The run of EAGAIN goes on or begins.        *)
retry_eagain == eagain = None \/ eagain < Stall

ReadAgain ==
  /\ pc = "reading" /\ retry_eagain
  /\ eagain' = IF eagain = None THEN 0 ELSE eagain
  /\ pc' = "napping"
  /\ UNCHANGED <<active, awaits, hw_decode, fmt, fast, session, reconnecting, watch>>

(* The nap is the time that passes from one try to the next.               *)
NapOver ==
  /\ pc = "napping"
  /\ pc' = "top" /\ eagain' = Older(eagain)
  /\ UNCHANGED <<active, awaits, hw_decode, fmt, fast, session, reconnecting, watch>>

(* handle_stream_read_error: the connection is closed, and the next pass   *)
(* opens another.                                                          *)
handle_stream_read_error ==
  /\ pc = "reading"
  /\ reconnecting' = TRUE /\ Closed /\ connected' = FALSE
  /\ pc' = "top"
  /\ UNCHANGED <<active, awaits, hw_decode, fast, prev, decoder, age, news, quiet>>

ReadFails == handle_stream_read_error /\ eagain' = None

(* EAGAIN for longer than a read may block is an error like any other.     *)
EagainTooLong == ~retry_eagain /\ handle_stream_read_error /\ UNCHANGED eagain

(* The callback answers that the call is to be aborted.                    *)
Abort == should_abort /\ (OpenFails \/ ProbeFails \/ ReadFails)

-----------------------------------------------------------------------------
(* thread_active is cleared.                                               *)
Stop ==
  /\ active /\ active' = FALSE
  /\ UNCHANGED <<awaits, hw_decode, pc, fmt, fast, session, reconnecting, eagain, watch>>

Exit ==
  /\ pc = "top" /\ ~active
  /\ Closed /\ pc' = "exited"
  /\ UNCHANGED <<active, awaits, hw_decode, fast, prev, decoder, reconnecting, eagain, watch>>

(* FFmpeg returns what it likes when it likes.                             *)
FFmpeg == \/ Arrives \/ OpenFails \/ InputOpens \/ ProbeFails \/ ProbeSucceeds
          \/ ProbeFindsTooLittle \/ PacketRead \/ ReadAgain \/ ReadFails \/ EagainTooLong

Loop == OpenStream \/ WaitOver \/ ReadFrame \/ PacketHandled \/ NapOver \/ Exit

Next == Stop \/ Loop \/ FFmpeg \/ Tick \/ Progress \/ Abort

Spec == Init /\ [][Next]_vars

(* The thread runs, time passes, and FFmpeg polls the callback while it    *)
(* blocks; it need never return by itself.                                 *)
FairSpec == /\ Spec
            /\ WF_vars(Loop) /\ WF_vars(Tick) /\ WF_vars(Progress) /\ WF_vars(Abort)

-----------------------------------------------------------------------------
(* With no input open nothing of a connection is left that another thread  *)
(* or the next attempt could take for its own: no stream is announced and  *)
(* no hardware device is held, and none is ever carried into an attempt    *)
(* from the one before (Receiver::hw_device).                              *)
ClosedIsClean ==
  /\ hw_device # "stale"
  /\ pc \in {"opening", "waiting", "exited"} => streams = {} /\ hw_device = "none"

(* The watch aborts a call only when the run was stopped or when nothing   *)
(* has come for longer than the deadline since the call began, the far end *)
(* appeared or the last byte came; and it never aborts an input that waits *)
(* to be called before someone called (InterruptWatch::should_abort).      *)
AbortsOnlyStalled ==
  Blocked /\ should_abort => ~active \/ (quiet > Stall /\ (connected \/ ~awaits))

(* A sender that stays silent is given up, whether it never answers, stops *)
(* sending, or leaves the demuxer answering EAGAIN for ever                *)
(* (retry_eagain): no byte and no packet for ever means the input is       *)
(* closed.                                                                 *)
Unanswered ==
  /\ fmt \/ (pc = "opening" /\ (connected \/ ~awaits))
  /\ pc # "handling" /\ ~(connected /\ news)
DeadLinkGivenUp == Unanswered ~> ~Unanswered

(* A connection that stands carries whatever the session before carried,   *)
(* or was probed in full (open_stream).                                    *)
ThinnerOnlyInFull ==
  [][prev' # prev /\ fast => prev \subseteq prev']_vars

(* A stop reaches the thread wherever FFmpeg holds it.                     *)
StopEnds == ~active ~> pc = "exited"
=============================================================================
