--------------------------- MODULE DemuxerOptions ---------------------------
(***************************************************************************)
(* The options a stream is opened with, and whether it waits to be called  *)
(* (irl-core/src/url_opts.rs).  Connection takes what awaits_caller says   *)
(* as either; here it is compared with what FFmpeg is given.               *)
(*                                                                         *)
(* A URL is [scheme, query], the query a sequence of parameters            *)
(* <<key, value>>.  The code looks for "mode=listener" anywhere in the     *)
(* query; a parameter whose name only ends in "mode" counts too, and is    *)
(* left out.  What the user typed is a sequence of tokens, each split at   *)
(* its first "=": <<>> between two spaces, <<word>> without an "=", or     *)
(* <<key, value>>.                                                         *)
(***************************************************************************)
EXTENDS Integers, Sequences, SequencesExt

CONSTANTS
  PROBE_FAST, PROBE_FULL,
  Bytes,             (* NETWORK_BUFFER_MB                                  *)
  PacketSize,        (* of a TS packet, 188 bytes                          *)
  DefaultPackets     (* UDP_FIFO_DEFAULT_PACKETS                           *)

Const == "constant"  (* a value that never varies and nothing depends on   *)

parse_extra(extra) == SelectSeq(extra, LAMBDA token : Len(token) = 2)

Given(condition, option) == IF condition THEN <<option>> ELSE <<>>

demuxer_options(url, extra, fast_probe) ==
  LET probe == IF fast_probe THEN PROBE_FAST ELSE PROBE_FULL
      fifo_pkts == Bytes \div PacketSize
  IN  <<<<"probesize", probe>>, <<"analyzeduration", probe>>>>
      \o [k \in 1..9 |-> <<<<"fflags", "merge_pmt_versions", "overrun_nonfatal", "rtmp_live",
                             "rtmp_buffer", "tcp_nodelay", "reconnect", "reconnect_streamed",
                             "reconnect_on_network_error">>[k], Const>>]
      \o <<<<"tls_verify", "0">>>>
      \o Given(url.scheme # "rist", <<"buffer_size", Bytes>>)
      \o <<<<"recv_buffer_size", Bytes>>>>
      \o Given(fifo_pkts > DefaultPackets, <<"fifo_size", fifo_pkts>>)
      \o Given(url.scheme = "srt", <<"latency", Const>>)
      \o parse_extra(extra)

Waits == {<<"mode", "listener">>, <<"mode", "rendezvous">>, <<"listen", "1">>}

awaits_caller(url, extra) ==
  \/ Waits \cap ToSet(url.query) # {}
  \/ Waits \cap ToSet(parse_extra(extra)) # {}

-----------------------------------------------------------------------------
(* What it promises.  av_dict_set keeps the last value of a key.           *)

Set(options, key) == {k \in DOMAIN options : options[k][1] = key}
Effective(options, key) ==
  options[CHOOSE k \in Set(options, key) : \A j \in Set(options, key) : j <= k][2]

(* The options on which FFmpeg's protocols wait for a peer.                *)
Listening == {<<"mode", "listener">>, <<"mode", "rendezvous">>, <<"listen", "1">>}

(* Whatever the user sets wins over the plugin's own value, tls_verify     *)
(* included, and the last time it is set wins over the others; a rist      *)
(* input is given a recovery window only by the user.                      *)
UserWins(url, extra, fast_probe) ==
  LET options == demuxer_options(url, extra, fast_probe)
      user == parse_extra(extra)
  IN  /\ \A token \in ToSet(user) : Effective(options, token[1]) = Effective(user, token[1])
      /\ url.scheme = "rist" => Cardinality(Set(options, "buffer_size"))
                                  = Cardinality(Set(user, "buffer_size"))

(* A stream FFmpeg is told to wait on, by the URL or by the options, is    *)
(* never torn down on the caller's deadline.                               *)
ListenerMayWait(url, extra) ==
  LET options == demuxer_options(url, extra, FALSE)
      Told(wait) == \/ Set(options, wait[1]) # {} /\ Effective(options, wait[1]) = wait[2]
                    \/ wait \in ToSet(url.query)
  IN  (\E wait \in Listening : Told(wait)) => awaits_caller(url, extra)

(* A caller whose options name each key once has the deadline.             *)
CallerHasDeadline(url, extra) ==
  LET user == parse_extra(extra) IN
  /\ url.query = <<>>
  /\ \A j, k \in DOMAIN user : user[j][1] = user[k][1] => j = k
  /\ \A wait \in Listening : Set(user, wait[1]) = {} \/ Effective(user, wait[1]) # wait[2]
  => ~awaits_caller(url, extra)

(* A second attempt with the full probe changes nothing but the probe.     *)
OnlyTheProbeDiffers(url, extra) ==
  LET fast == demuxer_options(url, extra, TRUE)
      full == demuxer_options(url, extra, FALSE)
  IN  /\ DOMAIN fast = DOMAIN full
      /\ \A k \in DOMAIN fast : fast[k] # full[k] => fast[k][1] \in {"probesize", "analyzeduration"}
=============================================================================
