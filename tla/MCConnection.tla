---------------------------- MODULE MCConnection ----------------------------
(* Constants for model-checking Connection.                                *)
EXTENDS Connection

Either == BOOLEAN

(* What an attempt is opened with is computed by DemuxerOptions; checked   *)
(* here over all short options.                                            *)
Options == INSTANCE DemuxerOptions WITH
  PROBE_FAST <- "1 MB", PROBE_FULL <- "5 MB", Bytes <- 2097152, PacketSize <- 188,
  DefaultPackets <- 28672

Parameters == {<<"mode", "listener">>, <<"mode", "caller">>, <<"listen", "1">>, <<"listen", "0">>}
Tokens == Parameters \cup {<<>>, <<"mode">>, <<"tls_verify", "1">>, <<"buffer_size", "500">>}
SomeUrls == {[scheme |-> s, query |-> q] :
               s \in {"srt", "rist", "rtmp"}, q \in {<<>>} \cup {<<p>> : p \in Parameters}}

ASSUME \A url \in SomeUrls, n \in 0..3 : \A extra \in [1..n -> Tokens] :
         /\ \A fast_probe \in BOOLEAN : Options!UserWins(url, extra, fast_probe)
         /\ Options!ListenerMayWait(url, extra) /\ Options!CallerHasDeadline(url, extra)
         /\ Options!OnlyTheProbeDiffers(url, extra)
=============================================================================
