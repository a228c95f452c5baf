----------------------------- MODULE MCPhoneStream -----------------------------
(* Two configurations, and one command of each kind that concerns them. *)
EXTENDS PhoneStream

Still == [codec |-> "h264", adaptive |-> FALSE, kbps |-> 40, lo |-> 20, hi |-> 120]
Moving == [codec |-> "h265", adaptive |-> TRUE, kbps |-> 40, lo |-> 35, hi |-> 50]

MCCommands ==
  {[op |-> "activation", config |-> Still], [op |-> "activation", config |-> Moving],
   [op |-> "codec", codec |-> "h264"], [op |-> "codec", codec |-> "h265"],
   [op |-> "bitrate", kbps |-> 30], [op |-> "adaptive", lo |-> 30, hi |-> 60]}
=============================================================================
