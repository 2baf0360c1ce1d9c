---------------------------- MODULE MCStreamSinks ----------------------------
(* StreamSinks for TLC: both messages carry the same event, as the poller     *)
(* publishes them when two page versions show it.                             *)
EXTENDS StreamSinks

MCEventOf == [o \in 0 .. 1 |-> "repeated"]
=============================================================================
