----------------------------- MODULE MCChannels -----------------------------
(***************************************************************************)
(* TLC instances of Channels: two or three tuners and channels, one channel *)
(* with error repair; one or all with rapid channel change.                *)
(***************************************************************************)
EXTENDS Channels
=============================================================================
