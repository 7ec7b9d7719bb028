----------------------------- MODULE MCUpcallIrq -----------------------------
(***************************************************************************)
(* TLC instance of UpcallIrq: two devices of a channel.  The numbers wrap  *)
(* around many times in a behaviour.                                       *)
(***************************************************************************)
EXTENDS UpcallIrq
=============================================================================
