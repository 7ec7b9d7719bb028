------------------------------- MODULE MCPcm -------------------------------
(***************************************************************************)
(* TLC instances of Pcm.  MCVectors: a packet from before the first one,   *)
(* one with a gap, a reordered pair, a run over the end of the RTP numbers. *)
(* MCFarVectors: packets with which, once the first has been handed on, a  *)
(* late repair spreads the cache over more numbers than the ring has slots. *)
(***************************************************************************)
EXTENDS Pcm

MCVectors ==
    {<<14>>, <<4>>, <<1, 0>>, <<15, 0, 1, 2>>}
MCFarVectors == {<<1, 5>>, <<9>>, <<12>>}
=============================================================================
