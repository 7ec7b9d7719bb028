--------------------------- MODULE MCGapReporter ---------------------------
(***************************************************************************)
(* TLC instance of GapReporter: packets with gaps before, between and after *)
(* those received, over the end of the RTP numbers.                        *)
(***************************************************************************)
EXTENDS GapReporter

MCVectors == {<<14>>, <<4>>, <<1, 0>>, <<14, 15, 0, 1>>}
=============================================================================
