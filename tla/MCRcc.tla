-------------------------------- MODULE MCRcc --------------------------------
(***************************************************************************)
(* TLC instances of Rcc.  CpRcc is checked in all configurations; here the *)
(* channel does RCC and error repair, with and without a NAT.              *)
(***************************************************************************)
EXTENDS Rcc

MCConfigs == {{"rcc", "er", "mrb"}, {"rcc", "er", "nat"}}
=============================================================================
