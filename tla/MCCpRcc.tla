------------------------------- MODULE MCCpRcc -------------------------------
(***************************************************************************)
(* TLC instances of CpRcc: every configuration of the channel, and those   *)
(* with a rapid change.  Fast fill is configured only together with RCC.   *)
(***************************************************************************)
EXTENDS CpRcc

MCConfigs == {c \in SUBSET Features : "rcc" \in c \/ c \subseteq {"er", "nat", "mrb"}}
MCRapidConfigs == {c \in MCConfigs : "rcc" \in c}
=============================================================================
