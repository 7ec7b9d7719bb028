------------------------------ MODULE MCOsched ------------------------------
(***************************************************************************)
(* TLC instances of Osched, with and without another channel whose         *)
(* scheduler may notice a clock that was set back first.                   *)
(***************************************************************************)
EXTENDS Osched
=============================================================================
