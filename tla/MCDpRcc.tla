------------------------------- MODULE MCDpRcc -------------------------------
(***************************************************************************)
(* TLC instance of DpRcc.  The module is finite once the number of APP     *)
(* packets is bounded, but for the upcall counters, which NcsiOnce and     *)
(* AbortToldOnce bound.                                                    *)
(***************************************************************************)
EXTENDS DpRcc
=============================================================================
