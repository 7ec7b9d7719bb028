-------------------------------- MODULE RccAbs --------------------------------
(***************************************************************************)
(* What a rapid channel change promises, without its queues, timers, calls *)
(* and packets: the two halves agree on one outcome, the streams are only  *)
(* ever turned on, in the order the burst needs, and they end up all on.   *)
(* Module Rcc implements it.                                               *)
(***************************************************************************)

\* The primary and FEC streams are joined; error repair is on.
Streams == {"primary", "fec", "er"}

VARIABLES
    cp,     \* the control plane: asks the server for a burst, then believes it
            \* started or gives up; freed in the end
    dp,     \* the dataplane: runs the burst to success, or aborts it; gone
            \* once its graph is destroyed
    on      \* the streams turned on

vars == <<cp, dp, on>>

Init == cp = "asking" /\ dp = "idle" /\ on = {}

\* The dataplane has got the server's APP while the control plane waits.
Start == /\ dp = "idle" /\ cp = "asking"
         /\ dp' = "running"
         /\ UNCHANGED <<cp, on>>

\* The burst goes on: the primary stream is joined, and only then error repair
\* turned on.
Join == /\ dp = "running" /\ on = {}
        /\ on' = {"primary"}
        /\ UNCHANGED <<cp, dp>>
EnableEr == /\ dp = "running" /\ on = {"primary"}
            /\ on' = {"primary", "er"}
            /\ UNCHANGED <<cp, dp>>

\* The burst ends well, and FEC is joined.  The control plane has not given up.
Finish == /\ dp = "running" /\ on = {"primary", "er"} /\ cp # "gave_up"
          /\ dp' = "success"
          /\ on' = Streams
          /\ UNCHANGED cp

\* It does not: then the streams are turned on in any order.
Abort == /\ dp \in {"idle", "running"}
         /\ dp' = "aborted"
         /\ on' \in {on, Streams}
         /\ UNCHANGED cp
TurnOn == /\ dp = "aborted"
          /\ on \subseteq on' /\ on' \subseteq Streams
          /\ UNCHANGED <<cp, dp>>

\* The control plane believes in the burst only after it has started, and gives
\* up only one that has not started or has been aborted or destroyed.
Believe == /\ cp = "asking" /\ dp # "idle"
           /\ cp' = "started"
           /\ UNCHANGED <<dp, on>>
GiveUp == /\ cp = "asking" /\ dp \notin {"running", "success"}
          /\ cp' = "gave_up"
          /\ UNCHANGED <<dp, on>>

\* The dataplane goes before the control plane's channel, if it was created.
Destroy == /\ dp \in {"success", "aborted"}
           /\ dp' = "gone"
           /\ UNCHANGED <<cp, on>>
Free == /\ dp \in {"idle", "gone"} /\ cp # "freed"
        /\ cp' = "freed"
        /\ UNCHANGED <<dp, on>>

Next == \/ Start \/ Join \/ EnableEr \/ Finish \/ Abort \/ TurnOn
        \/ Believe \/ GiveUp \/ Destroy \/ Free

Spec == Init /\ [][Next]_vars

\* Once the control plane has its answer the viewer gets the stream, by burst or
\* by plain join, unless the channel is left.
Progress == cp # "asking" ~> on = Streams \/ dp = "gone" \/ cp = "freed"
=============================================================================
