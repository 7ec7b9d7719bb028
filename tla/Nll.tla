-------------------------------- MODULE Nll --------------------------------
(***************************************************************************)
(* The clock recovery of a channel's output (vqec_nll.c): predicts, from a *)
(* packet's RTP timestamp and its receive time, when it is to be sent on.  *)
(*                                                                         *)
(* Not tracking, the prediction follows the RTP timestamps alone, as for a *)
(* burst that arrives faster than the stream plays.  Tracking, it follows  *)
(* the timestamps too but a moving average of the arrival errors pulls it  *)
(* slowly to the receive times, shifted by the offset between the burst    *)
(* and the stream.  Time 0 means "no time".                                *)
(***************************************************************************)
EXTENDS Integers

CONSTANTS
    PcrMod,        \* values of an RTP timestamp (2^32)
    Threshold,     \* MAX_NLL_DISCONTINUITY_THRESHOLD
    MaxArrivalErr, \* MAX_ARRIVAL_ERROR
    AvgMult,       \* MV_AVG_MULT
    AvgDiv,        \* 1 << MV_AVG_SHIFT
    SlewDiv        \* 1 << SLEW_SHIFT

ASSUME NllAssumption ==
    /\ PcrMod \in Nat \ {0} /\ Threshold \in Nat
    /\ MaxArrivalErr \in Nat \ {0}
    /\ AvgDiv \in Nat \ {0} /\ AvgMult \in 0 .. AvgDiv - 1
    /\ SlewDiv \in Nat \ {0}

NllState ==
    [mode : {"NONTRACKING", "TRACKING"}, base : Nat, pcr : 0 .. PcrMod - 1,
     err : Int, lastAct : Nat, first : BOOLEAN, offset : Int, sw : BOOLEAN]

\* vqec_nll_init, vqec_nll_reset
NllReset ==
    [mode |-> "NONTRACKING", base |-> 0, pcr |-> 0, err |-> 0, lastAct |-> 0,
     first |-> FALSE, offset |-> 0, sw |-> FALSE]

\* vqec_nll_set_tracking_mode: takes effect with the next sample.
SetTracking(n) == [n EXCEPT !.sw = TRUE]

\* vqec_nll_rtp_delta
RtpDelta(base, rtp) ==
    LET up == (rtp - base) % PcrMod
        down == (base - rtp) % PcrMod
    IN  IF up < down THEN up ELSE -down

Beyond(delta, limit) == delta > limit \/ -delta > limit

\* Mutant: the prediction may fold.
ForwardFolds(base, prev) == base

\* The guard against a fold of the prediction: it never goes back.
Forward(base, prev) == IF base < prev THEN prev ELSE base

\* vqec_nll_update_error: the correction, and the average after it.
Correction(err) == -((err * (AvgDiv - AvgMult)) \div (AvgDiv * SlewDiv))
CumError(n, e) == (n.err * AvgMult) \div AvgDiv + e
UpdateError(n, e) ==
    LET cum == CumError(n, e)
    IN  [corr |-> Correction(cum),
         err  |-> cum + Correction(cum) * (AvgDiv \div (AvgDiv - AvgMult))]

\* A sample while not tracking.  The one that starts the tracking keeps the
\* skew between the prediction and the receive time as the offset.
AdjustNonTracking(n, act, rtp, est, disc, now) ==
    LET delta == RtpDelta(n.pcr, rtp)
        raw == IF ~n.first THEN (IF act # 0 THEN act ELSE now)
               ELSE n.base + (IF disc \/ Beyond(delta, Threshold)
                              THEN est ELSE delta)
        base == Forward(raw, n.base)
        from == IF act # 0 THEN act ELSE base
        m == [n EXCEPT !.first = TRUE, !.base = base, !.pcr = rtp]
    IN  [pred |-> base,
         nll  |-> IF n.sw
                  THEN [m EXCEPT !.offset = base - from, !.base = from,
                                 !.lastAct = from, !.sw = FALSE,
                                 !.mode = "TRACKING"]
                  ELSE m]

\* Mutant: no arrival error is too large to be averaged.
AdjustTrackingNoReset(n, act, rtp, disc) ==
    LET delta == IF ~disc THEN RtpDelta(n.pcr, rtp)
                 ELSE IF act # 0 /\ n.lastAct # 0 THEN act - n.lastAct ELSE 0
        u == UpdateError(n, IF act = 0 THEN 0 ELSE n.base + delta - act)
        m == [n EXCEPT !.err = u.err,
                       !.base = Forward(n.base + delta + u.corr, n.base),
                       !.pcr = rtp, !.lastAct = act]
    IN  [pred |-> m.base + m.offset, nll |-> m]

\* A sample while tracking.  A jump of the receive time at a discontinuity,
\* or too large an error, starts again from the receive time.
AdjustTracking(n, act, rtp, disc) ==
    LET delta == IF ~disc THEN RtpDelta(n.pcr, rtp)
                 ELSE IF act # 0 /\ n.lastAct # 0 THEN act - n.lastAct ELSE 0
        arrival == n.base + delta
        e == IF act = 0 THEN 0 ELSE arrival - act
        reset == \/ disc /\ Beyond(delta, Threshold)
                 \/ Beyond(e, MaxArrivalErr - 1)
        u == UpdateError(n, e)
        raw == IF ~reset THEN arrival + u.corr
               ELSE IF act # 0 THEN act ELSE n.base
        m == [n EXCEPT !.err = IF reset THEN 0 ELSE u.err,
                       !.base = Forward(raw, n.base),
                       !.pcr = rtp, !.lastAct = act]
    IN  [pred |-> m.base + m.offset, nll |-> m]

\* vqec_nll_adjust
Adjust(n, act, rtp, est, disc, now) ==
    IF n.mode = "NONTRACKING"
    THEN AdjustNonTracking(n, act, rtp, est, disc, now)
    ELSE AdjustTracking(n, act, rtp, disc)
=============================================================================
