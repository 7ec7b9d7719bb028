------------------------------- MODULE Osched -------------------------------
(***************************************************************************)
(* The output scheduler of one channel (vqec_oscheduler.c) with its clock  *)
(* recovery (module Nll) and the fast fill of a rapid channel change.      *)
(*                                                                         *)
(* One packet at a time is pending; when its predicted time has come it is *)
(* sent and the next one, taken from the packet cache (module Pcm), gets   *)
(* its prediction.  While a fast fill lasts packets are sent at once, and  *)
(* the predictions only measure how much of the stream was played.         *)
(*                                                                         *)
(* The scheduler resets itself when the system time goes back, which it    *)
(* finds out by comparing with the time of the previous run: a variable    *)
(* that the schedulers of all channels share.                              *)
(***************************************************************************)
EXTENDS Nll

CONSTANTS
    ReorderDelay,  \* REORDER_DELAY
    DefaultDelay,  \* the jitter buffer's default_delay
    AppDelay,      \* app_cpy_delay of a replicated APP packet
    AvgPktTime,    \* avg_pkt_time
    MinBackfill,   \* min_backfill
    FillTimes,     \* fast fill times an APP can lead to
    MemOpt,        \* may max_fastfill be non-zero: a set of BOOLEANs
    DtRepairEnd,   \* dt_repair_end
    RtpStamps,     \* bound: the RTP timestamps that are tried
    MaxAge,        \* bound: how long a packet was in the cache
    MaxSeqGap,     \* bound: distance of consecutive packets' numbers
    OtherFirst,    \* BOOLEAN: may another channel's scheduler be the first to
                   \* run after the system time went back?
    MaxTime,       \* bound: the clock
    MaxJumps       \* bound: output resets and clock jumps

ASSUME OschedAssumption ==
    /\ {ReorderDelay, DefaultDelay, AppDelay, AvgPktTime, MinBackfill,
        DtRepairEnd, MaxAge, MaxSeqGap, MaxTime, MaxJumps} \subseteq Nat
    /\ MaxTime > 0
    /\ RtpStamps \subseteq 0 .. PcrMod - 1
    /\ FillTimes \subseteq Nat /\ MemOpt \subseteq BOOLEAN
    /\ OtherFirst \in BOOLEAN

VARIABLES
    nll,           \* the clock recovery's state
    pred,          \* its latest prediction
    osched,        \* the scheduler, a record (see TypeOK)
    fill,          \* pcm->fast_fill_time and the burst's parameters
    now,           \* the system time, from 1
    prevTime,      \* static prev_time, 0 before the first run
    jumps,         \* output resets and clock jumps so far
    newest         \* history: the latest receive time while tracking

vars == <<nll, pred, osched, fill, now, prevTime, jumps, newest>>

\* The pending packet: when it is due, and the first one's receive time.
Free == [pred |-> 0, ts |-> 0]   \* no packet is pending

TypeOK ==
    /\ nll \in NllState /\ pred \in Nat
    /\ osched.state \in {"RCC_APP", "RCC_REPAIR", "NORMAL"}
    /\ osched.pend \in [pred : Nat, ts : 0 .. MaxTime]
    /\ osched.inTs \in 0 .. MaxTime
    /\ {osched.firstSent, osched.burstDone} \subseteq BOOLEAN
    /\ {osched.firstTs, osched.firstRcv, osched.lastPred} \subseteq Nat
    /\ fill \in [time : Nat, app : BOOLEAN, appTs : 0 .. MaxTime,
                 memopt : BOOLEAN, ended : BOOLEAN, aborted : BOOLEAN]
    /\ now \in 1 .. MaxTime /\ prevTime \in 0 .. MaxTime
    /\ jumps \in 0 .. MaxJumps /\ newest \in 0 .. MaxTime

\* vqec_dp_oscheduler_init
Init ==
    /\ nll = NllReset /\ pred = 0
    /\ osched = [state |-> "RCC_APP", pend |-> Free, inTs |-> 0,
                 firstSent |-> FALSE, firstTs |-> 0, firstRcv |-> 0,
                 lastPred |-> 0, burstDone |-> FALSE]
    /\ fill = [time |-> 0, app |-> FALSE, appTs |-> 0, memopt |-> FALSE,
               ended |-> FALSE, aborted |-> FALSE]
    /\ now = 1 /\ prevTime = 0 /\ jumps = 0 /\ newest = 0

-----------------------------------------------------------------------------
(***************************************************************************)
(* Sending the pending packet.                                             *)
(***************************************************************************)
Sent(o) ==
    IF o.pend = Free THEN o
    ELSE [o EXCEPT !.pend = Free, !.firstSent = TRUE,
                   !.firstTs = IF o.firstSent THEN @
                               ELSE IF o.lastPred # 0 THEN o.lastPred
                               ELSE o.pend.pred,
                   !.firstRcv = IF o.firstSent THEN @ ELSE o.pend.ts]

\* vqec_dp_fastfill_played
Played(o, t) ==
    IF o.firstSent /\ t >= o.firstTs THEN t - o.firstTs ELSE 0

\* vqec_dp_oscheduler_is_rcc_burst_done
IsBurstDone(o) ==
    o.burstDone \/ (o.firstRcv # 0 /\ now >= o.firstRcv + DtRepairEnd)

\* Must the packet at the head wait?  For the burst, when bursts are memory
\* optimised; for a minimum in the jitter buffer, at the end of a fast fill;
\* for packets it may have overtaken, when it came in order.
\* "low": the cached packets play for less than the minimum.
MustWait(o, p, low) ==
    \/ /\ fill.memopt /\ p.type = "PRIMARY" /\ ~IsBurstDone(o)
       /\ Played(o, o.lastPred) <= fill.time \/ fill.ended
    \/ /\ IsBurstDone(o) /\ fill.time > 0
       /\ Played(o, o.lastPred) >= fill.time - MinBackfill
       /\ low
    \/ ~p.reordered /\ p.ts + ReorderDelay > now

-----------------------------------------------------------------------------
(***************************************************************************)
(* The prediction for a packet.  A packet is its type, receive time, RTP   *)
(* timestamp, whether it came out of order or after a discontinuity, the   *)
(* distance "gap" of its number from the previous packet's (0 when it is   *)
(* not above it) and the delay of an APP packet's copy.                    *)
(***************************************************************************)
\* The receive times of packets out of order, in the normal state after
\* vqec_dp_oscheduler_rx_interpolate: a time between those of the neighbours
\* in order, or the packet's own.
ReorderedTimes == {t \in 1 .. now : now - t <= MaxAge}

\* The receive times of a packet in order; one in the future is set to now.
InOrderTimes(o) ==
    IF o.inTs > now THEN {now}
    ELSE {t \in ReorderedTimes : t >= o.inTs}

\* What the cache can hand out.  Only primary packets come in order; the APP
\* packets were all made when the APP came, and precede the burst.  In the
\* normal state a repair is scheduled like a primary packet out of order, except
\* that it never waits for the burst: repairs stand for both.
AppPaks(o) ==
    {[type |-> "APP", ts |-> fill.appTs, rtp |-> 0, gap |-> 0,
      reordered |-> TRUE, disc |-> FALSE, delay |-> d] :
        d \in IF fill.app /\ o.state = "RCC_APP" THEN {0, AppDelay} ELSE {}}
PaksOf(type, reordered, times, gaps) ==
    [type : {type}, ts : times, rtp : RtpStamps, gap : gaps, delay : {0},
     reordered : {reordered}, disc : BOOLEAN]
InOrderPaks(o) == PaksOf("PRIMARY", FALSE, InOrderTimes(o), {0})
ReorderedPaks(o) == PaksOf("PRIMARY", TRUE, ReorderedTimes,
                           IF o.state = "NORMAL" THEN {} ELSE {0})
RepairPaks(o) == PaksOf("REPAIR", TRUE, ReorderedTimes,
                        IF o.state = "RCC_REPAIR" THEN 0 .. MaxSeqGap ELSE {0})

\* The progression of the session with a packet of this type.
NextState(s, type) ==
    CASE s = "NORMAL" -> "NORMAL"
      [] s # "NORMAL" /\ type = "REPAIR" -> "RCC_REPAIR"
      [] s = "RCC_APP" /\ type = "APP" -> "RCC_APP"
      [] OTHER -> "NORMAL"

\* The receive time the clock recovery gets to see.
ActualTime(o, p) ==
    IF o.state = "RCC_REPAIR" /\ p.type = "REPAIR" THEN 0 ELSE p.ts

\* The switch over the session's progression in vqec_dp_oscheduler_run.  A
\* transition forces a discontinuity; the one to normal starts the tracking.
Sample(o, p) ==
    LET s == NextState(o.state, p.type)
    IN  IF s = "RCC_APP" THEN [pred |-> p.ts, nll |-> nll]
        ELSE Adjust(IF s = "NORMAL" /\ o.state # s THEN SetTracking(nll)
                    ELSE nll,
                    ActualTime(o, p), p.rtp,
                    IF o.state = "RCC_REPAIR" /\ p.type = "REPAIR"
                    THEN AvgPktTime * p.gap ELSE 0,
                    p.disc \/ o.state # s, now)

\* One turn of the loop of vqec_dp_oscheduler_run: the pending packet, if it
\* is due, is sent, and packet p becomes the pending one.  With a fast fill
\* under way (vqec_dp_fastfill_dcr) p is due at once, and the fill ends when
\* the predictions say that enough was played: the clock recovery then starts
\* again from p.
Schedule(p, low) ==
    LET o == Sent(osched)
        x == Sample(o, p)
        filling == fill.time > 0
        over == filling /\ fill.time <= Played(o, x.pred)
        again == Adjust(NllReset, p.ts, p.rtp, 0, FALSE, now)
    IN  /\ ~MustWait(o, p, low)
        /\ osched' = [o EXCEPT
             !.state = NextState(@, p.type),
             !.inTs = IF NextState(o.state, p.type) = "NORMAL" /\ ~p.reordered
                      THEN p.ts ELSE @,
             !.lastPred = IF filling THEN x.pred ELSE @,
             !.pend = [ts |-> IF o.firstSent THEN 0 ELSE p.ts,
                       pred |-> (IF filling THEN p.ts ELSE x.pred)
                                + DefaultDelay + p.delay]]
        /\ fill' = IF over THEN [fill EXCEPT !.time = 0, !.ended = TRUE]
                   ELSE fill
        /\ nll' = IF over THEN again.nll ELSE x.nll
        /\ pred' = IF over THEN again.pred ELSE x.pred
        /\ newest' = IF nll'.mode # "TRACKING" THEN 0
                     ELSE IF p.ts > newest THEN p.ts ELSE newest

-----------------------------------------------------------------------------
\* vqec_dp_oscheduler_outp_reset
OutpReset(o, freePend) ==
    [o EXCEPT !.pend = IF freePend THEN Free ELSE @, !.inTs = 0,
              !.state = "RCC_APP"]

ResetOutput(o, freePend) ==
    /\ osched' = OutpReset(o, freePend)
    /\ nll' = NllReset /\ pred' = 0 /\ newest' = 0

\* vqec_dpchan_set_rcc_aborted, vqec_pcm_notify_rcc_abort
AbortedFill == [fill EXCEPT !.time = 0, !.aborted = TRUE]

\* Mutant: the time of the previous run is not looked at.
TimeWentBackNever == FALSE

\* Has the system time gone back since the previous run of any scheduler?
TimeWentBack == prevTime # 0 /\ now < prevTime

\* vqec_dp_oscheduler_run with a packet to schedule, with none that may be
\* scheduled, and when the time went back.
Run ==
    /\ ~TimeWentBack /\ prevTime' = now
    /\ osched.pend.pred <= now
    /\ \E low \in {FALSE, fill.time > 0} :
          \/ \E p \in AppPaks(osched) : Schedule(p, low)
          \/ \E p \in InOrderPaks(osched) : Schedule(p, low)
          \/ \E p \in ReorderedPaks(osched) : Schedule(p, low)
          \/ \E p \in RepairPaks(osched) : Schedule(p, low)
    /\ UNCHANGED <<now, jumps>>

RunIdle ==
    /\ ~TimeWentBack /\ prevTime' = now
    /\ osched' = IF osched.pend.pred <= now THEN Sent(osched) ELSE osched
    /\ UNCHANGED <<nll, pred, fill, now, jumps, newest>>

\* The cache is flushed, and the rapid channel change aborted unless it was.
RunBack ==
    /\ TimeWentBack /\ prevTime' = now
    /\ ResetOutput([osched EXCEPT !.burstDone = @ \/ ~fill.aborted], TRUE)
    /\ fill' = AbortedFill
    /\ UNCHANGED <<now, jumps>>

\* The packet cache ran empty (the pending packet stays), or is flushed.
PcmReset(freePend) ==
    /\ jumps < MaxJumps /\ jumps' = jumps + 1
    /\ ResetOutput(osched, freePend)
    /\ UNCHANGED <<fill, now, prevTime>>

\* Repairs are held until the APP and the primary stream is joined after it,
\* or after an abort: a channel that plays without either does not change
\* rapidly.
NothingPlayed == osched.pend = Free /\ ~osched.firstSent

\* vqec_dp_chan_process_app: the burst's parameters are known.
ProcessApp(t, memopt) ==
    /\ ~fill.app /\ ~fill.aborted
    /\ NothingPlayed
    /\ fill' = [fill EXCEPT !.time = t, !.memopt = memopt, !.app = TRUE,
                            !.appTs = now]
    /\ UNCHANGED <<nll, pred, osched, now, prevTime, jumps, newest>>

\* vqec_dp_oscheduler_rcc_burst_done_notify from the packet cache.
BurstDone ==
    /\ fill.app /\ ~osched.burstDone
    /\ osched' = [osched EXCEPT !.burstDone = TRUE]
    /\ UNCHANGED <<nll, pred, fill, now, prevTime, jumps, newest>>

\* vqec_dp_chan_abort_rcc, vqec_dpchan_rcc_abort_notify
AbortRcc ==
    /\ ~fill.aborted /\ (fill.app \/ NothingPlayed)
    /\ ResetOutput([osched EXCEPT !.burstDone = TRUE], TRUE)
    /\ fill' = AbortedFill
    /\ UNCHANGED <<now, prevTime, jumps>>

Tick ==
    /\ now < MaxTime /\ now' = now + 1
    /\ UNCHANGED <<nll, pred, osched, fill, prevTime, jumps, newest>>

ClockBack ==
    /\ jumps < MaxJumps /\ jumps' = jumps + 1
    /\ now' \in 1 .. now - 1
    /\ UNCHANGED <<nll, pred, osched, fill, prevTime, newest>>

\* The scheduler of another channel runs.
RunOther ==
    /\ OtherFirst \/ ~TimeWentBack
    /\ prevTime' = now
    /\ UNCHANGED <<nll, pred, osched, fill, now, jumps, newest>>

Next ==
    \/ Run \/ RunIdle \/ RunBack
    \/ \E f \in BOOLEAN : PcmReset(f)
    \/ \E t \in FillTimes, m \in MemOpt : ProcessApp(t, m)
    \/ BurstDone \/ AbortRcc
    \/ Tick \/ ClockBack \/ RunOther

Spec == Init /\ [][Next]_vars

-----------------------------------------------------------------------------
\* "Predicted time cannot move backwards without resetting the NLL"
\* (vqec_nll.h): over the change from the RTP timestamps to the receive times,
\* discontinuities, restarts from the receive time and corrections.
PredForward ==
    [][nll.first /\ nll'.first /\ fill'.ended = fill.ended => pred' >= pred]_vars

\* An arrival error and a correction.
Slack == MaxArrivalErr + MaxArrivalErr \div SlewDiv

\* While tracking the prediction stays near the latest receive time, however
\* the RTP timestamps jump and the error average swings: a packet is neither
\* held for long nor are packets sent in a heap.
TracksArrivals ==
    nll.mode = "TRACKING" =>
        /\ nll.base <= newest + Slack
        /\ newest <= nll.base + Slack

\* The first primary packet starts the tracking, and the session keeps it as
\* long as no fast fill ended: the drift against the sender's clock is then
\* corrected.
TracksWithoutFill ==
    osched.state = "NORMAL" /\ ~fill.ended => nll.mode = "TRACKING"

\* The output follows the sender's clock: it tracks when it should, and the base
\* of its predictions stays near the arrivals when it does.
Tracks == TracksArrivals /\ TracksWithoutFill

\* After a run, no packet is pending for a time farther away than the delay
\* of the jitter buffer, the arrival error and the lead that the burst gave the
\* predictions explain (none when they lag behind the arrivals): a system time
\* that goes back is noticed, since the predictions would otherwise stay where
\* the old time was.
Lead == IF nll.offset > 0 THEN nll.offset ELSE 0
NotHeldForOldTime ==
    prevTime = now /\ nll.mode = "TRACKING" /\ osched.pend # Free =>
        osched.pend.pred <= now + Lead + DefaultDelay + Slack
=============================================================================
