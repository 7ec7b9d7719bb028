------------------------------ MODULE CpRccProofs ------------------------------
(***************************************************************************)
(* Proofs about the control-plane RCC state machine, for any number of APP *)
(* packets and any set of configurations: its type invariant and all the   *)
(* safety invariants of module CpRcc that hold of it.                      *)
(***************************************************************************)
EXTENDS CpRcc, EventQProofs

-----------------------------------------------------------------------------
(***************************************************************************)
(* The inductive invariant.                                                *)
(***************************************************************************)

\* Before vqec_chan_destroy() is called.
Live == cpc \in {"bind", "bind_rapid", "bind_nat", "bind_slow", "idle", "app_valid"}

\* Where in a handler the queue can hold an event, and which one.
Phases ==
    /\ cstate = "INVALID" => ~CBusy /\ cpc \in {"bind", "destroy_final", "destroy_bye",
                                  "deinit_final", "deinit_bye", "shutdown", "freed"}
    /\ cpc \in {"bind", "destroy_final", "destroy_bye", "shutdown", "freed"} => ~CBusy
    /\ cpc = "bind" => cstate = "INVALID"
    /\ ipc = "process_app" => cpc = "idle" /\ ~CBusy
    /\ cpc \in {"deinit_final", "deinit_bye"} =>
          cp_abort /\ (CBusy => Current(cq) = "CHAN_DEINIT")

\* The APP timer exists only in WAIT_APP, where it runs unless the event that
\* ends the wait is being worked on, or the channel destroyed.
AppTimer ==
    /\ ctimer["app_timeout"] # "null" => cstate = "WAIT_APP"
    /\ cstate = "WAIT_APP" /\ Live =>
          \/ ctimer["app_timeout"] = "armed"
          \/ CBusy /\ Current(cq) \in {"RCC_START_TIMEOUT", "RCC_INTERNAL_ERR"}

\* A counted channel counts one until it is aborted or destroyed.  The abort
\* cannot come before it is counted, unless binding fails.
Counting ==
    /\ cpc = "bind" \/ (cpc = "bind_rapid" /\ ret_act) => ~cp_abort /\ rccs = 0 /\ ~counted
    /\ cpc = "bind_rapid" => "rcc" \in cfg /\ (CBusy /\ ret_act => cstate = "INIT")
    /\ counted => /\ "rcc" \in cfg
                  /\ rccs = IF Live /\ ~cp_abort THEN 1 ELSE 0

\* Each forgotten transition timer has been replaced on behalf of a later APP,
\* and a channel being destroyed has no others.
TimersAccounted ==
    /\ ctimer["mrb_transition_ev"] = "armed" \/ orphans > 0 => orphans < napps
    /\ ~Live => \A t \in CTimers : ctimer[t] = "null"

\* The event that sends the NAK-PLI says that both bindings are known.
BindingsKnown ==
    /\ CBusy /\ Current(cq) = "NAT_BINDING_COMPLETE" => nat_done = {"rtp", "rtcp"}
    /\ NakpliAfterNat

\* An aborted channel that has not been destroyed goes on as a slow change.
SlowAfterAbort ==
    /\ cstate = "ABORT" => cp_abort
    /\ cp_abort /\ Live => bye_sent /\ ~use_rcc_bw /\ ("er" \in cfg => er_poll_active)

CIInv == /\ CTypeOK /\ CNoAssertFails /\ CQueueInOrder /\ Phases /\ AppTimer
         /\ Counting /\ TimersAccounted /\ BindingsKnown /\ SlowAfterAbort

-----------------------------------------------------------------------------
(***************************************************************************)
(* What the queue operations of an action do.                              *)
(***************************************************************************)

\* With nothing on the queue and the machine initialized, the outermost
\* deliver_event() finds room and makes its event the current one.
LEMMA CDeliverQueue ==
    ASSUME CTypeOK, CQueueInOrder, CNoAssertFails, ~CBusy, cstate # "INVALID",
           NEW e \in CEvents, CDeliver(e)
    PROVE  /\ cq' \in QueueOf(CEvents) /\ RingConsistent(cq')
           /\ cq'.depth = 1 /\ Current(cq') = e
           /\ ~cfatal' /\ cfatal' \in BOOLEAN /\ ret_act' = TRUE
<1>1. /\ cq \in QueueOf(CEvents) /\ RingConsistent(cq) /\ ~cfatal
      /\ cq.depth = 0 /\ cq.idx \in Slot /\ cq.cur \in Slot
      /\ cq.slot \in [Slot -> CEvents \cup {NoEvent}]
  BY DEF CTypeOK, CQueueInOrder, CNoAssertFails, CBusy, QueueOf
<1>2. e # NoEvent
  BY DEF CEvents, NoEvent
<1>3. CanLease(cq) /\ RingConsistent(cq')
  BY <1>1, <1>2, RoomToLease, LeaseRing DEF CDeliver, MAX_EVENTQ_DEPTH
<1>4. cq.idx = cq.cur
  BY <1>1 DEF RingConsistent, Dist, Slot, MAX_EVENTQ_DEPTH
<1>5. /\ cq' \in QueueOf(CEvents) /\ cq'.depth = 1 /\ cq'.cur = cq.cur
      /\ cq'.slot = [cq.slot EXCEPT ![cq.idx] = e]
  BY <1>1, LeaseType DEF CDeliver
<1> QED
  BY <1>1, <1>3, <1>4, <1>5 DEF CDeliver, Current

\* A round of the loop leaves the queue empty, unless a routine of it has
\* failed, which there is room to report and which is then worked on next.
LEMMA CDoneQueue ==
    ASSUME CTypeOK, CQueueInOrder, CBusy, NEW ok \in BOOLEAN, CDone(ok)
    PROVE  /\ cq' \in QueueOf(CEvents) /\ RingConsistent(cq') /\ CanLease(cq)
           /\ cq'.depth = (IF ok THEN 0 ELSE 1)
           /\ ~ok => Current(cq') = "RCC_INTERNAL_ERR"
           /\ ret_act' \in BOOLEAN /\ ret_act' = (ret_act /\ ok)
<1> DEFINE e == IF ok THEN NoEvent ELSE "RCC_INTERNAL_ERR"
           r == LeaseIf(cq, ~ok, "RCC_INTERNAL_ERR")
<1>1. /\ cq \in QueueOf(CEvents) /\ RingConsistent(cq) /\ cq.depth = 1
      /\ cq.idx \in Slot /\ cq.cur \in Slot
      /\ cq.slot \in [Slot -> CEvents \cup {NoEvent}]
  BY DEF CTypeOK, CQueueInOrder, CBusy, QueueOf
<1>2. "RCC_INTERNAL_ERR" \in CEvents /\ "RCC_INTERNAL_ERR" # NoEvent
  BY DEF CEvents, NoEvent
<1>3. /\ r \in QueueOf(CEvents) /\ RingConsistent(r)
      /\ r.depth = 1 + (IF ok THEN 0 ELSE 1) /\ r.cur = cq.cur
      /\ ~ok => r.slot = [cq.slot EXCEPT ![cq.idx] = "RCC_INTERNAL_ERR"]
  <2>1. CASE ok
    BY <1>1, <2>1 DEF LeaseIf
  <2>2. CASE ~ok
    <3>1. r = Lease(cq, "RCC_INTERNAL_ERR")
      BY <2>2 DEF LeaseIf
    <3> QED
      BY <1>1, <1>2, <2>2, <3>1, LeaseType, LeaseRing DEF MAX_EVENTQ_DEPTH
  <2> QED
    BY <2>1, <2>2
<1>4. cq' = Release(r)
  BY DEF CDone
<1> HIDE DEF r
<1>5. /\ cq' \in QueueOf(CEvents) /\ RingConsistent(cq')
      /\ cq'.depth = r.depth - 1 /\ cq'.cur = NextSlot(r.cur)
      /\ cq'.slot = [r.slot EXCEPT ![r.cur] = NoEvent]
  BY <1>3, <1>4, ReleaseType, ReleaseRing
<1>6. ASSUME ~ok PROVE Current(cq') = "RCC_INTERNAL_ERR"
  <2>1. Dist(cq.cur, cq.idx) = 1
    BY <1>1 DEF RingConsistent, MAX_EVENTQ_DEPTH
  <2>2. cq.idx = NextSlot(cq.cur) /\ cq.idx # cq.cur
    BY <1>1, <2>1, WrapAround DEF Dist, Slot, MAX_EVENTQ_DEPTH
  <2>3. r.slot = [cq.slot EXCEPT ![cq.idx] = "RCC_INTERNAL_ERR"]
    BY <1>3, <1>6
  <2>4. r.slot[cq.idx] = "RCC_INTERNAL_ERR" /\ r.slot \in [Slot -> CEvents \cup {NoEvent}]
    BY <1>1, <1>2, <2>3
  <2> QED
    BY <1>1, <1>3, <1>5, <2>2, <2>4 DEF Current
<1>7. cq'.depth = IF ok THEN 0 ELSE 1
  BY <1>3, <1>5
<1>8. CanLease(cq)
  BY <1>1, RoomToLease DEF MAX_EVENTQ_DEPTH
<1>9. ret_act' \in BOOLEAN /\ ret_act' = (ret_act /\ ok)
  BY DEF CDone, CTypeOK
<1> QED
  BY <1>5, <1>6, <1>7, <1>8, <1>9

\* The transition functions, spelled out where the proof needs them.
LEMMA CTransitionWait ==
    /\ CTransition("WAIT_APP", "RCC_START_TIMEOUT") = "ABORT"
    /\ CTransition("WAIT_APP", "RCC_INTERNAL_ERR") = "ABORT"
  BY DEF CTransition, CFinal

\* The same for a round in which nothing fails.
LEMMA CDoneOkQueue ==
    ASSUME CTypeOK, CQueueInOrder, CBusy, CDone(TRUE)
    PROVE  /\ cq' \in QueueOf(CEvents) /\ RingConsistent(cq') /\ cq'.depth = 0
           /\ ret_act' = ret_act
<1>1. TRUE \in BOOLEAN
  OBVIOUS
<1>2. cq' \in QueueOf(CEvents) /\ RingConsistent(cq') /\ cq'.depth = 0
  BY <1>1, CDoneQueue
<1>3. ret_act' = ret_act
  BY DEF CDone, CTypeOK
<1> QED
  BY <1>2, <1>3

\* An action that does not call deliver_event().
LEMMA QueueLeftAlone ==
    ASSUME CTypeOK, CQueueInOrder, CNoAssertFails, UNCHANGED csm_vars
    PROVE  /\ cq' = cq /\ ret_act' = ret_act /\ cstate' = cstate
           /\ cq' \in QueueOf(CEvents) /\ RingConsistent(cq') /\ cq'.depth <= 1
           /\ ~cfatal' /\ cfatal' \in BOOLEAN
  BY DEF csm_vars, CTypeOK, CQueueInOrder, CNoAssertFails

-----------------------------------------------------------------------------
(***************************************************************************)
(* The invariant is inductive: one lemma per action.                       *)
(***************************************************************************)

LEMMA CStepNothingIInv ==
    ASSUME CIInv, CStepNothing
    PROVE  CIInv'
<1>1. CTypeOK /\ CNoAssertFails /\ CQueueInOrder
  BY DEF CIInv
<1>2. CDone(TRUE) /\ CBusy
  BY DEF CStepNothing
<1>3. /\ cq' \in QueueOf(CEvents)
      /\ RingConsistent(cq')
      /\ cq'.depth = 0
      /\ ret_act' = ret_act
  BY <1>1, <1>2, CDoneOkQueue
<1>4. ~cfatal' /\ cfatal' \in BOOLEAN
  BY <1>1 DEF CNoAssertFails, CTypeOK, CStepNothing
<1>5. CTypeOK'
  BY <1>1, <1>3 DEF CTypeOK, CStepNothing, app_vars, cch_vars
<1>6. Phases'
  BY <1>3 DEF CIInv, Phases, CBusy, CStepNothing, cch_vars
<1>7. AppTimer'
  BY CTransitionWait DEF CIInv, AppTimer, Live, CFinal, CStepNothing, cch_vars
<1>8. Counting'
  BY <1>3 DEF CIInv, Counting, Live, CStepNothing, cch_vars
<1>9. BindingsKnown'
  BY <1>3 DEF CIInv, BindingsKnown, NakpliAfterNat, CBusy, CStepNothing, cch_vars
<1>10. TimersAccounted' /\ SlowAfterAbort'
  BY DEF CIInv, TimersAccounted, SlowAfterAbort, Live, CStepNothing, app_vars,
    cch_vars
<1> QED
  BY <1>3, <1>4, <1>5, <1>6, <1>7, <1>8, <1>9, <1>10 DEF CIInv, CNoAssertFails,
    CQueueInOrder

LEMMA CStepSlowIInv ==
    ASSUME CIInv, CStepSlow
    PROVE  CIInv'
<1>1. CTypeOK /\ CNoAssertFails /\ CQueueInOrder
  BY DEF CIInv
<1>2. CDone(TRUE) /\ CBusy
  BY DEF CStepSlow, COn
<1>3. /\ cq' \in QueueOf(CEvents)
      /\ RingConsistent(cq')
      /\ cq'.depth = 0
      /\ ret_act' = ret_act
  BY <1>1, <1>2, CDoneOkQueue
<1>4. ~cfatal' /\ cfatal' \in BOOLEAN
  BY <1>1 DEF CNoAssertFails, CTypeOK, CStepSlow
<1>5. CTypeOK'
  BY <1>1, <1>3 DEF CTypeOK, CStates, CStepSlow, app_vars, cch_vars
<1>6. Phases'
  BY DEF CIInv, Phases, CStepSlow, COn
<1>7. AppTimer'
  BY DEF CIInv, AppTimer, CStepSlow, COn, cch_vars
<1>8. Counting'
  BY <1>3 DEF CIInv, Counting, Live, CBusy, CStepSlow, cch_vars
<1>9. BindingsKnown'
  BY <1>3 DEF CIInv, BindingsKnown, NakpliAfterNat, CBusy, CStepSlow, cch_vars
<1>10. SlowAfterAbort'
  BY DEF CIInv, SlowAfterAbort, Live, CStepSlow, cch_vars
<1>11. TimersAccounted'
  BY DEF CIInv, TimersAccounted, Live, CStepSlow, app_vars, cch_vars
<1> QED
  BY <1>3, <1>4, <1>5, <1>6, <1>7, <1>8, <1>9, <1>10, <1>11 DEF CIInv, CNoAssertFails,
    CQueueInOrder

LEMMA CStepRapidIInv ==
    ASSUME CIInv, NEW ok \in BOOLEAN, CStepRapid(ok)
    PROVE  CIInv'
<1>1. CTypeOK /\ CNoAssertFails /\ CQueueInOrder
  BY DEF CIInv
<1>2. CDone(ok) /\ CBusy
  BY DEF CStepRapid, COn
<1>3. /\ cq' \in QueueOf(CEvents) /\ RingConsistent(cq') /\ CanLease(cq)
      /\ cq'.depth = (IF ok THEN 0 ELSE 1)
      /\ ~ok => Current(cq') = "RCC_INTERNAL_ERR"
      /\ ret_act' \in BOOLEAN /\ ret_act' = (ret_act /\ ok)
  BY <1>1, <1>2, CDoneQueue
<1>4. ~cfatal' /\ cfatal' \in BOOLEAN
  BY <1>3 DEF CIInv, AppTimer, CNoAssertFails, CStepRapid, COn
<1>5. CTypeOK'
  BY <1>1, <1>3 DEF CTypeOK, CStates, CTimers, CStepRapid, app_vars
<1>6. Phases'
  BY DEF CIInv, Phases, CStepRapid, COn
<1>7. AppTimer'
  BY <1>3 DEF CIInv, CTypeOK, AppTimer, CBusy, CTimers, CStepRapid
<1>8. Counting'
  BY <1>3, <1>4 DEF CIInv, Counting, Live, CBusy, CStepRapid
<1>9. TimersAccounted'
  BY DEF CIInv, CTypeOK, TimersAccounted, Live, CPCs, Phases, CStepRapid, COn,
    app_vars
<1>10. BindingsKnown'
  BY <1>3 DEF CIInv, BindingsKnown, NakpliAfterNat, CBusy, CStepRapid
<1>11. SlowAfterAbort'
  BY DEF CIInv, SlowAfterAbort, Live, CStepRapid
<1> QED
  BY <1>3, <1>4, <1>5, <1>6, <1>7, <1>8, <1>9, <1>10, <1>11 DEF CIInv, CNoAssertFails,
    CQueueInOrder

LEMMA CStepNakpliIInv ==
    ASSUME CIInv, NEW ok \in BOOLEAN, CStepNakpli(ok)
    PROVE  CIInv'
<1>1. CTypeOK /\ CNoAssertFails /\ CQueueInOrder
  BY DEF CIInv
<1>2. CDone(ok) /\ CBusy
  BY DEF CStepNakpli, COn
<1>3. /\ cq' \in QueueOf(CEvents) /\ RingConsistent(cq') /\ CanLease(cq)
      /\ cq'.depth = (IF ok THEN 0 ELSE 1)
      /\ ~ok => Current(cq') = "RCC_INTERNAL_ERR"
      /\ ret_act' \in BOOLEAN /\ ret_act' = (ret_act /\ ok)
  BY <1>1, <1>2, CDoneQueue
<1>4. ~cfatal' /\ cfatal' \in BOOLEAN
  BY <1>3 DEF CIInv, CNoAssertFails, CStepNakpli
<1>5. CTypeOK'
  BY <1>1, <1>3 DEF CTypeOK, CStepNakpli, app_vars
<1>6. Phases'
  BY DEF CIInv, Phases, CStepNakpli, COn
<1>7. AppTimer'
  BY DEF CIInv, AppTimer, Live, CStepNakpli, COn
<1>8. Counting'
  BY <1>3 DEF CIInv, Counting, Live, CStepNakpli, COn
<1>9. BindingsKnown'
  BY DEF CIInv, BindingsKnown, NakpliAfterNat, CStepNakpli, COn
<1>10. TimersAccounted' /\ SlowAfterAbort'
  BY DEF CIInv, TimersAccounted, SlowAfterAbort, Live, CStepNakpli, app_vars
<1> QED
  BY <1>3, <1>4, <1>5, <1>6, <1>7, <1>8, <1>9, <1>10 DEF CIInv, CNoAssertFails,
    CQueueInOrder

LEMMA CStepValidAppIInv ==
    ASSUME CIInv, CStepValidApp
    PROVE  CIInv'
<1>1. CTypeOK /\ CNoAssertFails /\ CQueueInOrder
  BY DEF CIInv
<1>2. CDone(TRUE) /\ CBusy
  BY DEF CStepValidApp, COn
<1>3. /\ cq' \in QueueOf(CEvents)
      /\ RingConsistent(cq')
      /\ cq'.depth = 0
      /\ ret_act' = ret_act
  BY <1>1, <1>2, CDoneOkQueue
<1>4. ~cfatal' /\ cfatal' \in BOOLEAN
  BY <1>1 DEF CNoAssertFails, CTypeOK, CStepValidApp
<1>5. CTypeOK'
  BY <1>1, <1>3 DEF CTypeOK, CStates, CTimers, CStepValidApp, app_vars
<1>6. Phases'
  BY DEF CIInv, Phases, CStepValidApp, COn
<1>7. AppTimer'
  BY DEF CIInv, CTypeOK, AppTimer, CTimers, CStepValidApp
<1>8. Counting'
  BY <1>3 DEF CIInv, Counting, Live, CStepValidApp, COn
<1>9. TimersAccounted'
  BY DEF CIInv, TimersAccounted, Live, CStepValidApp, app_vars
<1>10. BindingsKnown'
  BY <1>3 DEF CIInv, BindingsKnown, NakpliAfterNat, CBusy, CStepValidApp
<1>11. SlowAfterAbort'
  BY DEF CIInv, SlowAfterAbort, Live, CStepValidApp
<1> QED
  BY <1>3, <1>4, <1>5, <1>6, <1>7, <1>8, <1>9, <1>10, <1>11 DEF CIInv, CNoAssertFails,
    CQueueInOrder

\* In the deinit phases the channel has been marked aborted before, so that the
\* abort is not counted again.
LEMMA CStepAbortIInv ==
    ASSUME CIInv, CStepAbort
    PROVE  CIInv'
<1>1. CTypeOK /\ CNoAssertFails /\ CQueueInOrder
  BY DEF CIInv
<1>2. CDone(TRUE) /\ CBusy
  BY DEF CStepAbort
<1>3. /\ cq' \in QueueOf(CEvents)
      /\ RingConsistent(cq')
      /\ cq'.depth = 0
      /\ ret_act' = ret_act
  BY <1>1, <1>2, CDoneOkQueue
<1>4. ~cfatal' /\ cfatal' \in BOOLEAN
  BY <1>1 DEF CNoAssertFails, CTypeOK, CStepAbort
<1>5. /\ cstate' \in CStates
      /\ ipc' \in {"none", "process_app", "abort_rcc", "destroy"}
      /\ ff' \in {"none", "started", "aborted", "done"}
      /\ ctimer' \in [CTimers -> {"null", "armed", "stopped"}]
      /\ rccs' \in Int
  BY <1>1 DEF CTypeOK, CStates, CStepAbort, AbortNotify, MrbTransition
<1>6. cp_abort' \in BOOLEAN /\ er_poll_active' \in BOOLEAN /\ use_rcc_bw' \in BOOLEAN
      /\ bye_sent' \in BOOLEAN
  BY <1>1 DEF CTypeOK, CStepAbort, AbortNotify, ErPollAfterEnable
<1>7. CTypeOK'
  BY <1>1, <1>3, <1>5, <1>6 DEF CTypeOK, CStepAbort
<1>8. Phases'
  BY <1>3 DEF CIInv, Phases, CBusy, CStepAbort, AbortNotify, MrbTransition
<1>9. AppTimer'
  BY DEF CIInv, CTypeOK, AppTimer, CTimers, CStepAbort, AbortNotify, MrbTransition
<1>10. Counting'
  BY <1>3 DEF CIInv, CTypeOK, Counting, Live, CPCs, Phases, CStepAbort, AbortNotify,
    MrbTransition
<1>11. TimersAccounted'
  BY DEF CIInv, CTypeOK, TimersAccounted, Live, CTimers, CStepAbort, AbortNotify,
    MrbTransition
<1>12. BindingsKnown'
  BY <1>3 DEF CIInv, BindingsKnown, NakpliAfterNat, CBusy, CStepAbort
<1>13. SlowAfterAbort'
  BY DEF CIInv, SlowAfterAbort, Live, CStepAbort, AbortNotify, ErPollAfterEnable
<1> QED
  BY <1>3, <1>4, <1>7, <1>8, <1>9, <1>10, <1>11, <1>12, <1>13 DEF CIInv,
    CNoAssertFails, CQueueInOrder

LEMMA BindFailIInv ==
    ASSUME CIInv, NEW graph \in BOOLEAN, BindFail(graph)
    PROVE  CIInv'
<1>1. CTypeOK /\ CNoAssertFails /\ CQueueInOrder
  BY DEF CIInv
<1>2. UNCHANGED csm_vars
  BY DEF BindFail
<1>3. /\ cq' = cq /\ ret_act' = ret_act /\ cstate' = cstate
      /\ cq' \in QueueOf(CEvents) /\ RingConsistent(cq') /\ cq'.depth <= 1
      /\ ~cfatal' /\ cfatal' \in BOOLEAN
  BY <1>1, <1>2, QueueLeftAlone
<1>4. /\ cpc' \in CPCs
      /\ ipc' \in {"none", "process_app", "abort_rcc", "destroy"}
      /\ ctimer' \in [CTimers -> {"null", "armed", "stopped"}]
      /\ rccs' \in Int
  BY <1>1 DEF CTypeOK, CPCs, BindFail, StartDestroy
<1>5. er_poll_active' \in BOOLEAN
  BY DEF BindFail, StartDestroy
<1>6. CTypeOK'
  BY <1>1, <1>3, <1>4, <1>5 DEF CTypeOK, BindFail, app_vars
<1>7. Phases'
  BY <1>3 DEF CIInv, Phases, CBusy, BindFail, StartDestroy
<1>8. AppTimer'
  BY DEF CIInv, AppTimer, Live, CTimers, BindFail, StartDestroy
<1>9. Counting'
  BY DEF CIInv, Counting, BindFail, StartDestroy
<1>10. TimersAccounted'
  BY DEF CIInv, TimersAccounted, CTimers, BindFail, StartDestroy, app_vars
<1>11. SlowAfterAbort'
  BY <1>3 DEF CIInv, SlowAfterAbort, Live, BindFail, StartDestroy
<1>12. BindingsKnown'
  BY <1>3 DEF CIInv, BindingsKnown, NakpliAfterNat, CBusy, BindFail
<1> QED
  BY <1>3, <1>6, <1>7, <1>8, <1>9, <1>10, <1>11, <1>12 DEF CIInv, CNoAssertFails,
    CQueueInOrder

LEMMA BindIInv ==
    ASSUME CIInv, Bind
    PROVE  CIInv'
<1>1. CTypeOK /\ CNoAssertFails /\ CQueueInOrder
  BY DEF CIInv
<1>2. cq.depth = 0 /\ cq.idx \in Slot /\ cq.cur \in Slot
      /\ cq \in QueueOf(CEvents) /\ RingConsistent(cq)
      /\ cq.slot \in [Slot -> CEvents \cup {NoEvent}]
  BY DEF CIInv, Phases, Bind, CTypeOK, CQueueInOrder, CBusy, QueueOf
<1> DEFINE e == IF "rcc" \in cfg THEN "RAPID_CHANNEL_CHANGE" ELSE "SLOW_CHANNEL_CHANGE"
<1>3. e \in CEvents /\ e # NoEvent /\ cq' = Lease(cq, e) /\ e # "NAT_BINDING_COMPLETE"
  BY DEF Bind, CEvents, NoEvent
<1> HIDE DEF e
<1>4. /\ cq' \in QueueOf(CEvents) /\ cq'.depth = 1 /\ cq'.cur = cq.cur
      /\ cq'.slot = [cq.slot EXCEPT ![cq.idx] = e]
  BY <1>2, <1>3, LeaseType
<1>5. RingConsistent(cq')
  BY <1>2, <1>3, LeaseRing DEF MAX_EVENTQ_DEPTH
<1>6. cq.idx = cq.cur
  BY <1>2 DEF RingConsistent, Dist, Slot, MAX_EVENTQ_DEPTH
<1>7. /\ cq' \in QueueOf(CEvents) /\ RingConsistent(cq') /\ cq'.depth = 1
      /\ Current(cq') # "NAT_BINDING_COMPLETE" /\ ret_act' = TRUE
  BY <1>2, <1>3, <1>4, <1>5, <1>6 DEF Current, Bind
<1>8. ~cfatal' /\ cfatal' \in BOOLEAN
  BY <1>1 DEF CNoAssertFails, CTypeOK, Bind
<1>9. CTypeOK'
  BY <1>1, <1>7 DEF CTypeOK, CStates, CPCs, Bind, app_vars, cch_vars
<1>10. Phases'
  BY DEF CIInv, Phases, Bind
<1>11. AppTimer'
  BY DEF CIInv, AppTimer, Phases, Bind, cch_vars
<1>12. Counting'
  BY DEF CIInv, Counting, Bind, cch_vars
<1>13. TimersAccounted'
  BY DEF CIInv, TimersAccounted, Live, Bind, app_vars, cch_vars
<1>14. BindingsKnown'
  BY <1>7 DEF CIInv, BindingsKnown, NakpliAfterNat, Bind, cch_vars
<1>15. SlowAfterAbort'
  BY DEF CIInv, SlowAfterAbort, Live, Bind, cch_vars
<1> QED
  BY <1>7, <1>8, <1>9, <1>10, <1>11, <1>12, <1>13, <1>14, <1>15 DEF CIInv, CNoAssertFails,
    CQueueInOrder

LEMMA BindUndoIInv ==
    ASSUME CIInv, BindUndo
    PROVE  CIInv'
<1>1. CTypeOK /\ CNoAssertFails /\ CQueueInOrder
  BY DEF CIInv
<1>2. UNCHANGED csm_vars
  BY DEF BindUndo
<1>3. /\ cq' = cq /\ ret_act' = ret_act /\ cstate' = cstate
      /\ cq' \in QueueOf(CEvents) /\ RingConsistent(cq') /\ cq'.depth <= 1
      /\ ~cfatal' /\ cfatal' \in BOOLEAN
  BY <1>1, <1>2, QueueLeftAlone
<1>4. /\ cpc' \in CPCs
      /\ ipc' \in {"none", "process_app", "abort_rcc", "destroy"}
      /\ ctimer' \in [CTimers -> {"null", "armed", "stopped"}]
      /\ rccs' \in Int
  BY <1>1 DEF CTypeOK, CPCs, BindUndo, StartDestroy
<1>5. er_poll_active' \in BOOLEAN
  BY DEF BindUndo, StartDestroy
<1>6. CTypeOK'
  BY <1>1, <1>3, <1>4, <1>5 DEF CTypeOK, BindUndo, app_vars
<1>7. Phases'
  BY <1>3 DEF CIInv, Phases, CBusy, BindUndo, StartDestroy
<1>8. AppTimer'
  BY DEF CIInv, AppTimer, Live, CTimers, BindUndo, StartDestroy
<1>9. Counting'
  BY DEF CIInv, Counting, Live, BindUndo, StartDestroy
<1>10. TimersAccounted'
  BY DEF CIInv, TimersAccounted, CTimers, BindUndo, StartDestroy, app_vars
<1>11. SlowAfterAbort'
  BY <1>3 DEF CIInv, SlowAfterAbort, Live, BindUndo, StartDestroy
<1>12. BindingsKnown'
  BY <1>3 DEF CIInv, BindingsKnown, NakpliAfterNat, CBusy, BindUndo
<1> QED
  BY <1>3, <1>6, <1>7, <1>8, <1>9, <1>10, <1>11, <1>12 DEF CIInv, CNoAssertFails,
    CQueueInOrder

LEMMA BindRapidIInv ==
    ASSUME CIInv, BindRapid
    PROVE  CIInv'
<1>1. CTypeOK /\ CNoAssertFails /\ CQueueInOrder
  BY DEF CIInv
<1>2. /\ cq' \in QueueOf(CEvents) /\ RingConsistent(cq') /\ cq'.depth <= 1
      /\ ~cfatal' /\ cfatal' \in BOOLEAN /\ ret_act' \in BOOLEAN
      /\ cq'.depth > 0 => "nat" \notin cfg /\ Current(cq') = "NAT_BINDING_COMPLETE"
      /\ ret_act => ret_act'
  <2>1. CASE "nat" \notin cfg
    <3>1. /\ "NAT_BINDING_COMPLETE" \in CEvents
          /\ CDeliver("NAT_BINDING_COMPLETE")
          /\ ~CBusy
          /\ cstate # "INVALID"
      BY <2>1 DEF BindRapid, CEvents, CIInv, Phases
    <3>2. /\ cq' \in QueueOf(CEvents) /\ RingConsistent(cq') /\ cq'.depth = 1
          /\ ~cfatal'
          /\ cfatal' \in BOOLEAN
          /\ ret_act' = TRUE
          /\ Current(cq') = "NAT_BINDING_COMPLETE"
      BY <1>1, <3>1, CDeliverQueue
    <3> QED
      BY <2>1, <3>2
  <2>2. CASE "nat" \in cfg
    <3>1. UNCHANGED csm_vars /\ ~CBusy
      BY <2>2 DEF BindRapid, csm_vars
    <3>2. /\ cq' = cq /\ ret_act' = ret_act
          /\ cq' \in QueueOf(CEvents) /\ RingConsistent(cq') /\ cq'.depth <= 1
          /\ ~cfatal' /\ cfatal' \in BOOLEAN
      BY <1>1, <3>1, QueueLeftAlone
    <3>3. ret_act' \in BOOLEAN /\ ~(cq'.depth > 0)
      BY <1>1, <3>1, <3>2 DEF CTypeOK, CBusy
    <3> QED
      BY <3>2, <3>3
  <2> QED
    BY <2>1, <2>2
<1>3. cpc' \in CPCs
  BY DEF BindRapid, CPCs
<1>4. rccs' \in Int
  BY <1>1 DEF CTypeOK, BindRapid
<1>5. nat_done' \subseteq {"rtp", "rtcp"}
  BY <1>1 DEF CTypeOK, BindRapid
<1>6. counted' \in BOOLEAN
  BY DEF BindRapid
<1>7. CTypeOK'
  BY <1>1, <1>2, <1>3, <1>4, <1>5, <1>6 DEF CTypeOK, BindRapid, app_vars
<1>8. Phases'
  BY DEF CIInv, Phases, BindRapid
<1>9. AppTimer'
  BY DEF CIInv, AppTimer, Live, BindRapid
<1>10. Counting'
  BY <1>2 DEF CIInv, Counting, Live, BindRapid
<1>11. TimersAccounted'
  BY DEF CIInv, TimersAccounted, Live, BindRapid, app_vars
<1>12. BindingsKnown'
  BY DEF CIInv, BindingsKnown, NakpliAfterNat, CBusy, BindRapid
<1>13. SlowAfterAbort'
  BY DEF CIInv, SlowAfterAbort, Live, BindRapid
<1> QED
  BY <1>2, <1>7, <1>8, <1>9, <1>10, <1>11, <1>12, <1>13 DEF CIInv, CNoAssertFails,
    CQueueInOrder

LEMMA BindEndIInv ==
    ASSUME CIInv, BindEnd
    PROVE  CIInv'
<1>1. CTypeOK /\ CNoAssertFails /\ CQueueInOrder
  BY DEF CIInv
<1>2. UNCHANGED csm_vars
  BY DEF BindEnd
<1>3. /\ cq' = cq /\ ret_act' = ret_act /\ cstate' = cstate
      /\ cq' \in QueueOf(CEvents) /\ RingConsistent(cq') /\ cq'.depth <= 1
      /\ ~cfatal' /\ cfatal' \in BOOLEAN
  BY <1>1, <1>2, QueueLeftAlone
<1>4. CTypeOK'
  BY <1>1, <1>3 DEF CTypeOK, CPCs, ErPollAfterEnable, BindEnd, app_vars
<1>5. Phases'
  BY <1>3 DEF CIInv, Phases, BindEnd
<1>6. AppTimer'
  BY <1>3 DEF CIInv, AppTimer, Live, BindEnd
<1>7. Counting'
  BY DEF CIInv, Counting, Live, BindEnd
<1>8. TimersAccounted'
  BY DEF CIInv, TimersAccounted, Live, BindEnd, app_vars
<1>9. SlowAfterAbort'
  BY <1>3 DEF CIInv, SlowAfterAbort, Live, BindEnd, ErPollAfterEnable
<1>10. BindingsKnown'
  BY <1>3 DEF CIInv, BindingsKnown, NakpliAfterNat, CBusy, BindEnd
<1> QED
  BY <1>3, <1>4, <1>5, <1>6, <1>7, <1>8, <1>9, <1>10 DEF CIInv, CNoAssertFails,
    CQueueInOrder

LEMMA UnbindIInv ==
    ASSUME CIInv, NEW final \in BOOLEAN, Unbind(final)
    PROVE  CIInv'
<1>1. CTypeOK /\ CNoAssertFails /\ CQueueInOrder
  BY DEF CIInv
<1>2. UNCHANGED csm_vars
  BY DEF Unbind
<1>3. /\ cq' = cq /\ ret_act' = ret_act /\ cstate' = cstate
      /\ cq' \in QueueOf(CEvents) /\ RingConsistent(cq') /\ cq'.depth <= 1
      /\ ~cfatal' /\ cfatal' \in BOOLEAN
  BY <1>1, <1>2, QueueLeftAlone
<1>4. /\ cpc' \in CPCs
      /\ ipc' \in {"none", "process_app", "abort_rcc", "destroy"}
      /\ ctimer' \in [CTimers -> {"null", "armed", "stopped"}]
      /\ rccs' \in Int
  BY <1>1 DEF CTypeOK, CPCs, Unbind, StartDestroy
<1>5. er_poll_active' \in BOOLEAN
  BY DEF Unbind, StartDestroy
<1>6. CTypeOK'
  BY <1>1, <1>3, <1>4, <1>5 DEF CTypeOK, Unbind, app_vars
<1>7. Phases'
  BY <1>3 DEF CIInv, Phases, CBusy, Unbind, StartDestroy, CIdle
<1>8. AppTimer'
  BY DEF CIInv, AppTimer, Live, CTimers, Unbind, StartDestroy
<1>9. Counting'
  BY DEF CIInv, Counting, Live, Unbind, StartDestroy, CIdle
<1>10. TimersAccounted'
  BY DEF CIInv, TimersAccounted, CTimers, Unbind, StartDestroy, app_vars
<1>11. SlowAfterAbort'
  BY <1>3 DEF CIInv, SlowAfterAbort, Live, Unbind, StartDestroy
<1>12. BindingsKnown'
  BY <1>3 DEF CIInv, BindingsKnown, NakpliAfterNat, CBusy, Unbind
<1> QED
  BY <1>3, <1>6, <1>7, <1>8, <1>9, <1>10, <1>11, <1>12 DEF CIInv, CNoAssertFails,
    CQueueInOrder

LEMMA DeinitSmIInv ==
    ASSUME CIInv, DeinitSm
    PROVE  CIInv'
<1>1. CTypeOK /\ CNoAssertFails /\ CQueueInOrder
  BY DEF CIInv
<1>2. /\ cq' \in QueueOf(CEvents) /\ RingConsistent(cq') /\ cq'.depth <= 1
      /\ ~cfatal' /\ cfatal' \in BOOLEAN /\ ret_act' \in BOOLEAN
      /\ cq'.depth > 0 => cstate # "INVALID" /\ Current(cq') = "CHAN_DEINIT"
      /\ ret_act => ret_act'
  <2>1. CASE cstate # "INVALID"
    <3>1. /\ "CHAN_DEINIT" \in CEvents
          /\ CDeliver("CHAN_DEINIT")
          /\ ~CBusy
          /\ cstate # "INVALID"
      BY <2>1 DEF DeinitSm, CEvents, CIInv
    <3>2. /\ cq' \in QueueOf(CEvents) /\ RingConsistent(cq') /\ cq'.depth = 1
          /\ ~cfatal'
          /\ cfatal' \in BOOLEAN
          /\ ret_act' = TRUE
          /\ Current(cq') = "CHAN_DEINIT"
      BY <1>1, <3>1, CDeliverQueue
    <3> QED
      BY <2>1, <3>2
  <2>2. CASE cstate = "INVALID"
    <3>1. UNCHANGED csm_vars /\ ~CBusy
      BY <2>2 DEF DeinitSm, csm_vars
    <3>2. /\ cq' = cq /\ ret_act' = ret_act
          /\ cq' \in QueueOf(CEvents) /\ RingConsistent(cq') /\ cq'.depth <= 1
          /\ ~cfatal' /\ cfatal' \in BOOLEAN
      BY <1>1, <3>1, QueueLeftAlone
    <3>3. ret_act' \in BOOLEAN /\ ~(cq'.depth > 0)
      BY <1>1, <3>1, <3>2 DEF CTypeOK, CBusy
    <3> QED
      BY <3>2, <3>3
  <2> QED
    BY <2>1, <2>2
<1>3. CTypeOK'
  BY <1>1, <1>2 DEF CTypeOK, CPCs, DeinitSm, app_vars
<1>4. Phases'
  BY <1>2 DEF CIInv, Phases, CBusy, DeinitSm
<1>5. AppTimer'
  BY DEF CIInv, AppTimer, Live, DeinitSm
<1>6. Counting'
  BY DEF CIInv, Counting, Live, DeinitSm
<1>7. TimersAccounted'
  BY DEF CIInv, TimersAccounted, Live, DeinitSm, app_vars
<1>8. BindingsKnown'
  BY <1>2 DEF CIInv, BindingsKnown, NakpliAfterNat, CBusy, DeinitSm
<1>9. SlowAfterAbort'
  BY DEF CIInv, SlowAfterAbort, Live, DeinitSm
<1> QED
  BY <1>2, <1>3, <1>4, <1>5, <1>6, <1>7, <1>8, <1>9 DEF CIInv, CNoAssertFails,
    CQueueInOrder

LEMMA DestroyChanIInv ==
    ASSUME CIInv, NEW byes \in BOOLEAN, DestroyChan(byes)
    PROVE  CIInv'
<1>1. CTypeOK /\ CNoAssertFails /\ CQueueInOrder
  BY DEF CIInv
<1>2. UNCHANGED csm_vars
  BY DEF DestroyChan
<1>3. /\ cq' = cq /\ ret_act' = ret_act /\ cstate' = cstate
      /\ cq' \in QueueOf(CEvents) /\ RingConsistent(cq') /\ cq'.depth <= 1
      /\ ~cfatal' /\ cfatal' \in BOOLEAN
  BY <1>1, <1>2, QueueLeftAlone
<1>4. CTypeOK'
  BY <1>1, <1>3 DEF CTypeOK, CPCs, DestroyChan, app_vars, cch_vars
<1>5. Phases'
  BY <1>3 DEF CIInv, Phases, CBusy, DestroyChan
<1>6. AppTimer'
  BY <1>3 DEF CIInv, AppTimer, Live, DestroyChan, cch_vars
<1>7. Counting'
  BY DEF CIInv, Counting, Live, DestroyChan, cch_vars
<1>8. TimersAccounted'
  BY DEF CIInv, TimersAccounted, Live, DestroyChan, app_vars, cch_vars
<1>9. SlowAfterAbort'
  BY <1>3 DEF CIInv, SlowAfterAbort, Live, DestroyChan, cch_vars
<1>10. BindingsKnown'
  BY <1>3 DEF CIInv, BindingsKnown, NakpliAfterNat, CBusy, DestroyChan, cch_vars
<1> QED
  BY <1>3, <1>4, <1>5, <1>6, <1>7, <1>8, <1>9, <1>10 DEF CIInv, CNoAssertFails,
    CQueueInOrder

LEMMA DeinitFinalIInv ==
    ASSUME CIInv, DeinitFinal
    PROVE  CIInv'
<1>1. CTypeOK /\ CNoAssertFails /\ CQueueInOrder
  BY DEF CIInv
<1>2. UNCHANGED csm_vars
  BY DEF DeinitFinal
<1>3. /\ cq' = cq /\ ret_act' = ret_act /\ cstate' = cstate
      /\ cq' \in QueueOf(CEvents) /\ RingConsistent(cq') /\ cq'.depth <= 1
      /\ ~cfatal' /\ cfatal' \in BOOLEAN
  BY <1>1, <1>2, QueueLeftAlone
<1>4. CTypeOK'
  BY <1>1, <1>3 DEF CTypeOK, CPCs, DeinitFinal, app_vars, cch_vars
<1>5. Phases'
  BY <1>3 DEF CIInv, Phases, CBusy, DeinitFinal
<1>6. AppTimer'
  BY <1>3 DEF CIInv, AppTimer, Live, DeinitFinal, cch_vars
<1>7. Counting'
  BY DEF CIInv, Counting, Live, DeinitFinal, cch_vars
<1>8. TimersAccounted'
  BY DEF CIInv, TimersAccounted, Live, DeinitFinal, app_vars, cch_vars
<1>9. SlowAfterAbort'
  BY <1>3 DEF CIInv, SlowAfterAbort, Live, DeinitFinal, cch_vars
<1>10. BindingsKnown'
  BY <1>3 DEF CIInv, BindingsKnown, NakpliAfterNat, CBusy, DeinitFinal, cch_vars
<1> QED
  BY <1>3, <1>4, <1>5, <1>6, <1>7, <1>8, <1>9, <1>10 DEF CIInv, CNoAssertFails,
    CQueueInOrder

LEMMA AppTimeoutIInv ==
    ASSUME CIInv, AppTimeout
    PROVE  CIInv'
<1>1. CTypeOK /\ CNoAssertFails /\ CQueueInOrder
  BY DEF CIInv
<1>2. /\ "RCC_START_TIMEOUT" \in CEvents
      /\ CDeliver("RCC_START_TIMEOUT")
      /\ ~CBusy
      /\ cstate # "INVALID"
  BY DEF AppTimeout, CIdle, CEvents, CIInv, Phases
<1>3. /\ cq' \in QueueOf(CEvents) /\ RingConsistent(cq')
      /\ cq'.depth = 1 /\ Current(cq') = "RCC_START_TIMEOUT"
      /\ ~cfatal' /\ cfatal' \in BOOLEAN /\ ret_act' = TRUE
  BY <1>1, <1>2, CDeliverQueue
<1>4. CTypeOK'
  BY <1>1, <1>3 DEF CTypeOK, AppTimeout, app_vars
<1>5. Phases'
  BY DEF CIInv, Phases, Running, AppTimeout, CIdle
<1>6. AppTimer'
  BY <1>3 DEF CIInv, AppTimer, CBusy, AppTimeout
<1>7. Counting'
  BY DEF CIInv, Counting, Live, AppTimeout, CIdle
<1>8. TimersAccounted'
  BY DEF CIInv, TimersAccounted, Live, AppTimeout, app_vars
<1>9. BindingsKnown'
  BY <1>3 DEF CIInv, BindingsKnown, NakpliAfterNat, AppTimeout
<1>10. SlowAfterAbort'
  BY DEF CIInv, SlowAfterAbort, Live, AppTimeout
<1> QED
  BY <1>3, <1>4, <1>5, <1>6, <1>7, <1>8, <1>9, <1>10 DEF CIInv, CNoAssertFails,
    CQueueInOrder

LEMMA ErFastTimeoutIInv ==
    ASSUME CIInv, ErFastTimeout
    PROVE  CIInv'
<1>1. CTypeOK /\ CNoAssertFails /\ CQueueInOrder
  BY DEF CIInv
<1>2. UNCHANGED csm_vars
  BY DEF ErFastTimeout
<1>3. /\ cq' = cq /\ ret_act' = ret_act /\ cstate' = cstate
      /\ cq' \in QueueOf(CEvents) /\ RingConsistent(cq') /\ cq'.depth <= 1
      /\ ~cfatal' /\ cfatal' \in BOOLEAN
  BY <1>1, <1>2, QueueLeftAlone
<1>4. CTypeOK'
  BY <1>1, <1>3 DEF CTypeOK, ErPollAfterEnable, ErFastTimeout, app_vars
<1>5. AppTimer'
  BY <1>3 DEF CIInv, AppTimer, Live, ErFastTimeout, CIdle
<1>6. TimersAccounted'
  BY DEF CIInv, TimersAccounted, Live, ErFastTimeout, app_vars
<1>7. SlowAfterAbort'
  BY <1>3 DEF CIInv, SlowAfterAbort, Live, ErFastTimeout, ErPollAfterEnable
<1>8. Phases' /\ Counting' /\ BindingsKnown'
  BY <1>3 DEF CIInv, Phases, Counting, BindingsKnown, CBusy, Live, NakpliAfterNat,
    ErFastTimeout
<1> QED
  BY <1>3, <1>4, <1>5, <1>6, <1>7, <1>8 DEF CIInv, CNoAssertFails, CQueueInOrder

LEMMA MrbTimeoutIInv ==
    ASSUME CIInv, MrbTimeout
    PROVE  CIInv'
<1>1. CTypeOK /\ CNoAssertFails /\ CQueueInOrder
  BY DEF CIInv
<1>2. UNCHANGED csm_vars
  BY DEF MrbTimeout
<1>3. /\ cq' = cq /\ ret_act' = ret_act /\ cstate' = cstate
      /\ cq' \in QueueOf(CEvents) /\ RingConsistent(cq') /\ cq'.depth <= 1
      /\ ~cfatal' /\ cfatal' \in BOOLEAN
  BY <1>1, <1>2, QueueLeftAlone
<1>4. /\ ctimer' \in [CTimers -> {"null", "armed", "stopped"}]
      /\ orphans' \in 0 .. MaxRcvApps
  BY <1>1, CpAssumption DEF CTypeOK, MrbTimeout
<1>5. use_rcc_bw' \in BOOLEAN
  BY DEF MrbTimeout
<1>6. CTypeOK'
  BY <1>1, <1>3, <1>4 DEF CTypeOK, MrbTimeout, app_vars
<1>7. AppTimer'
  BY <1>3 DEF CIInv, CTypeOK, AppTimer, Live, CTimers, MrbTimeout, CIdle
<1>8. TimersAccounted'
  BY DEF CIInv, CTypeOK, TimersAccounted, Live, MrbTimeout, app_vars
<1>9. SlowAfterAbort'
  BY <1>3 DEF CIInv, SlowAfterAbort, Live, MrbTimeout
<1>10. Phases' /\ Counting' /\ BindingsKnown'
  BY <1>3 DEF CIInv, Phases, Counting, BindingsKnown, CBusy, Live, NakpliAfterNat,
    MrbTimeout
<1> QED
  BY <1>3, <1>6, <1>7, <1>8, <1>9, <1>10 DEF CIInv, CNoAssertFails, CQueueInOrder

LEMMA NatBindUpdateIInv ==
    ASSUME CIInv, NEW b \in {"rtp", "rtcp"}, NatBindUpdate(b)
    PROVE  CIInv'
<1>1. CTypeOK /\ CNoAssertFails /\ CQueueInOrder
  BY DEF CIInv
<1>2. /\ cq' \in QueueOf(CEvents) /\ RingConsistent(cq') /\ cq'.depth <= 1
      /\ ~cfatal' /\ cfatal' \in BOOLEAN /\ ret_act' \in BOOLEAN
      /\ cq'.depth > 0 =>
            nat_done' = {"rtp", "rtcp"} /\ Current(cq') = "NAT_BINDING_COMPLETE"
      /\ ret_act => ret_act'
  <2>1. CASE nat_done' = {"rtp", "rtcp"}
    <3>1. /\ "NAT_BINDING_COMPLETE" \in CEvents
          /\ CDeliver("NAT_BINDING_COMPLETE")
          /\ ~CBusy
          /\ cstate # "INVALID"
      BY <2>1 DEF NatBindUpdate, CIdle, CEvents, CIInv, Phases
    <3>2. /\ cq' \in QueueOf(CEvents) /\ RingConsistent(cq') /\ cq'.depth = 1
          /\ ~cfatal'
          /\ cfatal' \in BOOLEAN
          /\ ret_act' = TRUE
          /\ Current(cq') = "NAT_BINDING_COMPLETE"
      BY <1>1, <3>1, CDeliverQueue
    <3> QED
      BY <2>1, <3>2
  <2>2. CASE nat_done' # {"rtp", "rtcp"}
    <3>1. UNCHANGED csm_vars /\ ~CBusy
      BY <2>2 DEF NatBindUpdate, CIdle, csm_vars
    <3>2. /\ cq' = cq /\ ret_act' = ret_act
          /\ cq' \in QueueOf(CEvents) /\ RingConsistent(cq') /\ cq'.depth <= 1
          /\ ~cfatal' /\ cfatal' \in BOOLEAN
      BY <1>1, <3>1, QueueLeftAlone
    <3>3. ret_act' \in BOOLEAN /\ ~(cq'.depth > 0)
      BY <1>1, <3>1, <3>2 DEF CTypeOK, CBusy
    <3> QED
      BY <3>2, <3>3
  <2> QED
    BY <2>1, <2>2
<1>3. CTypeOK'
  BY <1>1, <1>2 DEF CTypeOK, NatBindUpdate, app_vars
<1>4. Phases'
  BY DEF CIInv, Phases, Running, NatBindUpdate, CIdle
<1>5. AppTimer'
  BY DEF CIInv, AppTimer, Live, NatBindUpdate, CIdle
<1>6. Counting'
  BY DEF CIInv, Counting, Live, NatBindUpdate, CIdle
<1>7. BindingsKnown'
  BY DEF CIInv, BindingsKnown, NakpliAfterNat, CBusy, NatBindUpdate
<1>8. TimersAccounted' /\ SlowAfterAbort'
  BY DEF CIInv, TimersAccounted, SlowAfterAbort, Live, NatBindUpdate, app_vars
<1> QED
  BY <1>2, <1>3, <1>4, <1>5, <1>6, <1>7, <1>8 DEF CIInv, CNoAssertFails, CQueueInOrder

LEMMA RcvBadAppIInv ==
    ASSUME CIInv, NEW e \in BadApp, RcvBadApp(e)
    PROVE  CIInv'
<1>1. CTypeOK /\ CNoAssertFails /\ CQueueInOrder
  BY DEF CIInv
<1>2. e \in CEvents /\ CDeliver(e) /\ ~CBusy /\ cstate # "INVALID"
  BY DEF RcvBadApp, CIdle, BadApp, CEvents, CIInv, Phases
<1>3. /\ cq' \in QueueOf(CEvents) /\ RingConsistent(cq')
      /\ cq'.depth = 1 /\ Current(cq') = e
      /\ ~cfatal' /\ cfatal' \in BOOLEAN /\ ret_act' = TRUE
  BY <1>1, <1>2, CDeliverQueue
<1>4. CTypeOK'
  BY <1>1, CpAssumption, <1>3 DEF CTypeOK, RcvBadApp, cch_vars
<1>5. Phases'
  BY DEF CIInv, Phases, Running, RcvBadApp, CIdle
<1>6. AppTimer'
  BY DEF CIInv, AppTimer, Live, RcvBadApp, CIdle, cch_vars
<1>7. Counting'
  BY DEF CIInv, Counting, Live, RcvBadApp, CIdle, cch_vars
<1>8. TimersAccounted'
  BY DEF CIInv, CTypeOK, TimersAccounted, Live, RcvBadApp, cch_vars
<1>9. BindingsKnown'
  BY <1>3 DEF CIInv, BindingsKnown, NakpliAfterNat, RcvBadApp, BadApp, cch_vars
<1>10. SlowAfterAbort'
  BY DEF CIInv, SlowAfterAbort, Live, RcvBadApp, cch_vars
<1> QED
  BY <1>3, <1>4, <1>5, <1>6, <1>7, <1>8, <1>9, <1>10 DEF CIInv, CNoAssertFails,
    CQueueInOrder

\* The running transition timer is forgotten for the sake of a later APP.
LEMMA RcvAppIInv ==
    ASSUME CIInv, NEW timer \in {"null", "stopped", "armed"}, RcvApp(timer)
    PROVE  CIInv'
<1>1. CTypeOK /\ CNoAssertFails /\ CQueueInOrder
  BY DEF CIInv
<1>2. UNCHANGED csm_vars
  BY DEF RcvApp
<1>3. /\ cq' = cq /\ ret_act' = ret_act /\ cstate' = cstate
      /\ cq' \in QueueOf(CEvents) /\ RingConsistent(cq') /\ cq'.depth <= 1
      /\ ~cfatal' /\ cfatal' \in BOOLEAN
  BY <1>1, <1>2, QueueLeftAlone
<1>4. /\ ipc' \in {"none", "process_app", "abort_rcc", "destroy"}
      /\ napps' \in 0 .. MaxRcvApps
      /\ ctimer' \in [CTimers -> {"null", "armed", "stopped"}]
      /\ orphans' \in 0 .. MaxRcvApps
  BY CpAssumption DEF CTypeOK, TimersAccounted, CIInv, RcvApp
<1>5. CTypeOK'
  BY <1>1, <1>3, <1>4 DEF CTypeOK, RcvApp
<1>6. Phases'
  BY <1>3 DEF CIInv, Phases, CBusy, RcvApp, CIdle
<1>7. AppTimer'
  BY <1>3 DEF CIInv, CTypeOK, AppTimer, Live, CTimers, RcvApp, CIdle
<1>8. TimersAccounted'
  BY DEF CIInv, CTypeOK, TimersAccounted, Live, RcvApp, CIdle
<1>9. Counting' /\ BindingsKnown' /\ SlowAfterAbort'
  BY <1>3 DEF CIInv, Counting, BindingsKnown, SlowAfterAbort, Live, CBusy,
    NakpliAfterNat, RcvApp
<1> QED
  BY <1>3, <1>5, <1>6, <1>7, <1>8, <1>9 DEF CIInv, CNoAssertFails, CQueueInOrder

LEMMA AppReturnIInv ==
    ASSUME CIInv, NEW r \in {"OK", "INVALID_APP", "ERR"}, AppReturn(r)
    PROVE  CIInv'
<1>1. CTypeOK /\ CNoAssertFails /\ CQueueInOrder
  BY DEF CIInv
<1> DEFINE e == CASE r = "OK" -> "RECEIVE_VALID_APP"
                  [] r = "INVALID_APP" -> "RECEIVE_INVALID_APP"
                  [] r = "ERR" -> "RCC_IPC_ERR"
<1>2. e \in CEvents /\ CDeliver(e) /\ ~CBusy /\ cstate # "INVALID"
  BY DEF AppReturn, CEvents, CIInv, Phases
<1>3. e # "NAT_BINDING_COMPLETE"
  OBVIOUS
<1> HIDE DEF e
<1>4. /\ cq' \in QueueOf(CEvents) /\ RingConsistent(cq')
      /\ cq'.depth = 1 /\ Current(cq') = e
      /\ ~cfatal' /\ cfatal' \in BOOLEAN /\ ret_act' = TRUE
  BY <1>1, <1>2, CDeliverQueue
<1>5. CTypeOK'
  BY <1>1, <1>4 DEF CTypeOK, CPCs, AppReturn, app_vars, cch_vars
<1>6. Phases'
  BY DEF CIInv, Phases, AppReturn
<1>7. AppTimer'
  BY DEF CIInv, AppTimer, Live, Phases, AppReturn, cch_vars
<1>8. Counting'
  BY DEF CIInv, Counting, Live, Phases, AppReturn, cch_vars
<1>9. TimersAccounted'
  BY DEF CIInv, TimersAccounted, Live, AppReturn, app_vars, cch_vars
<1>10. BindingsKnown'
  BY <1>4, <1>3 DEF CIInv, BindingsKnown, NakpliAfterNat, AppReturn, cch_vars
<1>11. SlowAfterAbort'
  BY DEF CIInv, SlowAfterAbort, Live, Phases, AppReturn, cch_vars
<1> QED
  BY <1>4, <1>5, <1>6, <1>7, <1>8, <1>9, <1>10, <1>11 DEF CIInv, CNoAssertFails,
    CQueueInOrder

LEMMA AppEndIInv ==
    ASSUME CIInv, NEW fill \in BOOLEAN, AppEnd(fill)
    PROVE  CIInv'
<1>1. CTypeOK /\ CNoAssertFails /\ CQueueInOrder
  BY DEF CIInv
<1>2. UNCHANGED csm_vars
  BY DEF AppEnd
<1>3. /\ cq' = cq /\ ret_act' = ret_act /\ cstate' = cstate
      /\ cq' \in QueueOf(CEvents) /\ RingConsistent(cq') /\ cq'.depth <= 1
      /\ ~cfatal' /\ cfatal' \in BOOLEAN
  BY <1>1, <1>2, QueueLeftAlone
<1>4. CTypeOK'
  BY <1>1, <1>3 DEF CTypeOK, CPCs, AppEnd, cch_vars
<1>5. Phases'
  BY <1>3 DEF CIInv, Phases, AppEnd
<1>6. AppTimer'
  BY <1>3 DEF CIInv, AppTimer, Live, AppEnd, cch_vars
<1>7. Counting'
  BY DEF CIInv, Counting, Live, AppEnd, cch_vars
<1>8. TimersAccounted'
  BY DEF CIInv, TimersAccounted, Live, AppEnd, cch_vars
<1>9. SlowAfterAbort'
  BY <1>3 DEF CIInv, SlowAfterAbort, Live, AppEnd, cch_vars
<1>10. BindingsKnown'
  BY <1>3 DEF CIInv, BindingsKnown, NakpliAfterNat, CBusy, AppEnd, cch_vars
<1> QED
  BY <1>3, <1>4, <1>5, <1>6, <1>7, <1>8, <1>9, <1>10 DEF CIInv, CNoAssertFails,
    CQueueInOrder

LEMMA IpcReturnIInv ==
    ASSUME CIInv, IpcReturn
    PROVE  CIInv'
<1>1. CTypeOK /\ CNoAssertFails /\ CQueueInOrder
  BY DEF CIInv
<1>2. UNCHANGED csm_vars
  BY DEF IpcReturn
<1>3. /\ cq' = cq /\ ret_act' = ret_act /\ cstate' = cstate
      /\ cq' \in QueueOf(CEvents) /\ RingConsistent(cq') /\ cq'.depth <= 1
      /\ ~cfatal' /\ cfatal' \in BOOLEAN
  BY <1>1, <1>2, QueueLeftAlone
<1>4. CTypeOK'
  BY <1>1, <1>3 DEF CTypeOK, IpcReturn, app_vars, cch_vars
<1>5. Phases'
  BY <1>3 DEF CIInv, Phases, CBusy, IpcReturn, cch_vars
<1>6. AppTimer' /\ Counting' /\ TimersAccounted' /\ BindingsKnown' /\ SlowAfterAbort'
  BY <1>3 DEF CIInv, AppTimer, Counting, TimersAccounted, BindingsKnown,
    SlowAfterAbort, Live, CBusy, NakpliAfterNat, IpcReturn, app_vars, cch_vars
<1> QED
  BY <1>3, <1>4, <1>5, <1>6 DEF CIInv, CNoAssertFails, CQueueInOrder

LEMMA UpcallEventIInv ==
    ASSUME CIInv, NEW R \in SUBSET Reasons, NEW er_now \in BOOLEAN, NEW timer_ok \in
           BOOLEAN, UpcallEvent(R, er_now, timer_ok)
    PROVE  CIInv'
<1>1. CTypeOK /\ CNoAssertFails /\ CQueueInOrder
  BY DEF CIInv
<1>2. UNCHANGED csm_vars
  BY DEF UpcallEvent
<1>3. /\ cq' = cq /\ ret_act' = ret_act /\ cstate' = cstate
      /\ cq' \in QueueOf(CEvents) /\ RingConsistent(cq') /\ cq'.depth <= 1
      /\ ~cfatal' /\ cfatal' \in BOOLEAN
  BY <1>1, <1>2, QueueLeftAlone
<1>4. CTypeOK'
  BY <1>1, <1>3 DEF CTypeOK, MrbTransition, ErPollAfterEnable, UpcallEvent
<1>5. AppTimer'
  BY <1>3 DEF CIInv, CTypeOK, AppTimer, Live, CTimers, UpcallEvent, MrbTransition,
    CIdle
<1>6. TimersAccounted'
  BY DEF CIInv, CTypeOK, TimersAccounted, Live, CTimers, UpcallEvent, MrbTransition,
    CIdle
<1>7. SlowAfterAbort'
  BY <1>3 DEF CIInv, SlowAfterAbort, Live, UpcallEvent, ErPollAfterEnable
<1>8. Phases' /\ Counting' /\ BindingsKnown'
  BY <1>3 DEF CIInv, Phases, Counting, BindingsKnown, CBusy, Live, NakpliAfterNat,
    UpcallEvent
<1> QED
  BY <1>3, <1>4, <1>5, <1>6, <1>7, <1>8 DEF CIInv, CNoAssertFails, CQueueInOrder
LEMMA InitCIInv == CInit => CIInv
<1> SUFFICES ASSUME CInit PROVE CIInv
  OBVIOUS
<1>1. cq \in QueueOf(CEvents) /\ RingConsistent(cq) /\ cq.depth = 0
  BY DEF CInit, EmptyQueue, QueueOf, RingConsistent, Dist, Slot, MAX_EVENTQ_DEPTH
<1>2. /\ ctimer \in [CTimers -> {"null", "armed", "stopped"}]
      /\ orphans \in 0 .. MaxRcvApps /\ napps \in 0 .. MaxRcvApps
      /\ cfg \in SUBSET Features
  BY CpAssumption DEF CInit
<1>3. /\ ret_act \in BOOLEAN /\ nakpli_sent \in BOOLEAN /\ cp_abort \in BOOLEAN
      /\ er_poll_active \in BOOLEAN /\ use_rcc_bw \in BOOLEAN /\ bye_sent \in BOOLEAN
      /\ ff_ended \in BOOLEAN /\ counted \in BOOLEAN /\ cfatal \in BOOLEAN
  BY DEF CInit
<1>4. CTypeOK
  BY <1>1, <1>2, <1>3 DEF CInit, CTypeOK, CStates, CPCs
<1>5. CNoAssertFails /\ CQueueInOrder
  BY <1>1 DEF CInit, CNoAssertFails, CQueueInOrder
<1>6. Phases /\ AppTimer /\ Counting
  BY <1>1 DEF CInit, Phases, AppTimer, Counting, Live, CBusy, CTimers
<1>7. TimersAccounted /\ BindingsKnown /\ SlowAfterAbort
  BY <1>1 DEF CInit, TimersAccounted, BindingsKnown, NakpliAfterNat, SlowAfterAbort, Live,
    CBusy, CTimers
<1> QED
  BY <1>4, <1>5, <1>6, <1>7 DEF CIInv

LEMMA NextCIInv == CIInv /\ [CNext]_cvars => CIInv'
<1> SUFFICES ASSUME CIInv, [CNext]_cvars PROVE CIInv'
  OBVIOUS
<1>1. CASE CStep
  BY <1>1, CStepNothingIInv, CStepSlowIInv, CStepValidAppIInv, CStepAbortIInv,
    CStepRapidIInv, CStepNakpliIInv DEF CStep
<1>2. CASE CResume
  BY <1>2, BindIInv, BindUndoIInv, BindRapidIInv, BindEndIInv, DeinitSmIInv,
    BindFailIInv, DestroyChanIInv, AppEndIInv DEF CResume
<1>3. CASE RcvPacket
  BY <1>3, RcvBadAppIInv, RcvAppIInv DEF RcvPacket
<1>4. CASE DeinitFinal \/ AppTimeout \/ ErFastTimeout \/ MrbTimeout
  BY <1>4, DeinitFinalIInv, AppTimeoutIInv, ErFastTimeoutIInv, MrbTimeoutIInv
<1>5. CASE \/ \E b \in {"rtp", "rtcp"} : NatBindUpdate(b)
           \/ \E final \in BOOLEAN : Unbind(final)
  BY <1>5, NatBindUpdateIInv, UnbindIInv
<1>6. CASE IpcReturn \/ \E r \in {"OK", "INVALID_APP", "ERR"} : AppReturn(r)
  BY <1>6, IpcReturnIInv, AppReturnIInv
<1>7. CASE \E R \in SUBSET Reasons, er_now, timer_ok \in BOOLEAN :
              UpcallEvent(R, er_now, timer_ok)
  BY <1>7, UpcallEventIInv
<1>8. CASE UNCHANGED cvars
  <2>1. UNCHANGED csm_vars
    BY <1>8 DEF cvars
  <2>2. /\ cq' = cq /\ ret_act' = ret_act /\ cstate' = cstate /\ cfatal' = cfatal
    BY <2>1 DEF csm_vars
  <2>3. CTypeOK' /\ CNoAssertFails' /\ CQueueInOrder'
    BY <1>8, <2>2 DEF CIInv, CTypeOK, CNoAssertFails, CQueueInOrder, cvars, app_vars,
      cch_vars
  <2>4. Phases' /\ AppTimer' /\ Counting'
    BY <1>8, <2>2 DEF CIInv, Phases, AppTimer, Counting, Live, CBusy, cvars, cch_vars
  <2>5. TimersAccounted' /\ BindingsKnown' /\ SlowAfterAbort'
    BY <1>8, <2>2 DEF CIInv, TimersAccounted, BindingsKnown, NakpliAfterNat, SlowAfterAbort,
      Live, CBusy, cvars, app_vars, cch_vars
  <2> QED
    BY <2>3, <2>4, <2>5 DEF CIInv
<1> QED
  BY <1>1, <1>2, <1>3, <1>4, <1>5, <1>6, <1>7, <1>8 DEF CNext, CNextOwn

-----------------------------------------------------------------------------
(***************************************************************************)
(* The theorems.                                                           *)
(***************************************************************************)

\* The inductive invariant holds in every reachable state.
THEOREM CInvariance == CSpec => []CIInv
  BY InitCIInv, NextCIInv, PTL DEF CSpec

\* The variables of the channel keep their types.  In particular the index of the
\* event ring stays within its four slots and its depth never underflows.
THEOREM CTypeCorrect == CSpec => []CTypeOK
<1>1. CIInv => CTypeOK
  BY DEF CIInv
<1> QED
  BY <1>1, CInvariance, PTL

\* No assertion of vqec_sm_deliver_event() or vqec_sm_app_timer_start() fails.
THEOREM CAssertionsHold == CSpec => []CNoAssertFails
<1>1. CIInv => CNoAssertFails
  BY DEF CIInv
<1> QED
  BY <1>1, CInvariance, PTL

\* The event ring of the control plane stays consistent and never holds more than
\* one event between two rounds of the loop in vqec_sm_deliver_event().
THEOREM CQueueCorrect == CSpec => []CQueueInOrder
<1>1. CIInv => CQueueInOrder
  BY DEF CIInv
<1> QED
  BY <1>1, CInvariance, PTL

\* The event queue of the control plane can be relied upon, whatever the channel
\* is configured with and however many APPs arrive.
THEOREM CQueueIsSafe == CSpec => []CQueueSafe
  BY CTypeCorrect, CQueueCorrect, CAssertionsHold, PTL DEF CQueueSafe

\* Between handlers the APP timer runs exactly while the control plane waits for
\* an APP.
THEOREM WaitIsTimed == CSpec => []AppTimerRuns
<1>1. CIInv => AppTimerRuns
  BY DEF CIInv, AppTimer, AppTimerRuns, CIdle, Live
<1> QED
  BY <1>1, CInvariance, PTL

\* No NAK-PLI is sent before both NAT bindings are known.
THEOREM NakpliIsLate == CSpec => []NakpliAfterNat
<1>1. CIInv => NakpliAfterNat
  BY DEF CIInv, BindingsKnown
<1> QED
  BY <1>1, CInvariance, PTL

\* An aborted channel change goes on as a slow one.
THEOREM AbortDegrades == CSpec => []AbortIsSlowChange
<1>1. CIInv => AbortIsSlowChange
  BY DEF CIInv, SlowAfterAbort, AbortIsSlowChange, Live
<1> QED
  BY <1>1, CInvariance, PTL

\* vqec_chan_rcc_abort_notify() and vqec_chan_destroy() between them take a
\* counted channel off num_current_rccs exactly once.
THEOREM CountBalances == CSpec => []CountedOnce
<1>1. CIInv => CountedOnce
  BY DEF CIInv, Counting, CountedOnce, Live, Dead
<1> QED
  BY <1>1, CInvariance, PTL

\* A channel that has received at most one APP leaves no timer behind when it is
\* freed.
THEOREM OneAppLeavesNoTimer == CSpec => []NoTimerOutlivesOneApp
<1>1. CIInv => NoTimerOutlivesOneApp
  <2> SUFFICES ASSUME CIInv, napps <= 1, cpc = "freed"
               PROVE  orphans = 0 /\ \A t \in CTimers : ctimer[t] = "null"
    BY DEF NoTimerOutlivesOneApp, NoTimerOutlives
  <2>1. orphans \in Nat /\ napps \in Nat
    BY CpAssumption DEF CIInv, CTypeOK
  <2> QED
    BY <2>1 DEF CIInv, TimersAccounted, Live
<1> QED
  BY <1>1, CInvariance, PTL
=============================================================================
