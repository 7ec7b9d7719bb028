-------------------------------- MODULE CpRcc --------------------------------
(***************************************************************************)
(* The control-plane half of a rapid channel change: the state machine of  *)
(* vqec_sm.c and the routines of vqec_channel.c that feed it and that it   *)
(* calls, for one channel from the end of vqec_chan_bind() to free(chan).  *)
(*                                                                         *)
(* The control plane runs every handler to completion.  As in DpRcc a      *)
(* handler is the action that starts it, one Step per event of the queue,  *)
(* and the actions for what follows deliver_event(); cpc says which is     *)
(* due.  Calls to the dataplane are synchronous: ipc names the call the    *)
(* control plane waits for, and nothing else happens here until it is      *)
(* answered.  What the dataplane answers, and which upcalls it makes, is   *)
(* left open here and fixed by module Rcc.                                 *)
(***************************************************************************)
EXTENDS EventQ, Integers

CONSTANTS MaxRcvApps,  \* bound: APP packets the repair session receives
          Configs      \* the configurations to bind the channel with

\* What the configuration of a channel may enable: RCC, error repair, fast fill
\* with its callbacks, NAT traversal from behind a NAT, and a maximum receive
\* bandwidth (and so the transition timer).
Features == {"rcc", "er", "fastfill", "nat", "mrb"}

ASSUME CpAssumption == MaxRcvApps \in Nat /\ Configs \subseteq SUBSET Features

CStates == {"INVALID", "INIT", "WAIT_APP", "FIN_SUCCESS", "ABORT"}
CFinal == {"FIN_SUCCESS", "ABORT"}
CEvents == {"RAPID_CHANNEL_CHANGE", "SLOW_CHANNEL_CHANGE", "NAT_BINDING_COMPLETE",
            "RECEIVE_VALID_APP", "RECEIVE_INVALID_APP", "RECEIVE_NULL_APP",
            "RCC_START_TIMEOUT", "RCC_INTERNAL_ERR", "RCC_IPC_ERR", "CHAN_DEINIT"}
CTimers == {"app_timeout", "er_fast_timer", "mrb_transition_ev"}
Reasons == {"NCSI", "ABORT", "FAST_FILL_DONE", "BURST_DONE"}

VARIABLES
    cstate,        \* chan->state; INVALID before vqec_sm_init()
    cq,            \* chan->event_q, event_q_idx, event_q_depth
    cpc,           \* what the running handler still does after the queue is empty
    ipc,           \* the dataplane call in progress
    ret_act,       \* ret_act of the outermost deliver_event()
    ctimer,        \* the timers of the channel; a stopped one has fired or been stopped
    orphans,       \* running transition timers the channel no longer points to
    cfg,           \* the features enabled
    nat_done,      \* rtp_nat_complete, rtcp_nat_complete
    nakpli_sent, cp_abort, er_poll_active, use_rcc_bw, bye_sent,
    ff,            \* the last fast-fill callback made to the client
    ff_ended,      \* fast_fill_end_time is set
    napps,         \* APP packets received
    rccs,          \* what the channel has added to num_current_rccs
    counted,       \* vqec_chan_bind() has counted it
    cfatal         \* a VQEC_ASSERT has failed

csm_vars == <<cstate, cq, ret_act, cfatal>>
app_vars == <<napps, ff, ff_ended>>
cch_vars == <<ctimer, orphans, nat_done, nakpli_sent, cp_abort, er_poll_active,
              use_rcc_bw, bye_sent, rccs, counted>>
cvars == <<csm_vars, cpc, ipc, app_vars, cch_vars, cfg>>

CPCs == {"bind", "bind_rapid", "bind_nat", "bind_slow", "idle", "app_valid",
         "destroy_final", "destroy_bye", "deinit_final", "deinit_bye",
         "shutdown", "freed"}

CTypeOK ==
    /\ cstate \in CStates
    /\ cq \in QueueOf(CEvents)
    /\ cpc \in CPCs
    /\ ipc \in {"none", "process_app", "abort_rcc", "destroy"}
    /\ ctimer \in [CTimers -> {"null", "armed", "stopped"}]
    /\ orphans \in 0 .. MaxRcvApps
    /\ cfg \in SUBSET Features
    /\ nat_done \subseteq {"rtp", "rtcp"}
    /\ ret_act \in BOOLEAN /\ nakpli_sent \in BOOLEAN /\ cp_abort \in BOOLEAN
    /\ er_poll_active \in BOOLEAN /\ use_rcc_bw \in BOOLEAN /\ bye_sent \in BOOLEAN
    /\ ff_ended \in BOOLEAN /\ counted \in BOOLEAN /\ cfatal \in BOOLEAN
    /\ ff \in {"none", "started", "aborted", "done"}
    /\ napps \in 0 .. MaxRcvApps
    /\ rccs \in Int

\* The channel has been allocated, and vqec_chan_bind() has set its features.
CInit ==
    /\ cfg \in Configs
    /\ cstate = "INVALID"
    /\ cq = EmptyQueue
    /\ cpc = "bind"
    /\ ipc = "none"
    /\ ctimer = [t \in CTimers |-> "null"]
    /\ orphans = 0 /\ napps = 0 /\ rccs = 0
    /\ nat_done = {}
    /\ ret_act = TRUE
    /\ nakpli_sent = FALSE /\ cp_abort = FALSE /\ er_poll_active = FALSE
    /\ bye_sent = FALSE /\ ff_ended = FALSE /\ counted = FALSE /\ cfatal = FALSE
    /\ use_rcc_bw = ({"rcc", "mrb"} \subseteq cfg)
    /\ ff = "none"

-----------------------------------------------------------------------------
(***************************************************************************)
(* The state table.                                                        *)
(***************************************************************************)

\* Mutant: WAIT_APP has no entry for the start timeout.
CTransitionNoTimeout(s, e) ==
    CASE s \in CFinal -> s
      [] s = "INIT" /\ e = "RAPID_CHANNEL_CHANGE" -> "WAIT_APP"
      [] s = "INIT" /\ e = "SLOW_CHANNEL_CHANGE" -> "FIN_SUCCESS"
      [] s = "WAIT_APP" /\ e = "NAT_BINDING_COMPLETE" -> "WAIT_APP"
      [] s = "WAIT_APP" /\ e = "RECEIVE_VALID_APP" -> "FIN_SUCCESS"
      [] s = "WAIT_APP" /\ e \in {"RECEIVE_INVALID_APP", "RECEIVE_NULL_APP",
            "RCC_INTERNAL_ERR", "RCC_IPC_ERR", "CHAN_DEINIT"} -> "ABORT"
      [] OTHER -> "INVALID"

\* The transition functions of the four states.
CTransition(s, e) ==
    CASE s \in CFinal -> s
      [] s = "INIT" /\ e = "RAPID_CHANNEL_CHANGE" -> "WAIT_APP"
      [] s = "INIT" /\ e = "SLOW_CHANNEL_CHANGE" -> "FIN_SUCCESS"
      [] s = "WAIT_APP" /\ e = "NAT_BINDING_COMPLETE" -> "WAIT_APP"
      [] s = "WAIT_APP" /\ e = "RECEIVE_VALID_APP" -> "FIN_SUCCESS"
      [] s = "WAIT_APP" /\ e \in {"RECEIVE_INVALID_APP", "RECEIVE_NULL_APP",
            "RCC_START_TIMEOUT", "RCC_INTERNAL_ERR", "RCC_IPC_ERR",
            "CHAN_DEINIT"} -> "ABORT"
      [] OTHER -> "INVALID"

CBusy == cq.depth > 0

\* The control plane can go on: no call to the dataplane is in progress.
Running == ipc = "none"
CIdle == Running /\ ~CBusy /\ cpc = "idle"
Dead == cpc \in {"shutdown", "freed"}

\* vqec_sm_deliver_event() called with nothing on the queue.
CDeliver(e) == /\ cq' = Lease(cq, e)
               /\ cfatal' = (cfatal \/ ~CanLease(cq) \/ cstate = "INVALID")
               /\ ret_act' = TRUE

\* The end of one round of its loop, in which INTERNAL_ERR has been delivered
\* if the action or entry routine has failed (ok is FALSE).
CDone(ok) ==
    /\ cq' = Release(LeaseIf(cq, ~ok, "RCC_INTERNAL_ERR"))
    /\ ret_act' = (ret_act /\ ok)

-----------------------------------------------------------------------------
(***************************************************************************)
(* The channel routines the state machine and the upcalls share.           *)
(***************************************************************************)

\* The channel has a repair session.  It hands on any APP packet that comes,
\* whether or not a rapid change was asked for.
HasRepair == cfg \cap {"er", "rcc"} # {}

\* vqec_chan_enable_er_poll()
ErPollAfterEnable == er_poll_active \/ "er" \in cfg

\* vqec_chan_mrb_transition_actions(chan, FALSE) stops the transition timer, if
\* there is one and the transition has not been made.
MrbTransition(t, run) ==
    IF run /\ use_rcc_bw /\ t["mrb_transition_ev"] # "null"
    THEN [t EXCEPT !["mrb_transition_ev"] = "stopped"] ELSE t

-----------------------------------------------------------------------------
(***************************************************************************)
(* One round of the loop in vqec_sm_deliver_event().                       *)
(***************************************************************************)
COn(s, e) == Running /\ CBusy /\ cstate = s /\ Current(cq) = e

\* The guard fails, or a final state takes the event, without any action.
CStepNothing ==
    /\ Running /\ CBusy
    /\ CTransition(cstate, Current(cq)) = "INVALID" \/ cstate \in CFinal
    /\ CDone(TRUE)
    /\ UNCHANGED <<cstate, cfatal, cpc, ipc, app_vars, cch_vars, cfg>>

CStepSlow ==
    /\ COn("INIT", "SLOW_CHANNEL_CHANGE")
    /\ cstate' = "FIN_SUCCESS"
    /\ CDone(TRUE)
    /\ UNCHANGED <<cfatal, cpc, ipc, app_vars, cch_vars, cfg>>

\* vqec_sm_app_timer_start() asserts that there is no timer yet.
CStepRapid(ok) ==
    /\ COn("INIT", "RAPID_CHANNEL_CHANGE")
    /\ cstate' = "WAIT_APP"
    /\ ctimer' = [ctimer EXCEPT !["app_timeout"] = IF ok THEN "armed" ELSE "null"]
    /\ CDone(ok)
    /\ cfatal' = (cfatal \/ ctimer["app_timeout"] # "null" \/ (~ok /\ ~CanLease(cq)))
    /\ UNCHANGED <<cpc, ipc, app_vars, cfg, orphans, nat_done, nakpli_sent, cp_abort,
                   er_poll_active, use_rcc_bw, bye_sent, rccs, counted>>

\* vqec_sm_send_nakpli()
CStepNakpli(ok) ==
    /\ COn("WAIT_APP", "NAT_BINDING_COMPLETE")
    /\ nakpli_sent' = (nakpli_sent \/ ok)
    /\ CDone(ok)
    /\ cfatal' = (cfatal \/ (~ok /\ ~CanLease(cq)))
    /\ UNCHANGED <<cstate, cpc, ipc, app_vars, cfg, ctimer, orphans, nat_done, cp_abort,
                   er_poll_active, use_rcc_bw, bye_sent, rccs, counted>>

\* Mutant: the APP timer is not stopped.
CStepValidAppKeepsTimer ==
    /\ COn("WAIT_APP", "RECEIVE_VALID_APP")
    /\ cstate' = "FIN_SUCCESS"
    /\ CDone(TRUE)
    /\ UNCHANGED <<cfatal, cpc, ipc, app_vars, cch_vars, cfg>>

\* vqec_sm_app_timer_stop() on leaving WAIT_APP for success.
CStepValidApp ==
    /\ COn("WAIT_APP", "RECEIVE_VALID_APP")
    /\ cstate' = "FIN_SUCCESS"
    /\ ctimer' = [ctimer EXCEPT !["app_timeout"] = "null"]
    /\ CDone(TRUE)
    /\ UNCHANGED <<cfatal, cpc, ipc, app_vars, cfg, orphans, nat_done, nakpli_sent,
                   cp_abort, er_poll_active, use_rcc_bw, bye_sent, rccs, counted>>

\* Mutants: an abort that leaves error repair off, or the dataplane alone.
AbortNotifyNoEr(stop) ==
    IF cp_abort
    THEN ctimer' = stop /\ UNCHANGED <<ipc, cp_abort, er_poll_active, use_rcc_bw,
                                       bye_sent, ff, rccs>>
    ELSE /\ ctimer' = MrbTransition(stop, TRUE)
         /\ ipc' = "abort_rcc" /\ use_rcc_bw' = FALSE /\ bye_sent' = TRUE
         /\ rccs' = rccs - 1 /\ cp_abort' = TRUE
         /\ UNCHANGED <<er_poll_active, ff>>

AbortNotifyNoIpc(stop) ==
    IF cp_abort
    THEN ctimer' = stop /\ UNCHANGED <<ipc, cp_abort, er_poll_active, use_rcc_bw,
                                       bye_sent, ff, rccs>>
    ELSE /\ ctimer' = MrbTransition(stop, TRUE)
         /\ use_rcc_bw' = FALSE /\ bye_sent' = TRUE
         /\ rccs' = rccs - 1 /\ cp_abort' = TRUE /\ er_poll_active' = ErPollAfterEnable
         /\ UNCHANGED <<ipc, ff>>

\* vqec_chan_rcc_abort_notify(), which does nothing if the channel has been
\* marked aborted before; otherwise it aborts the dataplane, turns on error
\* repair, leaves the repair session and tells the client.
AbortNotify(stop) ==
    IF cp_abort
    THEN ctimer' = stop /\ UNCHANGED <<ipc, cp_abort, er_poll_active, use_rcc_bw,
                                       bye_sent, ff, rccs>>
    ELSE /\ ipc' = "abort_rcc"
         /\ ctimer' = MrbTransition(stop, TRUE)
         /\ use_rcc_bw' = FALSE
         /\ er_poll_active' = ErPollAfterEnable
         /\ bye_sent' = TRUE
         /\ ff' = IF "fastfill" \in cfg /\ ~ff_ended THEN "aborted" ELSE ff
         /\ rccs' = rccs - 1
         /\ cp_abort' = TRUE

\* vqec_sm_app_timer_stop(), then vqec_sm_enter_abort_rcc().
CStepAbort ==
    /\ Running /\ CBusy /\ cstate = "WAIT_APP"
    /\ CTransition(cstate, Current(cq)) = "ABORT"
    /\ cstate' = "ABORT"
    /\ CDone(TRUE)
    /\ AbortNotify([ctimer EXCEPT !["app_timeout"] = "null"])
    /\ UNCHANGED <<cfatal, cpc, napps, ff_ended, cfg, orphans, nat_done, nakpli_sent,
                   counted>>

CStep == \/ CStepNothing \/ CStepSlow \/ CStepValidApp \/ CStepAbort
         \/ \E ok \in BOOLEAN : CStepRapid(ok) \/ CStepNakpli(ok)

-----------------------------------------------------------------------------
(***************************************************************************)
(* Binding, and destroying the channel.                                    *)
(***************************************************************************)

\* Mutant: the transition timer is left alone.
StartDestroyKeepsMrb(final, graph) ==
    /\ rccs' = IF "rcc" \in cfg /\ ~cp_abort THEN rccs - 1 ELSE rccs
    /\ er_poll_active' = FALSE
    /\ ctimer' = [ctimer EXCEPT !["app_timeout"] = "null", !["er_fast_timer"] = "null"]
    /\ ipc' = IF graph THEN "destroy" ELSE "none"
    /\ cpc' = IF final THEN "destroy_final" ELSE "destroy_bye"

\* vqec_chan_destroy() up to the call that destroys the dataplane graph, in
\* vqec_chan_deinit_multibye().  graph: the graph has been created.
StartDestroy(final, graph) ==
    /\ rccs' = IF "rcc" \in cfg /\ ~cp_abort THEN rccs - 1 ELSE rccs
    /\ er_poll_active' = FALSE
    /\ ctimer' = [t \in CTimers |-> "null"]
    /\ ipc' = IF graph THEN "destroy" ELSE "none"
    /\ cpc' = IF final THEN "destroy_final" ELSE "destroy_bye"

\* vqec_chan_bind() fails before it initializes the state machine.
BindFail(graph) ==
    /\ cpc = "bind"
    /\ StartDestroy(TRUE, graph)
    /\ UNCHANGED <<csm_vars, app_vars, cfg, orphans, nat_done, nakpli_sent, cp_abort,
                   use_rcc_bw, bye_sent, counted>>

Bind ==
    /\ cpc = "bind"
    /\ cstate' = "INIT"
    /\ cq' = Lease(cq, IF "rcc" \in cfg THEN "RAPID_CHANNEL_CHANGE"
                       ELSE "SLOW_CHANNEL_CHANGE")
    /\ ret_act' = TRUE
    /\ cpc' = IF "rcc" \in cfg THEN "bind_rapid" ELSE "bind_slow"
    /\ UNCHANGED <<cfatal, ipc, app_vars, cch_vars, cfg>>

\* The state machine has failed to start, or to send the NAK-PLI.
BindUndo ==
    /\ Running /\ ~CBusy /\ cpc \in {"bind_rapid", "bind_nat"} /\ ~ret_act
    /\ StartDestroy(TRUE, TRUE)
    /\ UNCHANGED <<csm_vars, app_vars, cfg, orphans, nat_done, nakpli_sent, cp_abort,
                   use_rcc_bw, bye_sent, counted>>

\* It waits for the APP; without a NAT the NAK-PLI is sent at once.
BindRapid ==
    /\ Running /\ ~CBusy /\ cpc = "bind_rapid" /\ ret_act
    /\ rccs' = rccs + 1 /\ counted' = TRUE
    /\ IF "nat" \in cfg
       THEN cpc' = "idle" /\ UNCHANGED <<cq, cfatal, ret_act, nat_done>>
       ELSE /\ nat_done' = {"rtp", "rtcp"}
            /\ CDeliver("NAT_BINDING_COMPLETE")
            /\ cpc' = "bind_nat"
    /\ UNCHANGED <<cstate, ipc, app_vars, cfg, ctimer, orphans, nakpli_sent, cp_abort,
                   er_poll_active, use_rcc_bw, bye_sent>>

BindEnd ==
    /\ Running /\ ~CBusy /\ cpc \in {"bind_nat", "bind_slow"} /\ ret_act
    /\ er_poll_active' = IF cpc = "bind_slow" THEN ErPollAfterEnable ELSE er_poll_active
    /\ cpc' = "idle"
    /\ UNCHANGED <<csm_vars, ipc, app_vars, cfg, ctimer, orphans, nat_done, nakpli_sent,
                   cp_abort, use_rcc_bw, bye_sent, rccs, counted>>

\* vqec_chan_unbind() of the last tuner, or with final vqec_chan_put_chanid()
\* and vqec_chan_module_deinit().
Unbind(final) ==
    /\ CIdle
    /\ StartDestroy(final, TRUE)
    /\ UNCHANGED <<csm_vars, app_vars, cfg, orphans, nat_done, nakpli_sent, cp_abort,
                   use_rcc_bw, bye_sent, counted>>

\* Mutant: the channel is not marked aborted before the state machine is told.
DeinitSmUnmarked ==
    /\ Running /\ ~CBusy /\ cpc \in {"destroy_final", "destroy_bye"}
    /\ IF cstate = "INVALID" THEN UNCHANGED <<cq, cfatal, ret_act>>
       ELSE CDeliver("CHAN_DEINIT")
    /\ cpc' = IF cpc = "destroy_final" THEN "deinit_final" ELSE "deinit_bye"
    /\ UNCHANGED <<cstate, ipc, app_vars, cch_vars, cfg>>

\* The end of vqec_chan_deinit_multibye(): a forced abort, and vqec_sm_deinit().
DeinitSm ==
    /\ Running /\ ~CBusy /\ cpc \in {"destroy_final", "destroy_bye"}
    /\ cp_abort' = TRUE
    /\ IF cstate = "INVALID" THEN UNCHANGED <<cq, cfatal, ret_act>>
       ELSE CDeliver("CHAN_DEINIT")
    /\ cpc' = IF cpc = "destroy_final" THEN "deinit_final" ELSE "deinit_bye"
    /\ UNCHANGED <<cstate, ipc, app_vars, cfg, ctimer, orphans, nat_done, nakpli_sent,
                   er_poll_active, use_rcc_bw, bye_sent, rccs, counted>>

\* The rest of vqec_chan_destroy(): the channel stays for more BYEs, if asked
\* for, configured and possible, or is freed.
DestroyChan(byes) ==
    /\ Running /\ ~CBusy /\ cpc \in {"deinit_final", "deinit_bye"}
    /\ cpc' = IF byes /\ cpc = "deinit_bye" /\ HasRepair
              THEN "shutdown" ELSE "freed"
    /\ UNCHANGED <<csm_vars, ipc, app_vars, cch_vars, cfg>>

\* vqec_chan_bye_event_handler() after the last BYE, or vqec_chan_destroy() of
\* a channel in shutdown.
DeinitFinal ==
    /\ cpc = "shutdown"
    /\ cpc' = "freed"
    /\ UNCHANGED <<csm_vars, ipc, app_vars, cch_vars, cfg>>

-----------------------------------------------------------------------------
(***************************************************************************)
(* Timers, NAT updates, APP packets, upcalls.                              *)
(***************************************************************************)

\* vqec_sm_app_timeout_handler()
AppTimeout ==
    /\ CIdle /\ ctimer["app_timeout"] = "armed"
    /\ ctimer' = [ctimer EXCEPT !["app_timeout"] = "stopped"]
    /\ CDeliver("RCC_START_TIMEOUT")
    /\ UNCHANGED <<cstate, cpc, ipc, app_vars, cfg, orphans, nat_done, nakpli_sent,
                   cp_abort, er_poll_active, use_rcc_bw, bye_sent, rccs, counted>>

\* vqec_chan_en_er_fastpoll()
ErFastTimeout ==
    /\ CIdle /\ ctimer["er_fast_timer"] = "armed"
    /\ ctimer' = [ctimer EXCEPT !["er_fast_timer"] = "stopped"]
    /\ er_poll_active' = ErPollAfterEnable
    /\ UNCHANGED <<csm_vars, cpc, ipc, app_vars, cfg, orphans, nat_done, nakpli_sent,
                   cp_abort, use_rcc_bw, bye_sent, rccs, counted>>

\* vqec_chan_mrb_transition_event_handler(), for the timer the channel points
\* to, or for an older one, which also runs while the channel sends its BYEs.
MrbTimeout ==
    /\ \/ /\ CIdle /\ ctimer["mrb_transition_ev"] = "armed"
          /\ ctimer' = [ctimer EXCEPT !["mrb_transition_ev"] = "stopped"]
          /\ UNCHANGED orphans
       \/ /\ CIdle \/ cpc = "shutdown"
          /\ orphans > 0
          /\ orphans' = orphans - 1
          /\ UNCHANGED ctimer
    /\ use_rcc_bw' = FALSE
    /\ UNCHANGED <<csm_vars, cpc, ipc, app_vars, cfg, nat_done, nakpli_sent,
                   cp_abort, er_poll_active, bye_sent, rccs, counted>>

\* Mutant: one binding is enough.
NatBindUpdateFirst(b) ==
    /\ CIdle /\ {"rcc", "nat"} \subseteq cfg /\ b \notin nat_done
    /\ nat_done' = nat_done \cup {b}
    /\ CDeliver("NAT_BINDING_COMPLETE")
    /\ UNCHANGED <<cstate, cpc, ipc, app_vars, cfg, ctimer, orphans, nakpli_sent,
                   cp_abort, er_poll_active, use_rcc_bw, bye_sent, rccs, counted>>

\* vqec_chan_nat_bind_update() for the repair RTP or RTCP binding.
NatBindUpdate(b) ==
    /\ CIdle /\ {"rcc", "nat"} \subseteq cfg /\ b \notin nat_done
    /\ nat_done' = nat_done \cup {b}
    /\ IF nat_done' = {"rtp", "rtcp"} THEN CDeliver("NAT_BINDING_COMPLETE")
       ELSE UNCHANGED <<cq, cfatal, ret_act>>
    /\ UNCHANGED <<cstate, cpc, ipc, app_vars, cfg, ctimer, orphans, nakpli_sent,
                   cp_abort, er_poll_active, use_rcc_bw, bye_sent, rccs, counted>>

\* vqec_chan_process_app() with a null APP or one that exceeds the maximum
\* fill, and vqec_chan_app_parse_failure().
RcvBadApp(e) ==
    /\ CIdle /\ HasRepair /\ napps < MaxRcvApps
    /\ napps' = napps + 1
    /\ CDeliver(e)
    /\ UNCHANGED <<cstate, cpc, ipc, ff, ff_ended, cch_vars, cfg>>

\* vqec_chan_process_app() with a good APP, up to the call to the dataplane.
\* The transition timer is created anew, and a running one forgotten; the new
\* one may fail to be created or to be started (timer: what it is then).
RcvApp(timer) ==
    /\ CIdle /\ HasRepair /\ napps < MaxRcvApps
    /\ napps' = napps + 1
    /\ IF "mrb" \in cfg
       THEN /\ ctimer' = [ctimer EXCEPT !["mrb_transition_ev"] = timer]
            /\ orphans' = IF ctimer["mrb_transition_ev"] = "armed" THEN orphans + 1
                          ELSE orphans
       ELSE timer = "null" /\ UNCHANGED <<ctimer, orphans>>
    /\ ipc' = "process_app"
    /\ UNCHANGED <<csm_vars, cpc, ff, ff_ended, cfg, nat_done, nakpli_sent, cp_abort,
                   er_poll_active, use_rcc_bw, bye_sent, rccs, counted>>

\* Mutant: any answer is taken for success.
AppReturnAlwaysValid(r) ==
    /\ ipc = "process_app"
    /\ ipc' = "none"
    /\ CDeliver("RECEIVE_VALID_APP")
    /\ cpc' = "app_valid"
    /\ UNCHANGED <<cstate, app_vars, cch_vars, cfg>>

\* The dataplane has answered the APP.
AppReturn(r) ==
    /\ ipc = "process_app"
    /\ ipc' = "none"
    /\ CDeliver(CASE r = "OK" -> "RECEIVE_VALID_APP"
                  [] r = "INVALID_APP" -> "RECEIVE_INVALID_APP"
                  [] r = "ERR" -> "RCC_IPC_ERR")
    /\ cpc' = IF r = "OK" THEN "app_valid" ELSE "idle"
    /\ UNCHANGED <<cstate, app_vars, cch_vars, cfg>>

\* The client is told whether a fast fill starts: fill says whether the APP
\* announces one.
AppEnd(fill) ==
    /\ Running /\ ~CBusy /\ cpc = "app_valid"
    /\ ff' = IF "fastfill" \notin cfg THEN ff ELSE IF fill THEN "started" ELSE "aborted"
    /\ cpc' = "idle"
    /\ UNCHANGED <<csm_vars, ipc, napps, ff_ended, cch_vars, cfg>>

\* The other calls return nothing the control plane looks at.
IpcReturn ==
    /\ ipc \in {"abort_rcc", "destroy"}
    /\ ipc' = "none"
    /\ UNCHANGED <<csm_vars, cpc, app_vars, cch_vars, cfg>>

\* Mutant: an abort of the dataplane does not turn on error repair.
UpcallEventNoEr(R, er_now, timer_ok) ==
    /\ CIdle /\ "rcc" \in cfg
    /\ er_poll_active' = IF "NCSI" \in R /\ ~cp_abort /\ er_now THEN ErPollAfterEnable
                         ELSE er_poll_active
    /\ UNCHANGED <<csm_vars, cpc, ipc, app_vars, cfg, ctimer, orphans, nat_done, nakpli_sent,
                   cp_abort, use_rcc_bw, bye_sent, rccs, counted>>

\* vqec_upcall_chan_event(): the reasons of one interrupt are handled in the
\* order NCSI, ABORT, FAST_FILL_DONE, BURST_DONE.  An NCSI turns on error repair,
\* now or by a timer, which may fail to start.  (That the NCSI is then sent to
\* the server is not part of the state.)
UpcallEvent(R, er_now, timer_ok) ==
    LET ncsi == "NCSI" \in R /\ ~cp_abort /\ "er" \in cfg
        t == IF ncsi /\ ~er_now
             THEN [ctimer EXCEPT !["er_fast_timer"] = IF timer_ok THEN "armed" ELSE "null"]
             ELSE ctimer
        mrb == R \cap {"ABORT", "BURST_DONE"} # {}
        filled == "FAST_FILL_DONE" \in R /\ "fastfill" \in cfg
    IN
    /\ CIdle /\ "rcc" \in cfg
    /\ ctimer' = MrbTransition(t, mrb)
    /\ use_rcc_bw' = (use_rcc_bw /\ ~mrb)
    /\ er_poll_active' = IF "ABORT" \in R \/ (ncsi /\ er_now) THEN ErPollAfterEnable
                         ELSE er_poll_active
    /\ bye_sent' = (bye_sent \/ "ABORT" \in R)
    /\ ff' = IF filled THEN "done" ELSE ff
    /\ ff_ended' = (ff_ended \/ filled)
    /\ UNCHANGED <<csm_vars, cpc, ipc, napps, cfg, orphans, nat_done, nakpli_sent,
                   cp_abort, rccs, counted>>

-----------------------------------------------------------------------------
\* What a handler still has to do, the dataplane's answers left aside.
CResume ==
    \/ Bind \/ BindUndo \/ BindRapid \/ BindEnd \/ DeinitSm
    \/ \E graph \in BOOLEAN : BindFail(graph)
    \/ \E byes \in BOOLEAN : DestroyChan(byes)
    \/ \E fill \in BOOLEAN : AppEnd(fill)

BadApp == {"RECEIVE_NULL_APP", "RECEIVE_INVALID_APP"}

RcvPacket ==
    \/ \E e \in BadApp : RcvBadApp(e)
    \/ \E timer \in {"null", "stopped", "armed"} : RcvApp(timer)

\* Everything but the answers and the upcalls of the dataplane.
CNextOwn ==
    \/ CStep \/ CResume \/ RcvPacket \/ DeinitFinal
    \/ AppTimeout \/ ErFastTimeout \/ MrbTimeout
    \/ \E b \in {"rtp", "rtcp"} : NatBindUpdate(b)
    \/ \E final \in BOOLEAN : Unbind(final)

CNext ==
    \/ CNextOwn
    \/ IpcReturn
    \/ \E r \in {"OK", "INVALID_APP", "ERR"} : AppReturn(r)
    \/ \E R \in SUBSET Reasons, er_now, timer_ok \in BOOLEAN :
          UpcallEvent(R, er_now, timer_ok)

\* A handler runs to completion, the dataplane answers, libevent fires a timer
\* that is running, and the BYE timer runs until the channel is freed.
CFairness ==
    /\ WF_cvars(CStep)
    /\ WF_cvars(CResume)
    /\ WF_cvars(IpcReturn \/ \E r \in {"OK", "INVALID_APP", "ERR"} : AppReturn(r))
    /\ WF_cvars(AppTimeout)
    /\ WF_cvars(DeinitFinal)

CSpec == CInit /\ [][CNext]_cvars
CFairSpec == CSpec /\ CFairness

-----------------------------------------------------------------------------
(***************************************************************************)
(* Properties.                                                             *)
(***************************************************************************)

\* No VQEC_ASSERT of vqec_sm_deliver_event() or vqec_sm_app_timer_start() fails:
\* the queue has room, no event comes before vqec_sm_init(), and the APP timer
\* is never started twice.
CNoAssertFails == ~cfatal

\* The comment on vqec_sm_deliver_event() says that the recursive call depth
\* never exceeds 2: at most one event waits behind the one being worked on.
CQueueInOrder == RingConsistent(cq) /\ cq.depth <= 1

\* Whenever the control plane waits for an APP the APP timer runs, so that it
\* gives up at last; and only then does it run.
AppTimerRuns == CIdle => (ctimer["app_timeout"] = "armed" <=> cstate = "WAIT_APP")

\* A NAK-PLI, which asks the server for a burst, is sent only when the NAT
\* bindings of both repair ports are known (or none is needed).
NakpliAfterNat == nakpli_sent => nat_done = {"rtp", "rtcp"}

\* A channel change that the control plane has aborted goes on as a slow one:
\* error repair is on and the repair burst has been given up.
AbortIsSlowChange ==
    cpc = "idle" /\ cstate = "ABORT" =>
        /\ cp_abort /\ bye_sent /\ ~use_rcc_bw
        /\ "er" \in cfg => er_poll_active

\* A channel that was counted among the current RCCs is counted down exactly
\* once, by the abort or by its destruction, whatever the order of the two.
CountedOnce == Dead /\ counted => rccs = 0

\* No timer that refers to a channel outlives it: vqec_chan_deinit_multibye()
\* has destroyed all events.
NoTimerOutlives ==
    cpc = "freed" => orphans = 0 /\ \A t \in CTimers : ctimer[t] = "null"

\* This is so as long as the channel has received no second APP.
NoTimerOutlivesOneApp == napps <= 1 => NoTimerOutlives

\* The wait for an APP ends, by an APP, an error, the timeout or an unbind.
WaitAppEnds == cstate = "WAIT_APP" ~> cstate # "WAIT_APP"

\* A channel whose destruction has started is freed.
DestroyEnds == cpc \in {"destroy_final", "destroy_bye"} ~> cpc = "freed"

\* The event queue of the control plane can be relied upon: no corruption, no
\* overflow, no event before vqec_sm_init(), no timer started twice.
CQueueSafe == CTypeOK /\ CQueueInOrder /\ CNoAssertFails

\* The wait for the server ends, and so does the destruction of a channel with
\* its BYEs.
CWaitsEnd == WaitAppEnds /\ DestroyEnds
=============================================================================
