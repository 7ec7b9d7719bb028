-------------------------------- MODULE DpRcc --------------------------------
(***************************************************************************)
(* The dataplane half of a rapid channel change (RCC): the state machine   *)
(* of vqec_dp_sm.c, the channel notifications of vqec_dpchan.c it calls,   *)
(* and the first-sequence filter and hold queue of the repair input stream *)
(* (vqec_dp_rtp_input_stream.c).                                           *)
(*                                                                         *)
(* The dataplane runs every handler (a packet, a timer, a call from the    *)
(* control plane) to completion.  A handler is modelled by the action that *)
(* starts it, one Step per event the state machine takes off its queue,    *)
(* and the actions that finish what the handler does after deliver_event() *)
(* returns; pc says which of those is due.  No handler starts before the   *)
(* queue is empty and pc is "idle".                                        *)
(***************************************************************************)
EXTENDS EventQ, FiniteSets

CONSTANT MaxApps      \* bound: APP packets the control plane passes down

ASSUME MaxAppsAssumption == MaxApps \in Nat

States == {"INIT", "WAIT_FIRST_SEQ", "WAIT_JOIN", "WAIT_EN_ER",
           "WAIT_END_BURST", "FIN_SUCCESS", "ABORT"}
Final == {"FIN_SUCCESS", "ABORT"}
Events == {"START_RCC", "INTERNAL_ERR", "ABORT", "TIME_TO_JOIN",
           "TIME_TO_EN_ER", "TIME_END_BURST", "REPAIR", "PRIMARY",
           "ACTIVITY_TIMEOUT", "TIME_FIRST_SEQ"}
Timers == {"wait_first", "join", "er", "burst_end", "activity"}

\* A repair packet either carries the sequence number the APP names or not.
Paks == {"first", "other"}

VARIABLES
    state,         \* chan->state
    q,             \* chan->event_q, event_q_idx, event_q_depth
    pc,            \* what the running handler still does after the queue is empty
    timer,         \* the five vqec_event_t pointers of the channel
    app_paks,      \* chan->app_paks is not empty
    apps,          \* APP packets passed down so far
    app_ret,       \* what the last vqec_dp_chan_process_app() returned
    rx_repair, process_first_repair, rx_primary, rcc_in_abort,
    joined,        \* joined_primary, joined_fec
    er_en,         \* vqec_pcm_notify_rcc_en_er() has been called
    fil_act,       \* first_seqnum_fil_act of the repair input stream
    holdq,         \* kinds of packets on its holdq_lh
    pcm,           \* kinds of packets handed to the pcm
    upcalls,       \* upcall events posted, by reason
    fatal,         \* a VQEC_DP_ASSERT_FATAL has failed
    hdr_fits       \* RTP headers fit on the APP packets (pool and strip_rtp)

sm_vars == <<state, q, timer, fatal>>
rx_vars == <<rx_repair, process_first_repair, fil_act, holdq, pcm>>
ch_vars == <<app_paks, rx_primary, rcc_in_abort, joined, er_en, upcalls>>
cp_vars == <<apps, app_ret, hdr_fits>>
vars == <<sm_vars, pc, rx_vars, ch_vars, cp_vars>>

PCs == {"idle", "rcv_one", "set_firstseq_fil", "abort_rcc",
        "app_err_poll", "app_err_prim", "app_err_end", "destroy", "destroyed"}

TypeOK ==
    /\ state \in States
    /\ q \in QueueOf(Events)
    /\ pc \in PCs
    /\ timer \in [Timers -> {"null", "armed", "fired"}]
    /\ apps \in 0 .. MaxApps
    /\ app_ret \in {"none", "OK", "ERR"}
    /\ app_paks \in BOOLEAN /\ rx_repair \in BOOLEAN
    /\ process_first_repair \in BOOLEAN /\ rx_primary \in BOOLEAN
    /\ rcc_in_abort \in BOOLEAN /\ er_en \in BOOLEAN /\ fil_act \in BOOLEAN
    /\ fatal \in BOOLEAN /\ hdr_fits \in BOOLEAN
    /\ joined \subseteq {"primary", "fec"}
    /\ holdq \subseteq Paks
    /\ pcm \subseteq {"app", "first", "other"}
    /\ upcalls \in [{"NCSI", "ABORT"} -> Nat]

Init ==
    /\ state = "INIT"
    /\ q = EmptyQueue
    /\ pc = "idle"
    /\ timer = [t \in Timers |-> "null"]
    /\ apps = 0 /\ app_ret = "none"
    /\ app_paks = FALSE /\ rx_repair = FALSE /\ process_first_repair = FALSE
    /\ rx_primary = FALSE /\ rcc_in_abort = FALSE /\ er_en = FALSE
    /\ fil_act = FALSE /\ fatal = FALSE
    /\ hdr_fits \in BOOLEAN
    /\ joined = {} /\ holdq = {} /\ pcm = {}
    /\ upcalls = [r \in {"NCSI", "ABORT"} |-> 0]

-----------------------------------------------------------------------------
(***************************************************************************)
(* The state table.                                                        *)
(***************************************************************************)

\* Mutant: INIT has no entry for ABORT.
TransitionInitDropsAbort(s, e) ==
    CASE s \in Final -> s
      [] s \notin Final \cup {"INIT"} /\ e \in {"ABORT", "INTERNAL_ERR"} -> "ABORT"
      [] s = "INIT" /\ e = "START_RCC" -> "WAIT_FIRST_SEQ"
      [] s = "WAIT_FIRST_SEQ" /\ e = "REPAIR" -> "WAIT_JOIN"
      [] s = "WAIT_FIRST_SEQ" /\ e = "TIME_FIRST_SEQ" -> "ABORT"
      [] s = "WAIT_JOIN" /\ e = "TIME_TO_JOIN" -> "WAIT_EN_ER"
      [] s = "WAIT_EN_ER" /\ e = "TIME_TO_EN_ER" -> "WAIT_END_BURST"
      [] s = "WAIT_END_BURST" /\ e = "TIME_END_BURST" -> "FIN_SUCCESS"
      [] OTHER -> "INVALID"

\* The transition functions of the seven states.
Transition(s, e) ==
    CASE s \in Final -> s
      [] s \notin Final /\ e \in {"ABORT", "INTERNAL_ERR"} -> "ABORT"
      [] s = "INIT" /\ e = "START_RCC" -> "WAIT_FIRST_SEQ"
      [] s = "WAIT_FIRST_SEQ" /\ e = "REPAIR" -> "WAIT_JOIN"
      [] s = "WAIT_FIRST_SEQ" /\ e = "TIME_FIRST_SEQ" -> "ABORT"
      [] s = "WAIT_JOIN" /\ e = "TIME_TO_JOIN" -> "WAIT_EN_ER"
      [] s = "WAIT_JOIN" /\ e = "ACTIVITY_TIMEOUT" -> "ABORT"
      [] s = "WAIT_EN_ER" /\ e = "TIME_TO_EN_ER" -> "WAIT_END_BURST"
      [] s = "WAIT_END_BURST" /\ e = "TIME_END_BURST" -> "FIN_SUCCESS"
      [] s \in {"WAIT_EN_ER", "WAIT_END_BURST"} /\ e = "PRIMARY" -> s
      [] OTHER -> "INVALID"

\* The timer a state's entry function starts and its exit function stops.
StateTimer == [s \in {"WAIT_FIRST_SEQ", "WAIT_JOIN", "WAIT_EN_ER", "WAIT_END_BURST"} |->
                 CASE s = "WAIT_FIRST_SEQ" -> "wait_first"
                   [] s = "WAIT_JOIN" -> "join"
                   [] s = "WAIT_EN_ER" -> "er"
                   [] s = "WAIT_END_BURST" -> "burst_end"]

\* Mutant: the activity timer is not stopped.
StopButActivity(T) ==
    [t \in Timers |-> IF t \in T \ {"activity"} THEN "null" ELSE timer[t]]

\* vqec_dp_sm_timer_stop() on a set of timers.
Stop(T) == [t \in Timers |-> IF t \in T THEN "null" ELSE timer[t]]

Busy == q.depth > 0
Idle == ~Busy /\ pc = "idle"

\* deliver_event() called with nothing on the queue: it becomes the outermost
\* call, whose loop runs as the Steps below.
Deliver(e) == /\ q' = Lease(q, e)
              /\ fatal' = (fatal \/ ~CanLease(q))

DeliverIf(b, e) == IF b THEN Deliver(e) ELSE UNCHANGED <<q, fatal>>

\* The end of one round of the loop, in which the routines called have
\* delivered e1, e2 (NoEvent: none), in that order, and started the timers in
\* started: vqec_dp_sm_timer_start() asserts that its timer is NULL.
Done(e1, e2, started) ==
    LET q1 == LeaseIf(q, e1 # NoEvent, e1) IN
    /\ q' = Release(LeaseIf(q1, e2 # NoEvent, e2))
    /\ fatal' = \/ fatal
                \/ \E t \in started : timer[t] # "null"
                \/ e1 # NoEvent /\ ~CanLease(q)
                \/ e2 # NoEvent /\ ~CanLease(q1)

\* Mutant: the failure to start a timer is not reported.
ErrNever(b) == NoEvent

ErrIf(b) == IF b THEN "INTERNAL_ERR" ELSE NoEvent

\* Leave the state for s, whose entry function starts its timer; creating or
\* starting the timer may fail.  armed are the timers the action has started.
Enter(s, ok, armed, stopped) ==
    /\ state' = s
    /\ timer' = [t \in Timers |->
                   CASE t = StateTimer[s] -> IF ok THEN "armed" ELSE "null"
                     [] t # StateTimer[s] /\ t \in stopped -> "null"
                     [] t # StateTimer[s] /\ t \in armed \ stopped -> "armed"
                     [] OTHER -> timer[t]]

-----------------------------------------------------------------------------
(***************************************************************************)
(* The channel routines the state machine calls.                           *)
(***************************************************************************)

\* Mutant: the repair stream keeps its filter and its hold queue.
ErEnKeepsFilter(rep, prim) ==
    /\ rx_primary' = (rx_primary \/ prim)
    /\ er_en' = TRUE
    /\ UNCHANGED <<process_first_repair, pcm, fil_act, holdq, rx_repair>>

\* vqec_dpchan_rcc_er_en_notify(): the repair packets rep and, if prim, primary
\* packets are polled from the sockets; then the pcm is told that error repair
\* is on, and the repair stream's filter and hold queue are cleared.  A polled
\* packet goes through rcv_one() with the filter still in place: rx_repair is
\* set in every state that gets here before a final one, so that no REPAIR
\* event is delivered.
ErEnNotify(rep, prim) ==
    LET hit == fil_act /\ "first" \in rep IN
    /\ process_first_repair' = (process_first_repair \/ hit)
    /\ pcm' = IF ~fil_act THEN pcm \cup rep
              ELSE IF hit THEN pcm \cup rep \cup holdq ELSE pcm
    /\ rx_primary' = (rx_primary \/ prim)
    /\ er_en' = TRUE
    /\ fil_act' = FALSE
    /\ holdq' = {}
    /\ UNCHANGED rx_repair

\* The event vqec_dpchan_pak_event_update_state() delivers for polled primary
\* packets.
PrimaryIf(prim) == IF prim /\ ~rx_primary THEN "PRIMARY" ELSE NoEvent

\* vqec_dpchan_tx_upcall_ev() on the channel's own device.
Upcall(r) == upcalls' = [upcalls EXCEPT ![r] = @ + 1]

-----------------------------------------------------------------------------
(***************************************************************************)
(* One round of the loop in vqec_dp_sm_deliver_event(): guard, action, exit *)
(* function, transition, entry function, release of the slot.              *)
(***************************************************************************)
On(s, e) == Busy /\ state = s /\ Current(q) = e

\* The guard fails: the event is dropped.
StepIgnore ==
    /\ Busy
    /\ Transition(state, Current(q)) = "INVALID"
    /\ Done(NoEvent, NoEvent, {})
    /\ UNCHANGED <<state, timer, pc, rx_vars, ch_vars, cp_vars>>

\* A final state takes any event, with no action but for PRIMARY in success.
StepAbsorb ==
    /\ Busy
    /\ state \in Final
    /\ ~ On("FIN_SUCCESS", "PRIMARY")
    /\ Done(NoEvent, NoEvent, {})
    /\ UNCHANGED <<state, timer, pc, rx_vars, ch_vars, cp_vars>>

\* vqec_dp_sm_send_ncsi()
StepSendNcsi ==
    /\ \E s \in {"WAIT_EN_ER", "WAIT_END_BURST", "FIN_SUCCESS"} : On(s, "PRIMARY")
    /\ Upcall("NCSI")
    /\ Done(NoEvent, NoEvent, {})
    /\ UNCHANGED <<state, timer, pc, rx_vars, cp_vars,
                   app_paks, rx_primary, rcc_in_abort, joined, er_en>>

StepStartRcc(ok) ==
    /\ On("INIT", "START_RCC")
    /\ Enter("WAIT_FIRST_SEQ", ok, {}, {})
    /\ Done(NoEvent, ErrIf(~ok), {StateTimer["WAIT_FIRST_SEQ"]})
    /\ UNCHANGED <<pc, rx_vars, ch_vars, cp_vars>>

\* vqec_dp_sm_first_repair_actions(): the APP packets go to the pcm, up to the
\* first whose insert fails, and are freed; if all went in the activity timer is
\* started.
StepFirstRepair(inserted, act, ok) ==
    LET good == app_paks /\ inserted = "all" /\ act IN
    /\ On("WAIT_FIRST_SEQ", "REPAIR")
    /\ pcm' = IF app_paks /\ inserted # "none" THEN pcm \cup {"app"} ELSE pcm
    /\ app_paks' = FALSE
    /\ Enter("WAIT_JOIN", ok, IF good THEN {"activity"} ELSE {}, {"wait_first"})
    /\ Done(ErrIf(~good), ErrIf(~ok), {StateTimer["WAIT_JOIN"]})
    /\ UNCHANGED <<pc, rx_repair, process_first_repair, fil_act, holdq, cp_vars,
                   rx_primary, rcc_in_abort, joined, er_en, upcalls>>

\* Mutant: the exit function of WAIT_JOIN leaves the activity timer running.
StepPrimaryJoinActive(ok) ==
    /\ On("WAIT_JOIN", "TIME_TO_JOIN")
    /\ joined' = joined \cup {"primary"}
    /\ Enter("WAIT_EN_ER", ok, {}, {"join"})
    /\ Done(NoEvent, ErrIf(~ok), {StateTimer["WAIT_EN_ER"]})
    /\ UNCHANGED <<pc, rx_vars, cp_vars, app_paks, rx_primary, rcc_in_abort,
                   er_en, upcalls>>

\* vqec_dp_sm_primary_join()
StepPrimaryJoin(ok) ==
    /\ On("WAIT_JOIN", "TIME_TO_JOIN")
    /\ joined' = joined \cup {"primary"}
    /\ Enter("WAIT_EN_ER", ok, {}, {"activity", "join"})
    /\ Done(NoEvent, ErrIf(~ok), {StateTimer["WAIT_EN_ER"]})
    /\ UNCHANGED <<pc, rx_vars, cp_vars, app_paks, rx_primary, rcc_in_abort,
                   er_en, upcalls>>

\* vqec_dp_sm_notify_er_en()
StepNotifyErEn(rep, prim, ok) ==
    /\ On("WAIT_EN_ER", "TIME_TO_EN_ER")
    /\ ErEnNotify(rep, prim)
    /\ Enter("WAIT_END_BURST", ok, {}, {"er"})
    /\ Done(PrimaryIf(prim), ErrIf(~ok), {StateTimer["WAIT_END_BURST"]})
    /\ UNCHANGED <<pc, cp_vars, app_paks, rcc_in_abort, joined, upcalls>>

\* vqec_dp_sm_enter_success_rcc() and vqec_dpchan_rcc_success_notify()
StepSuccess ==
    /\ On("WAIT_END_BURST", "TIME_END_BURST")
    /\ state' = "FIN_SUCCESS"
    /\ timer' = Stop({"burst_end", "activity"})
    /\ joined' = joined \cup {"fec"}
    /\ fil_act' = FALSE
    /\ holdq' = {}
    /\ Done(NoEvent, NoEvent, {})
    /\ UNCHANGED <<pc, rx_repair, process_first_repair, pcm, cp_vars,
                   app_paks, rx_primary, rcc_in_abort, er_en, upcalls>>

\* vqec_dp_sm_enter_abort_rcc() and vqec_dpchan_rcc_abort_notify(), which does
\* nothing if the channel has been marked aborted before.
StepAbort(rep, prim) ==
    /\ Busy
    /\ state \notin Final
    /\ Transition(state, Current(q)) = "ABORT"
    /\ state' = "ABORT"
    /\ timer' = Stop({"activity"} \cup
                     IF state = "INIT" THEN {} ELSE {StateTimer[state]})
    /\ app_paks' = FALSE
    /\ IF rcc_in_abort
       THEN /\ Done(NoEvent, NoEvent, {})
            /\ UNCHANGED <<rx_vars, rx_primary, rcc_in_abort, joined, er_en, upcalls>>
       ELSE /\ Upcall("ABORT")
            /\ joined' = {"primary", "fec"}
            /\ ErEnNotify(rep, prim)
            /\ rcc_in_abort' = TRUE
            /\ Done(PrimaryIf(prim), NoEvent, {})
    /\ UNCHANGED <<pc, cp_vars>>

Step ==
    \/ StepIgnore \/ StepAbsorb \/ StepSendNcsi \/ StepSuccess
    \/ \E ok \in BOOLEAN :
          \/ StepStartRcc(ok)
          \/ StepPrimaryJoin(ok)
          \/ \E inserted \in {"none", "some", "all"}, act \in BOOLEAN :
                StepFirstRepair(inserted, act, ok)
          \/ \E rep \in SUBSET Paks, prim \in BOOLEAN : StepNotifyErEn(rep, prim, ok)
    \/ \E rep \in SUBSET Paks, prim \in BOOLEAN : StepAbort(rep, prim)

-----------------------------------------------------------------------------
(***************************************************************************)
(* Handlers: packets and timers.                                           *)
(***************************************************************************)

\* Mutant: the first primary packet is not recorded.
RcvPrimaryUnrecorded ==
    /\ Idle
    /\ "primary" \in joined /\ ~rx_primary /\ state # "INIT"
    /\ Deliver("PRIMARY")
    /\ UNCHANGED <<state, timer, pc, rx_vars, ch_vars, cp_vars>>

\* vqec_dpchan_pak_event(), primary packet: only the first one matters.  None
\* arrives before the stream has been joined, and INIT drops it.
RcvPrimary ==
    /\ Idle
    /\ "primary" \in joined /\ ~rx_primary /\ state # "INIT"
    /\ rx_primary' = TRUE
    /\ Deliver("PRIMARY")
    /\ UNCHANGED <<state, timer, pc, rx_vars, cp_vars,
                   app_paks, rcc_in_abort, joined, er_en, upcalls>>

\* The packet the filter waits for has been found, in rcv_one() or on the hold
\* queue: headers are put on the APP packets, and REPAIR is delivered the first
\* time.  err_pc is where the handler goes on if a header does not fit.
FirstFound(err_pc) ==
    IF app_paks /\ ~hdr_fits
    THEN /\ process_first_repair' = TRUE
         /\ Deliver("INTERNAL_ERR")
         /\ pc' = err_pc
         /\ UNCHANGED rx_repair
    ELSE LET new == ~rx_repair /\ state \notin Final \cup {"INIT"} IN
         /\ process_first_repair' = ~new
         /\ rx_repair' = (rx_repair \/ new)
         /\ DeliverIf(new, "REPAIR")
         /\ pc' = "rcv_one"

\* Mutant: INIT does not queue the packet.
RcvRepairNoQueue(p) ==
    /\ Idle /\ ~fil_act
    /\ pcm' = pcm \cup {p}
    /\ UNCHANGED <<sm_vars, pc, ch_vars, cp_vars,
                   rx_repair, process_first_repair, fil_act, holdq>>

\* vqec_dp_chan_rtp_repair_input_stream_rcv_one(), with the packet ...
RcvRepair(p) ==
    /\ Idle
    /\ UNCHANGED <<state, timer, ch_vars, cp_vars>>
    /\ \/ \* ... the filter is set for
          /\ fil_act /\ p = "first"
          /\ fil_act' = FALSE
          /\ FirstFound("rcv_one")
          /\ UNCHANGED <<holdq, pcm>>
       \/ \* ... held: no APP yet, or the filter waits for another
          /\ (fil_act /\ p # "first") \/ state = "INIT"
          /\ holdq' = holdq \cup {p}
          /\ UNCHANGED <<q, fatal, pc, rx_repair, process_first_repair, fil_act, pcm>>
       \/ \* ... passed on
          /\ ~fil_act /\ state # "INIT"
          /\ pcm' = pcm \cup {p}
          /\ UNCHANGED <<q, fatal, pc, rx_repair, process_first_repair, fil_act, holdq>>

\* The rest of rcv_one(): the first packet is passed on, then the hold queue.
RcvRest ==
    /\ ~Busy /\ pc = "rcv_one"
    /\ pcm' = pcm \cup {"first"} \cup holdq
    /\ holdq' = {}
    /\ pc' = "idle"
    /\ UNCHANGED <<sm_vars, rx_repair, process_first_repair, fil_act, ch_vars, cp_vars>>

\* The timeout handlers.  The activity timer is periodic, and its handler
\* delivers nothing while repair packets keep arriving.
TimerEvent(t) == CASE t = "wait_first" -> "TIME_FIRST_SEQ"
                   [] t = "join" -> "TIME_TO_JOIN"
                   [] t = "er" -> "TIME_TO_EN_ER"
                   [] t = "burst_end" -> "TIME_END_BURST"
                   [] t = "activity" -> "ACTIVITY_TIMEOUT"

Timeout(t) ==
    /\ Idle
    /\ timer[t] = "armed"
    /\ timer' = [timer EXCEPT ![t] = IF t = "activity" THEN "armed" ELSE "fired"]
    /\ Deliver(TimerEvent(t))
    /\ UNCHANGED <<state, pc, rx_vars, ch_vars, cp_vars>>

-----------------------------------------------------------------------------
(***************************************************************************)
(* Handlers: calls from the control plane.                                 *)
(***************************************************************************)

\* vqec_dp_chan_process_app() with an APP that decodes.
ProcessApp(resources) ==
    /\ Idle /\ apps < MaxApps
    /\ apps' = apps + 1
    /\ UNCHANGED <<state, timer, rx_vars, rx_primary, joined, er_en, upcalls, hdr_fits>>
    /\ \/ /\ rcc_in_abort
          /\ app_ret' = "OK"
          /\ UNCHANGED <<q, fatal, pc, app_paks, rcc_in_abort>>
       \/ \* app_paks is not empty, or no packet buffer is left
          /\ ~rcc_in_abort /\ (app_paks \/ ~resources)
          /\ rcc_in_abort' = TRUE
          /\ pc' = "app_err_poll"
          /\ UNCHANGED <<q, fatal, app_paks, app_ret>>
       \/ /\ ~rcc_in_abort /\ ~app_paks /\ resources
          /\ app_paks' = TRUE
          /\ Deliver("START_RCC")
          /\ pc' = "set_firstseq_fil"
          /\ UNCHANGED <<rcc_in_abort, app_ret>>

\* START_RCC has been processed.  The filter is set on the repair stream, whose
\* hold queue may have the packet already.
SetFirstseqFil ==
    /\ ~Busy /\ pc = "set_firstseq_fil"
    /\ app_ret' = IF rcc_in_abort THEN "ERR" ELSE "OK"
    /\ UNCHANGED <<state, timer, pcm, ch_vars, apps, hdr_fits>>
    /\ \/ /\ rcc_in_abort
          /\ pc' = "idle"
          /\ UNCHANGED <<q, fatal, rx_repair, process_first_repair, fil_act, holdq>>
       \/ /\ ~rcc_in_abort /\ "first" \in holdq
          /\ holdq' = holdq \ {"first"}
          /\ FirstFound("idle")
          /\ UNCHANGED fil_act
       \/ /\ ~rcc_in_abort /\ "first" \notin holdq
          /\ fil_act' = TRUE
          /\ pc' = "idle"
          /\ UNCHANGED <<q, fatal, rx_repair, process_first_repair, holdq>>

\* The error returns of vqec_dp_chan_process_app_internal(): the channel is
\* marked aborted, vqec_dpchan_abort_rcc_doactions() polls the repair stream ...
AppErrPoll(rep) ==
    LET hit == fil_act /\ "first" \in rep
        err == hit /\ app_paks /\ ~hdr_fits
        new == hit /\ ~err /\ ~rx_repair /\ state \notin Final \cup {"INIT"}
    IN
    /\ ~Busy /\ pc = "app_err_poll"
    /\ joined' = {"primary", "fec"}
    /\ fil_act' = (fil_act /\ ~hit)
    /\ holdq' = IF hit THEN {}
                ELSE IF fil_act \/ state = "INIT" THEN holdq \cup rep ELSE holdq
    /\ pcm' = IF hit THEN pcm \cup rep \cup holdq
              ELSE IF fil_act \/ state = "INIT" THEN pcm ELSE pcm \cup rep
    /\ process_first_repair' = ((process_first_repair \/ hit) /\ ~new)
    /\ rx_repair' = (rx_repair \/ new)
    /\ DeliverIf(err \/ new, IF err THEN "INTERNAL_ERR" ELSE "REPAIR")
    /\ pc' = "app_err_prim"
    /\ UNCHANGED <<state, timer, cp_vars, app_paks, rx_primary, rcc_in_abort,
                   er_en, upcalls>>

\* ... and the primary stream, ...
AppErrPrim(prim) ==
    LET new == prim /\ ~rx_primary /\ state # "INIT" IN
    /\ ~Busy /\ pc = "app_err_prim"
    /\ rx_primary' = (rx_primary \/ new)
    /\ DeliverIf(new, "PRIMARY")
    /\ pc' = "app_err_end"
    /\ UNCHANGED <<state, timer, rx_vars, cp_vars, app_paks, rcc_in_abort,
                   joined, er_en, upcalls>>

\* ... and ends with error repair on; then the state machine is told.
AppErrEnd ==
    /\ ~Busy /\ pc = "app_err_end"
    /\ er_en' = TRUE /\ fil_act' = FALSE /\ holdq' = {}
    /\ app_ret' = "ERR"
    /\ Deliver("INTERNAL_ERR")
    /\ pc' = "idle"
    /\ UNCHANGED <<state, timer, rx_repair, process_first_repair, pcm,
                   app_paks, rx_primary, rcc_in_abort, joined, upcalls, apps, hdr_fits>>

\* vqec_dp_chan_abort_rcc()
AbortRcc ==
    /\ Idle /\ ~rcc_in_abort
    /\ rcc_in_abort' = TRUE
    /\ Deliver("ABORT")
    /\ pc' = "abort_rcc"
    /\ UNCHANGED <<state, timer, rx_vars, cp_vars, app_paks, rx_primary, joined,
                   er_en, upcalls>>

AbortActions(rep, prim) ==
    /\ ~Busy /\ pc = "abort_rcc"
    /\ joined' = {"primary", "fec"}
    /\ ErEnNotify(rep, prim)
    /\ DeliverIf(prim /\ ~rx_primary, "PRIMARY")
    /\ pc' = "idle"
    /\ UNCHANGED <<state, timer, cp_vars, app_paks, rcc_in_abort, upcalls>>

\* vqec_dpchan_destroy() and vqec_dp_sm_deinit()
Destroy ==
    /\ Idle
    /\ rcc_in_abort' = TRUE
    /\ Deliver("ABORT")
    /\ pc' = "destroy"
    /\ UNCHANGED <<state, timer, rx_vars, cp_vars, app_paks, rx_primary, joined,
                   er_en, upcalls>>

\* The input streams are destroyed with what they hold, and the channel freed.
DestroyEnd ==
    /\ ~Busy /\ pc = "destroy"
    /\ holdq' = {}
    /\ pc' = "destroyed"
    /\ UNCHANGED <<sm_vars, rx_repair, process_first_repair, fil_act, pcm, ch_vars, cp_vars>>

-----------------------------------------------------------------------------
\* What a handler still has to do once deliver_event() has returned.
Resume ==
    \/ RcvRest \/ SetFirstseqFil \/ AppErrEnd \/ DestroyEnd
    \/ \E rep \in SUBSET Paks : AppErrPoll(rep)
    \/ \E prim \in BOOLEAN : AppErrPrim(prim)
    \/ \E rep \in SUBSET Paks, prim \in BOOLEAN : AbortActions(rep, prim)

Packet == RcvPrimary \/ \E p \in Paks : RcvRepair(p)

Call == AbortRcc \/ Destroy \/ \E resources \in BOOLEAN : ProcessApp(resources)

Next == Step \/ Resume \/ Packet \/ Call \/ \E t \in Timers : Timeout(t)

\* A handler runs to completion, and libevent fires an armed one-shot timer.
\* Nothing makes the activity timer find the repair stream silent.
Fairness ==
    /\ WF_vars(Step)
    /\ WF_vars(Resume)
    /\ \A t \in Timers \ {"activity"} : WF_vars(Timeout(t))

Spec == Init /\ [][Next]_vars
FairSpec == Spec /\ Fairness
-----------------------------------------------------------------------------
(***************************************************************************)
(* Properties.                                                             *)
(***************************************************************************)

\* No VQEC_DP_ASSERT_FATAL of deliver_event() or timer_start() ever fails: the
\* action and entry routines never deliver more events than the ring of four
\* has room for, and never start a timer that still exists.
NoAssertFails == ~fatal

\* The ring stays consistent, and between two events at most two are queued,
\* half of what the comment on deliver_event() allows the action routines.
QueueInOrder == RingConsistent(q) /\ q.depth <= 2

\* The timers of a state: the one its entry function starts, and in WAIT_JOIN
\* the activity timer that first_repair_actions() starts.
Watched(s) == {t \in Timers : \/ s \in DOMAIN StateTimer /\ t = StateTimer[s]
                              \/ s = "WAIT_JOIN" /\ t = "activity"}

\* When no handler runs, the state machine waits with exactly the timer of its
\* state armed (so it cannot be stuck), and only WAIT_JOIN watches the activity
\* of the repair stream.
TimersMatchState ==
    Idle => timer = [t \in Timers |-> IF t \in Watched(state) THEN "armed" ELSE "null"]

\* The memory of a destroyed channel is referenced by no timer, whatever the
\* state machine was doing when vqec_dpchan_destroy() was called.
NoTimerSurvives == pc = "destroyed" => \A t \in Timers : timer[t] = "null"

\* A destroyed channel has given back its APP packet buffers, if it has been
\* passed one APP.
NoAppPakLeaks == pc = "destroyed" /\ apps <= 1 => ~app_paks

\* Once the state machine has finished, by success or by any way of aborting,
\* the primary and FEC streams have been joined, error repair is on, and the
\* repair stream neither filters nor holds packets.
FinishedClean ==
    Idle /\ state \in Final =>
        joined = {"primary", "fec"} /\ er_en /\ ~fil_act /\ holdq = {}

\* This is so if the channel has been passed one APP.
FinishedCleanOneApp == apps <= 1 => FinishedClean

\* While the first repair packet is awaited the filter is on and the APP packets
\* are there to be inserted before it; otherwise, past INIT, nothing is held.
WaitingForFirst ==
    Idle => IF state = "WAIT_FIRST_SEQ" THEN fil_act /\ app_paks /\ ~rx_repair
            ELSE state # "INIT" /\ ~fil_act => holdq = {}

\* Unless RCC is aborted, no packet of the burst is passed on before the APP
\* packets have been inserted and the first packet of the burst has been seen.
BurstInOrder == pcm # {} /\ ~rcc_in_abort => "app" \in pcm /\ rx_repair

\* The first primary packet leads to exactly one NCSI upcall unless RCC is
\* aborted: it never arrives in a state that drops the event.
NcsiOnce ==
    /\ upcalls["NCSI"] <= 1
    /\ Idle /\ rx_primary /\ ~rcc_in_abort => upcalls["NCSI"] = 1

\* The dataplane posts at most one ABORT upcall, and only for an abort that its
\* own state machine has carried through.
AbortToldOnce ==
    /\ upcalls["ABORT"] <= 1
    /\ upcalls["ABORT"] = 1 => state = "ABORT" /\ rcc_in_abort

\* Packets are held until the first packet of the burst is seen and not after:
\* after a second APP they may be.
HeldOnlyUntilFirst == Idle /\ fil_act /\ apps <= 1 => ~rx_repair

\* A channel change that has been started ends: the chain of timers leads out of
\* every waiting state, whatever packets arrive.
RccEnds == state = "WAIT_FIRST_SEQ" ~> state \in Final

\* An abort, wherever it comes from, is carried through.
AbortEnds == rcc_in_abort ~> (state \in Final /\ ~Busy /\ er_en) \/ pc = "destroyed"

\* The event queue can be relied upon: deliver_event() never corrupts the ring,
\* never overflows it and never trips over a timer that is still there.
QueueSafe == TypeOK /\ QueueInOrder /\ NoAssertFails

\* The repair stream's filter and hold queue put the burst behind the APP, and
\* hold nothing that nobody will come back for.
BurstHeld == WaitingForFirst /\ BurstInOrder /\ HeldOnlyUntilFirst

\* The control plane is told of the first primary packet and of an abort, each
\* once, whatever else happens in the same round.
ToldOnce == NcsiOnce /\ AbortToldOnce

\* Neither the end of the machine nor that of the channel leaves anything held,
\* filtered or allocated.
EndsClean == FinishedCleanOneApp /\ NoAppPakLeaks

\* A channel change ends, by itself or by an abort.
ChangeEnds == RccEnds /\ AbortEnds
=============================================================================
