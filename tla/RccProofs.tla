------------------------------ MODULE RccProofs ------------------------------
(***************************************************************************)
(* Proofs about a rapid channel change as a whole, for any number of APP   *)
(* packets and any set of configurations: the two halves agree between     *)
(* handlers, and together they implement RccAbs.  They rest on the         *)
(* invariants of the two halves, which every step of the whole keeps.      *)
(***************************************************************************)
EXTENDS Rcc, DpRccProofs, CpRccProofs

-----------------------------------------------------------------------------
(***************************************************************************)
(* What the whole needs to know of the dataplane.                          *)
(***************************************************************************)
TimerEvents == {TimerEvent(t) : t \in Timers}

\* The handlers that vqec_dp_chan_process_app() starts.
AppHandler == AppErr \cup {"set_firstseq_fil"}

\* Unless the machine is aborted, error repair and FEC are only turned on by the
\* states that do so.
StreamsLater ==
    ~rcc_in_abort => /\ er_en => state \in {"WAIT_END_BURST", "FIN_SUCCESS"}
                     /\ "fec" \in joined => state = "FIN_SUCCESS"

\* What the last answer to an APP says about the machine, for the first APP also
\* whether it may have succeeded before.
Answers ==
    /\ app_ret = "OK" => state # "INIT"
    /\ app_ret = "ERR" => rcc_in_abort /\ (apps <= 1 => state # "FIN_SUCCESS")
    /\ app_ret # "none" \/ pc \in AppHandler => apps # 0
    /\ apps <= 1 /\ pc \in AppHandler => app_ret = "none"
    /\ apps <= 1 /\ pc \in AppErr => state # "FIN_SUCCESS"

\* A channel without an APP does nothing until it is aborted.
Fresh == apps = 0 /\ ~rcc_in_abort => Now = NoEvent

\* Timers fire between handlers only, and a channel being destroyed is aborted.
TimersIdle == pc # "idle" => Queued \cap TimerEvents = {}
DestroyAborts == pc \in {"destroy", "destroyed"} => rcc_in_abort

DInv == StreamsLater /\ Answers /\ Fresh /\ TimersIdle /\ DestroyAborts

-----------------------------------------------------------------------------
(***************************************************************************)
(* What it needs to know of the control plane.                             *)
(***************************************************************************)

\* INIT is left at once, by the event that fits the configuration.
Starting ==
    cstate = "INIT" => /\ cpc \in {"bind_rapid", "bind_slow"} /\ CBusy
                       /\ Current(cq) = IF "rcc" \in cfg THEN "RAPID_CHANNEL_CHANGE"
                                        ELSE "SLOW_CHANNEL_CHANGE"

\* RECEIVE_VALID_APP is worked on by the handler of the dataplane's answer, which
\* leaves WAIT_APP with it.
Answered ==
    /\ CBusy /\ Current(cq) = "RECEIVE_VALID_APP" => cpc = "app_valid"
    /\ cpc = "app_valid" => \/ cstate \in CFinal
                            \/ cstate = "WAIT_APP" /\ CBusy /\ Current(cq) = "RECEIVE_VALID_APP"

\* Which part of the control plane waits for which call.
Calls ==
    /\ ipc = "abort_rcc" => cstate = "ABORT" /\ Live /\ cp_abort
    /\ ipc = "destroy" => cpc \in {"destroy_final", "destroy_bye"}
    /\ cpc = "bind" => ipc = "none"

KInv == cfg \in Configs /\ "rcc" \in cfg /\ Starting /\ Answered /\ Calls

-----------------------------------------------------------------------------
(***************************************************************************)
(* How the two are coupled.                                                *)
(***************************************************************************)

\* A handler that a call has started runs on behalf of that call, and the
\* answer to an APP is there when its handler has ended.
CallInDataplane ==
    /\ called => ipc # "none"
    /\ pc \in AppHandler => called /\ ipc = "process_app"
    /\ called /\ ipc = "process_app" => app_ret # "none" \/ pc \in AppHandler
    /\ pc \in {"destroy", "destroyed"} => ~Live

\* The dataplane of an aborted control plane is aborted, or is about to be and
\* has not got an APP.
AbortPassedOn ==
    cp_abort /\ cstate # "INVALID" =>
        \/ rcc_in_abort
        \/ ipc = "abort_rcc" /\ ~called /\ apps = 0

\* The control plane believes in success only after an APP has taken the
\* dataplane out of INIT.
SuccessHasApp ==
    "rcc" \in cfg /\ (cstate = "FIN_SUCCESS" \/ cpc = "app_valid") =>
        state # "INIT" /\ apps # 0

\* Until it has an answer the dataplane has not got an APP, or is working on the
\* first one, or has refused it.
Waiting ==
    cstate \in {"INVALID", "INIT", "WAIT_APP"} /\ Live /\ cpc # "app_valid" =>
        \/ apps = 0 /\ ~rcc_in_abort
        \/ ipc = "process_app" /\ called /\ apps = 1 /\ cstate = "WAIT_APP"
        \/ /\ cstate = "WAIT_APP" /\ CBusy /\ Current(cq) = "RCC_IPC_ERR"
           /\ rcc_in_abort /\ state # "FIN_SUCCESS"

\* An abort of the dataplane is known, or told by an upcall, or about to be known
\* by the answer to the APP.
AbortKnown ==
    apps <= 1 /\ rcc_in_abort =>
        \/ cp_abort \/ upcalls["ABORT"] = 1 \/ ~Live
        \/ /\ ipc = "process_app" /\ called /\ cstate = "WAIT_APP"
           /\ pc \in AppErr \/ app_ret = "ERR"
        \/ cstate = "WAIT_APP" /\ CBusy /\ Current(cq) = "RCC_IPC_ERR"

\* A channel that is being destroyed destroys its dataplane first, if there is
\* one.
DataplaneGoes ==
    ~Live => \/ pc = "destroyed"
             \/ ipc = "destroy" /\ (called => pc = "destroy")
             \/ cstate = "INVALID" /\ ipc = "none" /\ apps = 0 /\ ~rcc_in_abort

Coupled == /\ CallInDataplane /\ AbortPassedOn /\ SuccessHasApp
           /\ Waiting /\ AbortKnown /\ DataplaneGoes

RInv == /\ IInv /\ JInv /\ DInv /\ CIInv /\ KInv /\ Coupled
        /\ called \in BOOLEAN /\ acked \subseteq {"NCSI", "ABORT"}

-----------------------------------------------------------------------------
(***************************************************************************)
(* What a step of the dataplane that no call starts does to what the       *)
(* coupling speaks of.                                                     *)
(***************************************************************************)
DpEffect ==
    /\ apps' = apps
    /\ rcc_in_abort => rcc_in_abort' = TRUE
    /\ rcc_in_abort' => rcc_in_abort \/ upcalls'["ABORT"] = 1
    /\ upcalls["ABORT"] = 1 => upcalls'["ABORT"] = 1
    /\ apps = 0 /\ ~rcc_in_abort => rcc_in_abort' = FALSE
    /\ state # "INIT" => state' # "INIT"
    /\ rcc_in_abort /\ state # "FIN_SUCCESS" => state' # "FIN_SUCCESS"
    /\ pc' \in AppHandler => pc \in AppHandler
    /\ pc \in AppHandler => pc' \in AppHandler \/ app_ret' # "none"
    /\ pc \in AppErr => pc' \in AppErr \/ app_ret' = "ERR"
    /\ app_ret' # app_ret => pc \in AppHandler
    /\ pc' \in {"destroy", "destroyed"} => pc \in {"destroy", "destroyed"}
    /\ pc = "destroy" => pc' \in {"destroy", "destroyed"}
    /\ pc = "destroyed" => pc' = "destroyed"

\* The streams that are on, and what a step of the dataplane is in RccAbs.
StreamsOn == joined \cup (IF er_en THEN {"er"} ELSE {})
AllStreams == {"primary", "fec", "er"}

DpMoves ==
    \/ AbsDp' = AbsDp /\ StreamsOn' = StreamsOn
    \/ /\ AbsDp = "idle" /\ AbsDp' = "running" /\ StreamsOn' = StreamsOn
       /\ pc = "set_firstseq_fil"
    \/ /\ AbsDp = "running" /\ AbsDp' = "running"
       /\ StreamsOn = {} /\ StreamsOn' = {"primary"}
    \/ /\ AbsDp = "running" /\ AbsDp' = "running"
       /\ StreamsOn = {"primary"} /\ StreamsOn' = {"primary", "er"}
    \/ /\ AbsDp = "running" /\ AbsDp' = "success" /\ apps # 0
       /\ StreamsOn = {"primary", "er"} /\ StreamsOn' = AllStreams
    \/ /\ AbsDp \in {"idle", "running"} /\ AbsDp' = "aborted"
       /\ StreamsOn' \in {StreamsOn, AllStreams}
    \/ /\ AbsDp = "aborted" /\ AbsDp' = "aborted"
       /\ StreamsOn \subseteq StreamsOn' /\ StreamsOn' \subseteq AllStreams
    \/ /\ AbsDp \in {"success", "aborted"} /\ AbsDp' = "gone" /\ StreamsOn' = StreamsOn

-----------------------------------------------------------------------------
(***************************************************************************)
(* The rounds of the loop in vqec_dp_sm_deliver_event().                   *)
(***************************************************************************)

\* What the two sets of streams make together.
LEMMA StreamsAre ==
    ASSUME IInv
    PROVE  /\ joined \subseteq {"primary", "fec"} /\ er_en \in BOOLEAN
           /\ StreamsOn \subseteq AllStreams
           /\ joined = {} /\ ~er_en => StreamsOn = {}
           /\ joined = {"primary"} /\ ~er_en => StreamsOn = {"primary"}
           /\ joined = {"primary"} /\ er_en => StreamsOn = {"primary", "er"}
           /\ joined = {"primary", "fec"} /\ er_en => StreamsOn = AllStreams
  BY DEF IInv, TypeOK, StreamsOn, AllStreams

\* A step that leaves the state, the streams, the abort mark and the answer alone.
LEMMA QuietStep ==
    ASSUME IInv, DInv, TimersIdle', Fresh',
           UNCHANGED <<state, apps, app_ret, rcc_in_abort, joined, er_en>>,
           upcalls'["ABORT"] = upcalls["ABORT"],
           \/ pc' = pc
           \/ pc \in {"idle", "rcv_one"} /\ pc' \in {"idle", "rcv_one"}
           \/ pc \in AppErr /\ pc' \in AppErr
    PROVE  DInv' /\ DpEffect /\ DpMoves
<1>1. rcc_in_abort \in BOOLEAN
  BY DEF IInv, TypeOK
<1>2. StreamsLater' /\ Answers' /\ DestroyAborts'
  BY DEF DInv, StreamsLater, Answers, DestroyAborts, AppErr, AppHandler
<1>3. DpEffect
  BY <1>1 DEF DpEffect, AppErr, AppHandler, DInv, Answers
<1>4. AbsDp' = AbsDp /\ StreamsOn' = StreamsOn
  BY DEF AbsDp, StreamsOn, AppErr
<1> QED
  BY <1>2, <1>3, <1>4 DEF DInv, DpMoves

\* A round queues nothing but INTERNAL_ERR and PRIMARY, and none is run before
\* there is an APP or an abort.
LEMMA RoundQueue ==
    ASSUME IInv, JInv, DInv, Busy, UNCHANGED <<pc, apps>>, rcc_in_abort => rcc_in_abort' = TRUE,
           {Now', Then'} \subseteq {Then, NoEvent, "INTERNAL_ERR", "PRIMARY"}
    PROVE  TimersIdle' /\ Fresh' /\ DestroyAborts' /\ pc # "destroyed"
           /\ (apps # 0 \/ rcc_in_abort)
<1>1. TimersIdle'
  BY DEF TimersIdle, DInv, Queued, TimerEvents, TimerEvent, Timers, NoEvent
<1>2. apps # 0 \/ rcc_in_abort
  BY QueueView DEF DInv, Fresh
<1>3. pc # "destroyed"
  BY DEF IInv, DestroyFinal
<1> QED
  BY <1>1, <1>2, <1>3 DEF DInv, Fresh, DestroyAborts

LEMMA IgnoreWhole ==
    ASSUME IInv, JInv, DInv, StepIgnore \/ StepAbsorb \/ StepSendNcsi
    PROVE  DInv' /\ DpEffect /\ DpMoves
<1>1. /\ Busy /\ Done(NoEvent, NoEvent, {})
      /\ UNCHANGED <<state, pc, cp_vars, rcc_in_abort, joined, er_en>>
      /\ upcalls'["ABORT"] = upcalls["ABORT"]
  <2>1. CASE StepIgnore \/ StepAbsorb
    BY <2>1 DEF StepIgnore, StepAbsorb, ch_vars
  <2>2. CASE StepSendNcsi
    <3>1. Upcall("NCSI") => upcalls'["ABORT"] = upcalls["ABORT"]
      BY DEF Upcall, IInv, TypeOK
    <3> QED
      BY <2>2, <3>1 DEF StepSendNcsi, On
  <2> QED
    BY <2>1, <2>2
<1>2. Now' = Then /\ Then' = NoEvent
  BY <1>1, DoneView
<1>3. TimersIdle' /\ Fresh'
  BY <1>1, <1>2, RoundQueue DEF cp_vars, IInv, TypeOK
<1> QED
  BY <1>1, <1>3, QuietStep DEF cp_vars

LEMMA StartRccWhole ==
    ASSUME IInv, JInv, DInv, NEW ok \in BOOLEAN, StepStartRcc(ok)
    PROVE  DInv' /\ DpEffect /\ DpMoves
<1> DEFINE e2 == ErrIf(~ok)
<1>1. /\ Busy /\ Done(NoEvent, e2, {StateTimer["WAIT_FIRST_SEQ"]})
      /\ state = "INIT" /\ Now = "START_RCC" /\ state' = "WAIT_FIRST_SEQ"
      /\ UNCHANGED <<pc, cp_vars, rcc_in_abort, joined, er_en, upcalls>>
  BY QueueView DEF StepStartRcc, On, Enter, ch_vars
<1>2. e2 \in Events \cup {NoEvent} /\ e2 \in {NoEvent, "INTERNAL_ERR"}
  BY DEF ErrIf, Events
<1> HIDE DEF e2
<1>3. Now' = e2 /\ Then' = NoEvent
  BY <1>1, <1>2, DoneView, QueueView DEF Final
<1>4. pc = "set_firstseq_fil" /\ rcc_in_abort \in BOOLEAN
  BY <1>1 DEF JInv, InitQuiet, IInv, TypeOK
<1>5. TimersIdle' /\ Fresh' /\ DestroyAborts'
  BY <1>1, <1>2, <1>3, <1>4, RoundQueue DEF cp_vars
<1>6. StreamsLater' /\ Answers'
  BY <1>1, <1>4 DEF DInv, StreamsLater, Answers, cp_vars, AppErr, AppHandler
<1>7. DpEffect
  BY <1>1, <1>4 DEF DpEffect, AppErr, AppHandler, cp_vars, DInv, Answers
<1>8. DpMoves
  BY <1>1, <1>4, StreamsAre DEF DpMoves, AbsDp, StreamsOn
<1> QED
  BY <1>5, <1>6, <1>7, <1>8 DEF DInv

LEMMA FirstRepairWhole ==
    ASSUME IInv, JInv, DInv, NEW ok \in BOOLEAN,
           NEW inserted \in {"none", "some", "all"}, NEW act \in BOOLEAN,
           StepFirstRepair(inserted, act, ok)
    PROVE  DInv' /\ DpEffect /\ DpMoves
<1> DEFINE e1 == ErrIf(~(app_paks /\ inserted = "all" /\ act))
           e2 == ErrIf(~ok)
<1>1. /\ Busy /\ Done(e1, e2, {StateTimer["WAIT_JOIN"]})
      /\ state = "WAIT_FIRST_SEQ" /\ state' = "WAIT_JOIN"
      /\ UNCHANGED <<pc, cp_vars, rcc_in_abort, joined, er_en, upcalls>>
  BY QueueView DEF StepFirstRepair, On, Enter
<1>2. /\ e1 \in Events \cup {NoEvent} /\ e1 \in {NoEvent, "INTERNAL_ERR"}
      /\ e2 \in Events \cup {NoEvent} /\ e2 \in {NoEvent, "INTERNAL_ERR"}
  BY DEF ErrIf, Events
<1> HIDE DEF e1, e2
<1>3. {Now', Then'} \subseteq {Then, e1, e2, NoEvent}
  BY <1>1, <1>2, DoneView, QueueView DEF Final
<1>4. pc # "destroyed" /\ rcc_in_abort \in BOOLEAN
  BY <1>1 DEF IInv, TypeOK, DestroyFinal
<1>5. TimersIdle' /\ Fresh' /\ DestroyAborts'
  BY <1>1, <1>2, <1>3, <1>4, RoundQueue DEF cp_vars
<1>6. StreamsLater' /\ Answers'
  BY <1>1, <1>4 DEF DInv, StreamsLater, Answers, cp_vars, AppErr, AppHandler
<1>7. DpEffect
  BY <1>1, <1>4 DEF DpEffect, AppErr, AppHandler, cp_vars, DInv, Answers
<1>8. DpMoves
  BY <1>1, <1>4, StreamsAre DEF DpMoves, AbsDp, StreamsOn
<1> QED
  BY <1>5, <1>6, <1>7, <1>8 DEF DInv

\* A round that leads from one state RCC goes on in to the next.
LEMMA RoundState ==
    ASSUME IInv, JInv, DInv, Busy, state \notin Final, state' \notin {"INIT", "FIN_SUCCESS"},
           UNCHANGED <<pc, cp_vars, rcc_in_abort, upcalls>>, StreamsLater',
           {Now', Then'} \subseteq {Then, NoEvent, "INTERNAL_ERR", "PRIMARY"}
    PROVE  /\ DInv' /\ DpEffect /\ pc # "destroyed"
           /\ rcc_in_abort => AbsDp = "aborted" /\ AbsDp' = "aborted"
           /\ ~rcc_in_abort /\ state # "INIT" /\ state' # "ABORT" =>
                 AbsDp = "running" /\ AbsDp' = "running"
<1>1. rcc_in_abort \in BOOLEAN
  BY DEF IInv, TypeOK
<1>2. TimersIdle' /\ Fresh' /\ DestroyAborts' /\ pc # "destroyed"
  BY <1>1, RoundQueue DEF cp_vars
<1>3. Answers'
  BY DEF DInv, Answers, cp_vars
<1>4. DpEffect
  BY <1>1, <1>2 DEF DpEffect, AppErr, AppHandler, cp_vars, DInv, Answers, Final
<1>5. /\ rcc_in_abort => AbsDp = "aborted" /\ AbsDp' = "aborted"
      /\ ~rcc_in_abort /\ state # "INIT" /\ state' # "ABORT" =>
            AbsDp = "running" /\ AbsDp' = "running"
  BY <1>1, <1>2 DEF AbsDp, Final
<1> QED
  BY <1>2, <1>3, <1>4, <1>5 DEF DInv

LEMMA PrimaryJoinWhole ==
    ASSUME IInv, JInv, DInv, NEW ok \in BOOLEAN, StepPrimaryJoin(ok)
    PROVE  DInv' /\ DpEffect /\ DpMoves
<1> DEFINE e2 == ErrIf(~ok)
<1>1. /\ Busy /\ Done(NoEvent, e2, {StateTimer["WAIT_EN_ER"]})
      /\ state = "WAIT_JOIN" /\ state' = "WAIT_EN_ER"
      /\ joined' = joined \cup {"primary"}
      /\ UNCHANGED <<pc, cp_vars, rcc_in_abort, er_en, upcalls>>
  BY QueueView DEF StepPrimaryJoin, On, Enter
<1>2. e2 \in Events \cup {NoEvent} /\ e2 \in {NoEvent, "INTERNAL_ERR"}
  BY DEF ErrIf, Events
<1> HIDE DEF e2
<1>3. {Now', Then'} \subseteq {Then, NoEvent, "INTERNAL_ERR", "PRIMARY"}
  BY <1>1, <1>2, DoneView, QueueView DEF Final
<1>4. state \notin Final /\ state' \notin {"INIT", "FIN_SUCCESS"} /\ StreamsLater'
  BY <1>1 DEF Final, DInv, StreamsLater
<1>5. /\ DInv' /\ DpEffect
      /\ rcc_in_abort => AbsDp = "aborted" /\ AbsDp' = "aborted"
      /\ ~rcc_in_abort => AbsDp = "running" /\ AbsDp' = "running"
  BY <1>1, <1>3, <1>4, RoundState
<1>6. joined \subseteq {"primary", "fec"} /\ er_en \in BOOLEAN
  BY StreamsAre
<1>7. ~rcc_in_abort => joined = {} /\ ~er_en
  BY <1>1, <1>6 DEF JInv, PrimaryCounted, Streaming, DInv, StreamsLater
<1>8. ~rcc_in_abort => StreamsOn = {} /\ StreamsOn' = {"primary"}
  BY <1>1, <1>7 DEF StreamsOn
<1>9. StreamsOn \subseteq StreamsOn' /\ StreamsOn' \subseteq AllStreams
  BY <1>1, <1>6 DEF StreamsOn, AllStreams
<1> QED
  BY <1>5, <1>8, <1>9 DEF DpMoves

LEMMA NotifyErEnWhole ==
    ASSUME IInv, JInv, DInv, NEW rep \in SUBSET Paks, NEW prim \in BOOLEAN,
           NEW ok \in BOOLEAN, StepNotifyErEn(rep, prim, ok)
    PROVE  DInv' /\ DpEffect /\ DpMoves
<1> DEFINE e1 == PrimaryIf(prim)
           e2 == ErrIf(~ok)
<1>1. /\ Busy /\ Done(e1, e2, {StateTimer["WAIT_END_BURST"]})
      /\ state = "WAIT_EN_ER" /\ state' = "WAIT_END_BURST" /\ er_en' = TRUE
      /\ UNCHANGED <<pc, cp_vars, rcc_in_abort, joined, upcalls>>
  BY QueueView DEF StepNotifyErEn, On, Enter, ErEnNotify
<1>2. /\ e1 \in Events \cup {NoEvent} /\ e1 \in {NoEvent, "PRIMARY"}
      /\ e2 \in Events \cup {NoEvent} /\ e2 \in {NoEvent, "INTERNAL_ERR"}
  BY DEF PrimaryIf, ErrIf, Events
<1> HIDE DEF e1, e2
<1>3. {Now', Then'} \subseteq {Then, NoEvent, "INTERNAL_ERR", "PRIMARY"}
  BY <1>1, <1>2, DoneView, QueueView DEF Final
<1>4. state \notin Final /\ state' \notin {"INIT", "FIN_SUCCESS"} /\ StreamsLater'
  BY <1>1 DEF Final, DInv, StreamsLater
<1>5. /\ DInv' /\ DpEffect
      /\ rcc_in_abort => AbsDp = "aborted" /\ AbsDp' = "aborted"
      /\ ~rcc_in_abort => AbsDp = "running" /\ AbsDp' = "running"
  BY <1>1, <1>3, <1>4, RoundState
<1>6. joined \subseteq {"primary", "fec"} /\ er_en \in BOOLEAN
  BY StreamsAre
<1>7. ~rcc_in_abort => joined = {"primary"} /\ ~er_en
  BY <1>1, <1>6 DEF JInv, BurstSeen, Streaming, DInv, StreamsLater
<1>8. ~rcc_in_abort => StreamsOn = {"primary"} /\ StreamsOn' = {"primary", "er"}
  BY <1>1, <1>7 DEF StreamsOn
<1>9. StreamsOn \subseteq StreamsOn' /\ StreamsOn' \subseteq AllStreams
  BY <1>1, <1>6 DEF StreamsOn, AllStreams
<1> QED
  BY <1>5, <1>8, <1>9 DEF DpMoves

\* Success is reached only if nothing has marked the channel aborted.
LEMMA SuccessWhole ==
    ASSUME IInv, JInv, DInv, StepSuccess
    PROVE  DInv' /\ DpEffect /\ DpMoves
<1>1. /\ Busy /\ Done(NoEvent, NoEvent, {}) /\ state = "WAIT_END_BURST"
      /\ Now = "TIME_END_BURST" /\ state' = "FIN_SUCCESS" /\ joined' = joined \cup {"fec"}
      /\ UNCHANGED <<pc, cp_vars, rcc_in_abort, er_en, upcalls>>
  BY QueueView DEF StepSuccess, On
<1>2. Now' = Then /\ Then' = NoEvent
  BY <1>1, DoneView
<1>3. pc = "idle"
  BY <1>1 DEF DInv, TimersIdle, Queued, TimerEvents, TimerEvent, Timers
<1>4. rcc_in_abort = FALSE
  BY <1>1, <1>3 DEF JInv, AbortCarried, AppErr, Final, IInv, TypeOK
<1>5. TimersIdle' /\ Fresh' /\ DestroyAborts' /\ apps # 0
  BY <1>1, <1>2, <1>4, RoundQueue DEF cp_vars
<1>6. StreamsLater' /\ Answers'
  BY <1>1, <1>3, <1>4 DEF DInv, StreamsLater, Answers, cp_vars, AppErr, AppHandler
<1>7. DpEffect
  BY <1>1, <1>3, <1>4 DEF DpEffect, AppErr, AppHandler, cp_vars
<1>8. joined \subseteq {"primary", "fec"} /\ er_en \in BOOLEAN
  BY StreamsAre
<1>9. joined = {"primary"} /\ er_en = TRUE
  BY <1>1, <1>4, <1>8 DEF JInv, BurstSeen, Streaming, DInv, StreamsLater
<1>10. StreamsOn = {"primary", "er"} /\ StreamsOn' = AllStreams
  BY <1>1, <1>9 DEF StreamsOn, AllStreams
<1>11. AbsDp = "running" /\ AbsDp' = "success"
  BY <1>1, <1>3, <1>4 DEF AbsDp
<1> QED
  BY <1>5, <1>6, <1>7, <1>10, <1>11 DEF DInv, DpMoves

LEMMA AbortWhole ==
    ASSUME IInv, JInv, DInv, NEW rep \in SUBSET Paks, NEW prim \in BOOLEAN,
           StepAbort(rep, prim)
    PROVE  DInv' /\ DpEffect /\ DpMoves
<1> DEFINE e1 == IF rcc_in_abort THEN NoEvent ELSE PrimaryIf(prim)
<1>1. /\ Busy /\ Done(e1, NoEvent, {}) /\ state \notin Final /\ state' = "ABORT"
      /\ UNCHANGED <<pc, cp_vars>>
  BY DEF StepAbort
<1>2. /\ rcc_in_abort => UNCHANGED <<rcc_in_abort, joined, er_en, upcalls>>
      /\ ~rcc_in_abort => /\ Upcall("ABORT") /\ joined' = {"primary", "fec"}
                          /\ er_en' = TRUE /\ rcc_in_abort' = TRUE
  BY DEF StepAbort, ErEnNotify
<1>3. e1 \in Events \cup {NoEvent} /\ e1 \in {NoEvent, "PRIMARY"}
  BY DEF PrimaryIf, Events
<1> HIDE DEF e1
<1>4. {Now', Then'} \subseteq {Then, NoEvent, "INTERNAL_ERR", "PRIMARY"}
  BY <1>1, <1>3, DoneView, QueueView
<1>5. rcc_in_abort \in BOOLEAN /\ rcc_in_abort' = TRUE
  BY <1>2 DEF IInv, TypeOK
<1>6. TimersIdle' /\ Fresh' /\ DestroyAborts' /\ pc # "destroyed" /\ (apps # 0 \/ rcc_in_abort)
  BY <1>1, <1>4, <1>5, RoundQueue DEF cp_vars
<1>7. StreamsLater' /\ Answers'
  BY <1>1, <1>5 DEF DInv, StreamsLater, Answers, cp_vars
<1>8. ~rcc_in_abort => upcalls'["ABORT"] = 1
  <2>1. upcalls["ABORT"] = 0
    BY <1>1 DEF JInv, AbortCarried, Final
  <2> QED
    BY <1>2, <2>1 DEF Upcall, IInv, TypeOK
<1>9. upcalls["ABORT"] = 1 => upcalls'["ABORT"] = 1
  BY <1>2, <1>8
<1>10. DpEffect
  BY <1>1, <1>5, <1>6, <1>8, <1>9 DEF DpEffect, AppErr, AppHandler, cp_vars, DInv, Answers
<1>11. AbsDp' = "aborted" /\ (rcc_in_abort => AbsDp = "aborted")
       /\ (~rcc_in_abort => AbsDp \in {"idle", "running"})
  BY <1>1, <1>5, <1>6 DEF AbsDp, Final
<1>12. /\ rcc_in_abort => StreamsOn' = StreamsOn
       /\ ~rcc_in_abort => StreamsOn' = AllStreams
  BY <1>2 DEF StreamsOn, AllStreams
<1> QED
  BY <1>6, <1>7, <1>10, <1>11, <1>12 DEF DInv, DpMoves

-----------------------------------------------------------------------------
(***************************************************************************)
(* Packets, timers, and what handlers do after deliver_event().            *)
(***************************************************************************)

\* Nothing is queued and no handler has deferred work: a channel without an APP
\* cannot be past INIT unless it is aborted.
LEMMA WithoutApp ==
    ASSUME IInv, JInv, apps = 0, ~rcc_in_abort
    PROVE  state = "INIT" /\ ~fil_act
  BY DEF JInv, OneApp, AbortCarried

LEMMA RcvPrimaryWhole ==
    ASSUME IInv, JInv, DInv, RcvPrimary
    PROVE  DInv' /\ DpEffect /\ DpMoves
<1>1. /\ pc = "idle" /\ pc' = pc /\ state # "INIT"
      /\ UNCHANGED <<state, apps, app_ret, rcc_in_abort, joined, er_en, upcalls>>
  BY DEF RcvPrimary, Idle, cp_vars
<1>2. TimersIdle' /\ Fresh'
  BY <1>1, WithoutApp DEF TimersIdle, Fresh
<1> QED
  BY <1>1, <1>2, QuietStep

LEMMA RcvRepairWhole ==
    ASSUME IInv, JInv, DInv, NEW p \in Paks, RcvRepair(p)
    PROVE  DInv' /\ DpEffect /\ DpMoves
<1>1. /\ ~Busy /\ pc = "idle"
      /\ UNCHANGED <<state, apps, app_ret, rcc_in_abort, joined, er_en, upcalls>>
  BY DEF RcvRepair, Idle, cp_vars, ch_vars
<1>2. \/ fil_act /\ FirstFound("rcv_one")
      \/ UNCHANGED <<q, pc>>
  BY DEF RcvRepair
<1>3. CASE fil_act /\ FirstFound("rcv_one")
  <2>1. Then' = NoEvent /\ Now' \in {"INTERNAL_ERR", "REPAIR", NoEvent} /\ pc' = "rcv_one"
    BY <1>1, <1>3, FirstFoundView
  <2>2. TimersIdle' /\ Fresh'
    BY <1>1, <1>3, <2>1, WithoutApp DEF TimersIdle, Fresh, Queued, TimerEvents,
       TimerEvent, Timers, NoEvent
  <2> QED
    BY <1>1, <2>1, <2>2, QuietStep
<1>4. CASE UNCHANGED <<q, pc>>
  <2>1. Now' = NoEvent /\ Then' = NoEvent
    BY <1>1, <1>4, HandlerKeeps
  <2>2. TimersIdle' /\ Fresh'
    BY <1>1, <1>4, <2>1 DEF TimersIdle, Fresh
  <2> QED
    BY <1>1, <1>4, <2>2, QuietStep
<1> QED
  BY <1>2, <1>3, <1>4

LEMMA RcvRestWhole ==
    ASSUME IInv, JInv, DInv, RcvRest
    PROVE  DInv' /\ DpEffect /\ DpMoves
<1>1. /\ ~Busy /\ pc = "rcv_one" /\ pc' = "idle" /\ UNCHANGED q
      /\ UNCHANGED <<state, apps, app_ret, rcc_in_abort, joined, er_en, upcalls>>
  BY DEF RcvRest, sm_vars, cp_vars, ch_vars
<1>2. Now' = NoEvent /\ Then' = NoEvent
  BY <1>1, HandlerKeeps
<1>3. TimersIdle' /\ Fresh'
  BY <1>1, <1>2 DEF TimersIdle, Fresh
<1> QED
  BY <1>1, <1>3, QuietStep

LEMMA TimeoutWhole ==
    ASSUME IInv, JInv, DInv, NEW t \in Timers, Timeout(t)
    PROVE  DInv' /\ DpEffect /\ DpMoves
<1>1. /\ pc = "idle" /\ pc' = pc /\ timer[t] = "armed"
      /\ UNCHANGED <<state, apps, app_ret, rcc_in_abort, joined, er_en, upcalls>>
  BY DEF Timeout, Idle, cp_vars, ch_vars
<1>2. state # "INIT"
  BY <1>1, WatchedIn DEF IInv, TypeOK, TimersWatched
<1>3. TimersIdle' /\ Fresh'
  BY <1>1, <1>2, WithoutApp DEF TimersIdle, Fresh
<1> QED
  BY <1>1, <1>3, QuietStep

LEMMA SetFirstseqFilWhole ==
    ASSUME IInv, JInv, DInv, SetFirstseqFil
    PROVE  DInv' /\ DpEffect /\ DpMoves
<1>1. /\ ~Busy /\ pc = "set_firstseq_fil"
      /\ app_ret' = IF rcc_in_abort THEN "ERR" ELSE "OK"
      /\ UNCHANGED <<state, apps, rcc_in_abort, joined, er_en, upcalls>>
  BY DEF SetFirstseqFil, ch_vars
<1>2. \/ pc' = "idle" /\ UNCHANGED q
      \/ FirstFound("idle")
  BY DEF SetFirstseqFil
<1>3. Now = NoEvent
  BY <1>1, HandlerTimers, QueueView DEF IInv, TypeOK, QueueOf, Busy
<1>4. /\ pc' = "idle" \/ (pc' = "rcv_one" /\ Now' \in {NoEvent, "REPAIR"})
      /\ Then' = NoEvent
  BY <1>1, <1>2, HandlerKeeps, FirstFoundView
<1>5. /\ state # "INIT" /\ apps # 0 /\ rcc_in_abort \in BOOLEAN
      /\ apps <= 1 => state # "FIN_SUCCESS"
  BY <1>1, <1>3 DEF JInv, InitQuiet, OneApp, DInv, Answers, AppHandler, IInv, TypeOK, NoEvent
<1>6. TimersIdle' /\ Fresh'
  BY <1>1, <1>4, <1>5 DEF TimersIdle, Fresh, Queued, TimerEvents, TimerEvent, Timers, NoEvent
<1>7. StreamsLater' /\ Answers' /\ DestroyAborts'
  BY <1>1, <1>4, <1>5 DEF DInv, StreamsLater, Answers, DestroyAborts, AppErr, AppHandler
<1>8. DpEffect
  BY <1>1, <1>4, <1>5 DEF DpEffect, AppErr, AppHandler
<1>9. AbsDp' = AbsDp /\ StreamsOn' = StreamsOn
  BY <1>1, <1>4 DEF AbsDp, StreamsOn
<1> QED
  BY <1>6, <1>7, <1>8, <1>9 DEF DInv, DpMoves

\* What follows the abort of a channel outside of the state machine: streams are
\* turned on, in no particular order.
LEMMA AbortedStep ==
    ASSUME IInv, JInv, DInv, pc \in AppErr \cup {"abort_rcc"},
           UNCHANGED <<state, apps, rcc_in_abort, upcalls>>,
           joined' \in {joined, {"primary", "fec"}}, er_en' \in {er_en, TRUE}, TimersIdle',
           \/ pc \in AppErr /\ pc' \in AppErr /\ app_ret' = app_ret
           \/ pc \in AppErr /\ pc' = "idle" /\ app_ret' = "ERR"
           \/ pc = "abort_rcc" /\ pc' = "idle" /\ app_ret' = app_ret
    PROVE  DInv' /\ DpEffect /\ DpMoves
<1>1. rcc_in_abort = TRUE
  BY DEF JInv, AbortCarried, IInv, TypeOK
<1>2. StreamsLater' /\ Fresh' /\ DestroyAborts'
  BY <1>1 DEF StreamsLater, Fresh, DestroyAborts
<1>3. Answers'
  BY <1>1 DEF DInv, Answers, AppErr, AppHandler
<1>4. DpEffect
  BY <1>1 DEF DpEffect, AppErr, AppHandler, DInv, Answers
<1>5. joined \subseteq {"primary", "fec"} /\ er_en \in BOOLEAN
  BY StreamsAre
<1>6. CASE state = "FIN_SUCCESS"
  <2>1. joined = {"primary", "fec"} /\ er_en = TRUE
    BY <1>5, <1>6 DEF JInv, BurstSeen, Streaming
  <2>2. StreamsOn' = StreamsOn /\ AbsDp' = AbsDp
    BY <1>6, <2>1 DEF StreamsOn, AbsDp, AppErr
  <2> QED
    BY <1>2, <1>3, <1>4, <2>2 DEF DInv, DpMoves
<1>7. CASE state # "FIN_SUCCESS"
  <2>1. AbsDp = "aborted" /\ AbsDp' = "aborted"
    BY <1>1, <1>7 DEF AbsDp, AppErr
  <2>2. StreamsOn \subseteq StreamsOn' /\ StreamsOn' \subseteq AllStreams
    BY <1>5 DEF StreamsOn, AllStreams
  <2> QED
    BY <1>2, <1>3, <1>4, <2>1, <2>2 DEF DInv, DpMoves
<1> QED
  BY <1>6, <1>7

LEMMA AppErrWhole ==
    ASSUME IInv, JInv, DInv,
           \/ \E rep \in SUBSET Paks : AppErrPoll(rep)
           \/ \E prim \in BOOLEAN : AppErrPrim(prim)
           \/ AppErrEnd
    PROVE  DInv' /\ DpEffect /\ DpMoves
<1>1. /\ ~Busy /\ UNCHANGED <<state, apps, rcc_in_abort, upcalls>>
      /\ joined' \in {joined, {"primary", "fec"}} /\ er_en' \in {er_en, TRUE}
      /\ \/ pc \in AppErr /\ pc' \in AppErr /\ app_ret' = app_ret
         \/ pc \in AppErr /\ pc' = "idle" /\ app_ret' = "ERR"
  <2>1. CASE \E rep \in SUBSET Paks : AppErrPoll(rep)
    BY <2>1 DEF AppErrPoll, AppErr, cp_vars
  <2>2. CASE \E prim \in BOOLEAN : AppErrPrim(prim)
    BY <2>2 DEF AppErrPrim, AppErr, cp_vars
  <2>3. CASE AppErrEnd
    BY <2>3 DEF AppErrEnd, AppErr
  <2> QED
    BY <2>1, <2>2, <2>3
<1>2. Now' \in {NoEvent, "INTERNAL_ERR", "REPAIR", "PRIMARY"} /\ Then' = NoEvent
  <2>1. \E e \in {"INTERNAL_ERR", "REPAIR", "PRIMARY"} : Deliver(e) \/ UNCHANGED q
    BY DEF AppErrPoll, AppErrPrim, AppErrEnd, DeliverIf
  <2>2. {"INTERNAL_ERR", "REPAIR", "PRIMARY"} \subseteq Events
    BY DEF Events
  <2> QED
    BY <1>1, <2>1, <2>2, DeliverView, HandlerKeeps
<1>3. TimersIdle'
  BY <1>2 DEF TimersIdle, Queued, TimerEvents, TimerEvent, Timers, NoEvent
<1> QED
  BY <1>1, <1>3, AbortedStep

LEMMA AbortActionsWhole ==
    ASSUME IInv, JInv, DInv, NEW rep \in SUBSET Paks, NEW prim \in BOOLEAN,
           AbortActions(rep, prim)
    PROVE  DInv' /\ DpEffect /\ DpMoves
<1>1. /\ pc = "abort_rcc" /\ pc' = "idle" /\ joined' = {"primary", "fec"} /\ er_en' = TRUE
      /\ UNCHANGED <<state, apps, app_ret, rcc_in_abort, upcalls>>
  BY DEF AbortActions, ErEnNotify, cp_vars
<1>2. TimersIdle'
  BY <1>1 DEF TimersIdle
<1> QED
  BY <1>1, <1>2, AbortedStep

LEMMA DestroyEndWhole ==
    ASSUME IInv, JInv, DInv, DestroyEnd
    PROVE  DInv' /\ DpEffect /\ DpMoves
<1>1. /\ ~Busy /\ pc = "destroy" /\ pc' = "destroyed" /\ UNCHANGED q
      /\ UNCHANGED <<state, apps, app_ret, rcc_in_abort, joined, er_en, upcalls>>
  BY DEF DestroyEnd, sm_vars, ch_vars, cp_vars
<1>2. Now' = NoEvent /\ Then' = NoEvent
  BY <1>1, HandlerKeeps
<1>3. state \in Final /\ rcc_in_abort = TRUE
  BY <1>1 DEF IInv, TypeOK, DestroyFinal, DInv, DestroyAborts
<1>4. TimersIdle' /\ Fresh' /\ DestroyAborts' /\ StreamsLater' /\ Answers'
  BY <1>1, <1>2, <1>3 DEF TimersIdle, Fresh, DestroyAborts, StreamsLater, DInv, Answers,
     Queued, TimerEvents, TimerEvent, Timers, NoEvent, AppErr, AppHandler
<1>5. DpEffect
  BY <1>1, <1>3 DEF DpEffect, AppErr, AppHandler
<1>6. AbsDp \in {"success", "aborted"} /\ AbsDp' = "gone" /\ StreamsOn' = StreamsOn
  BY <1>1, <1>3 DEF AbsDp, StreamsOn, Final
<1> QED
  BY <1>4, <1>5, <1>6 DEF DInv, DpMoves

\* All that the dataplane does without a call.
LEMMA DpStepWhole ==
    ASSUME IInv, JInv, DInv, DpHandler \/ Packet \/ \E t \in Timers : Timeout(t)
    PROVE  DInv' /\ DpEffect /\ DpMoves
<1>1. CASE Step
  BY <1>1, IgnoreWhole, SuccessWhole, StartRccWhole, FirstRepairWhole,
     PrimaryJoinWhole, NotifyErEnWhole, AbortWhole DEF Step
<1>2. CASE Resume
  BY <1>2, RcvRestWhole, SetFirstseqFilWhole, AppErrWhole, AbortActionsWhole,
     DestroyEndWhole DEF Resume
<1>3. CASE Packet
  BY <1>3, RcvPrimaryWhole, RcvRepairWhole DEF Packet
<1>4. CASE \E t \in Timers : Timeout(t)
  BY <1>4, TimeoutWhole
<1> QED
  BY <1>1, <1>2, <1>3, <1>4 DEF DpHandler

-----------------------------------------------------------------------------
(***************************************************************************)
(* The calls of the control plane.                                         *)
(***************************************************************************)

\* An APP is answered at once on an aborted channel; turned down, with the
\* channel aborted; or taken, with a handler that starts the burst.
AppTaken ==
    /\ pc = "idle" /\ apps' = apps + 1 /\ apps \in Nat
    /\ UNCHANGED <<state, joined, er_en, upcalls>>
    /\ \/ /\ rcc_in_abort /\ state # "INIT" /\ app_ret' = "OK"
          /\ UNCHANGED <<pc, rcc_in_abort>>
       \/ /\ ~rcc_in_abort /\ rcc_in_abort' = TRUE /\ app_ret' = app_ret
          /\ pc' = "app_err_poll"
       \/ /\ ~rcc_in_abort /\ rcc_in_abort' = FALSE /\ app_ret' = app_ret
          /\ pc' = "set_firstseq_fil"

LEMMA ProcessAppWhole ==
    ASSUME IInv, JInv, DInv, NEW resources \in BOOLEAN, ProcessApp(resources)
    PROVE  DInv' /\ DpMoves /\ AppTaken
<1>0. rcc_in_abort \in BOOLEAN /\ Now = NoEvent
  BY HandlerTimers, QueueView DEF ProcessApp, Idle, IInv, TypeOK, QueueOf, Busy
<1>1. rcc_in_abort /\ pc = "idle" => state # "INIT"
  BY <1>0 DEF JInv, AbortCarried, AppErr, Final, NoEvent
<1>2. AppTaken
  <2>1. /\ pc = "idle" /\ apps' = apps + 1 /\ UNCHANGED <<state, joined, er_en, upcalls>>
        /\ \/ rcc_in_abort /\ app_ret' = "OK" /\ UNCHANGED <<pc, rcc_in_abort>>
           \/ ~rcc_in_abort /\ rcc_in_abort' = TRUE /\ app_ret' = app_ret /\ pc' = "app_err_poll"
           \/ /\ ~rcc_in_abort /\ rcc_in_abort' = rcc_in_abort /\ app_ret' = app_ret
              /\ pc' = "set_firstseq_fil"
    BY DEF ProcessApp, Idle
  <2> QED
    BY <1>0, <1>1, <2>1 DEF AppTaken, IInv, TypeOK
<1>3. /\ Now' \in {NoEvent, "START_RCC"} /\ Then' = NoEvent
  <2>1. ~Busy /\ (UNCHANGED q \/ Deliver("START_RCC")) /\ "START_RCC" \in Events
    BY DEF ProcessApp, Idle, Events
  <2> QED
    BY <2>1, DeliverView, HandlerKeeps
<1>4. TimersIdle'
  BY <1>3 DEF TimersIdle, Queued, TimerEvents, TimerEvent, Timers, NoEvent
<1>5. apps' # 0 /\ apps' >= 1 /\ (apps' <= 1 => apps = 0) /\ (apps <= 1 \/ apps' > 1)
  BY <1>2 DEF AppTaken
<1>6. Fresh' /\ StreamsLater' /\ DestroyAborts'
  BY <1>2, <1>5 DEF Fresh, DestroyAborts, DInv, StreamsLater, AppTaken
<1>7. Answers'
  BY <1>2, <1>5 DEF AppTaken, DInv, Answers, AppErr, AppHandler, JInv, OneApp
<1>8. DpMoves
  BY <1>0, <1>2 DEF AppTaken, DpMoves, AbsDp, StreamsOn
<1> QED
  BY <1>2, <1>4, <1>6, <1>7, <1>8 DEF DInv

LEMMA AbortOrDestroyWhole ==
    ASSUME IInv, JInv, DInv, AbortRcc \/ Destroy
    PROVE  DInv' /\ DpMoves
<1>1. /\ ~Busy /\ pc = "idle" /\ pc' \in {"abort_rcc", "destroy"} /\ rcc_in_abort' = TRUE
      /\ Deliver("ABORT") /\ "ABORT" \in Events
      /\ UNCHANGED <<state, apps, app_ret, joined, er_en, upcalls>>
  BY DEF AbortRcc, Destroy, Idle, Events, cp_vars
<1>2. Now' = "ABORT" /\ Then' = NoEvent
  BY <1>1, DeliverView
<1>3. TimersIdle' /\ Fresh' /\ StreamsLater' /\ DestroyAborts'
  BY <1>1, <1>2 DEF TimersIdle, Fresh, StreamsLater, DestroyAborts, Queued, TimerEvents,
     TimerEvent, Timers, NoEvent
<1>4. Answers'
  BY <1>1 DEF DInv, Answers, AppErr, AppHandler
<1>5. DpMoves
  BY <1>1 DEF DpMoves, AbsDp, StreamsOn
<1> QED
  BY <1>3, <1>4, <1>5 DEF DInv

LEMMA DpKeeps ==
    ASSUME UNCHANGED vars
    PROVE  /\ DInv => DInv'
           /\ DpMoves
<1>1. /\ Now' = Now /\ Then' = Then
      /\ UNCHANGED <<state, pc, apps, app_ret, rcc_in_abort, joined, er_en>>
  BY DEF vars, sm_vars, ch_vars, cp_vars, Now, Then, At
<1>2. DInv => DInv'
  BY <1>1 DEF DInv, StreamsLater, Answers, Fresh, TimersIdle, DestroyAborts, Queued
<1>3. AbsDp' = AbsDp /\ StreamsOn' = StreamsOn
  BY <1>1 DEF AbsDp, StreamsOn
<1> QED
  BY <1>2, <1>3 DEF DpMoves

-----------------------------------------------------------------------------
(***************************************************************************)
(* The control plane: each of its steps keeps what the whole knows of it,  *)
(* and the coupling.                                                       *)
(***************************************************************************)

\* What a step of the control plane is in RccAbs.
CpMoves ==
    \/ AbsCp' = AbsCp
    \/ AbsCp = "asking" /\ AbsCp' = "started" /\ AbsDp # "idle"
    \/ AbsCp = "asking" /\ AbsCp' = "gave_up" /\ AbsDp \notin {"running", "success"}
    \/ AbsCp # "freed" /\ AbsCp' = "freed" /\ AbsDp \in {"idle", "gone"}

CpGood == KInv' /\ Coupled' /\ ("rcc" \in cfg => CpMoves)

\* The dataplane stands still meanwhile.
LEMMA DpStands ==
    ASSUME UNCHANGED vars
    PROVE  /\ UNCHANGED <<state, pc, apps, app_ret, rcc_in_abort, joined, er_en, upcalls>>
           /\ AbsDp' = AbsDp /\ StreamsOn' = StreamsOn
<1>1. UNCHANGED <<state, pc, apps, app_ret, rcc_in_abort, joined, er_en, upcalls>>
  BY DEF vars, sm_vars, ch_vars, cp_vars
<1> QED
  BY <1>1 DEF AbsDp, StreamsOn

\* An event that a timer, a NAT binding or a packet delivers, an upcall, or the
\* end of binding.
LEMMA QuietCp ==
    ASSUME RInv, UNCHANGED vars, UNCHANGED <<called, cstate, ipc, cp_abort, cfg>>, CIdle,
           cpc' = cpc,
           \/ UNCHANGED cq
           \/ CBusy' /\ Current(cq') \notin {"RECEIVE_VALID_APP", "RCC_IPC_ERR"}
    PROVE  CpGood
<1>1. /\ ~CBusy /\ ipc = "none" /\ cpc = "idle"
      /\ ~CBusy' \/ Current(cq') \notin {"RECEIVE_VALID_APP", "RCC_IPC_ERR"}
  BY DEF CIdle, Running, CBusy
<1>2. KInv'
  BY <1>1 DEF RInv, KInv, Starting, Answered, Calls, Live
<1>3. Coupled'
  BY <1>1, DpStands DEF RInv, Coupled, CallInDataplane, AbortPassedOn, SuccessHasApp, Waiting,
     AbortKnown, DataplaneGoes, Live
<1>4. AbsCp' = AbsCp
  BY DEF AbsCp
<1> QED
  BY <1>2, <1>3, <1>4 DEF CpGood, CpMoves

LEMMA NothingCp ==
    ASSUME RInv, UNCHANGED vars, UNCHANGED called, CStepNothing
    PROVE  CpGood
<1>1. /\ CBusy /\ (CTransition(cstate, Current(cq)) = "INVALID" \/ cstate \in CFinal)
      /\ UNCHANGED <<cstate, cpc, ipc, cp_abort, cfg>>
  BY DEF CStepNothing, cch_vars
<1>2. ~CBusy'
  BY CDoneOkQueue DEF CStepNothing, RInv, CIInv, CBusy
<1>3. /\ cstate # "INIT"
      /\ cstate = "WAIT_APP" => Current(cq) \notin {"RECEIVE_VALID_APP", "RCC_IPC_ERR"}
  BY <1>1 DEF CTransition, CFinal, RInv, KInv, Starting
<1>4. KInv'
  BY <1>1, <1>2, <1>3 DEF RInv, KInv, Starting, Answered, Calls, Live
<1>5. Coupled'
  BY <1>1, <1>2, <1>3, DpStands DEF RInv, Coupled, CallInDataplane, AbortPassedOn,
     SuccessHasApp, Waiting, AbortKnown, DataplaneGoes, Live
<1>6. AbsCp' = AbsCp
  BY <1>1 DEF AbsCp
<1> QED
  BY <1>4, <1>5, <1>6 DEF CpGood, CpMoves

\* INIT is left, by a rapid or by a slow channel change, or the NAK-PLI is sent.
LEMMA StartCp ==
    ASSUME RInv, UNCHANGED vars, UNCHANGED called,
           CStepSlow \/ \E ok \in BOOLEAN : CStepRapid(ok) \/ CStepNakpli(ok)
    PROVE  CpGood
<1>1. PICK ok \in BOOLEAN :
         /\ CBusy /\ CDone(ok) /\ UNCHANGED <<cpc, ipc, cp_abort, cfg>>
         /\ \/ /\ cstate = "INIT" /\ cstate' = "FIN_SUCCESS" /\ ok
               /\ Current(cq) = "SLOW_CHANNEL_CHANGE"
            \/ cstate = "INIT" /\ cstate' = "WAIT_APP"
            \/ cstate = "WAIT_APP" /\ cstate' = "WAIT_APP" /\ Current(cq) = "NAT_BINDING_COMPLETE"
  <2>1. CASE CStepSlow
    <3>1. TRUE \in BOOLEAN
      OBVIOUS
    <3> QED
      BY <2>1, <3>1 DEF CStepSlow, COn, cch_vars
  <2>2. CASE \E ok \in BOOLEAN : CStepRapid(ok)
    BY <2>2 DEF CStepRapid, COn
  <2>3. CASE \E ok \in BOOLEAN : CStepNakpli(ok)
    BY <2>3 DEF CStepNakpli, COn
  <2> QED
    BY <2>1, <2>2, <2>3
<1>2. CBusy' => Current(cq') = "RCC_INTERNAL_ERR"
  BY <1>1, CDoneQueue DEF RInv, CIInv, CBusy
<1>3. /\ cstate = "INIT" => cpc \in {"bind_rapid", "bind_slow"}
      /\ cstate' = "FIN_SUCCESS" => "rcc" \notin cfg
  BY <1>1 DEF RInv, KInv, Starting
<1>4. KInv'
  BY <1>1, <1>2, <1>3 DEF RInv, KInv, Starting, Answered, Calls, Live, CFinal
<1>5. Coupled'
  BY <1>1, <1>2, <1>3, DpStands DEF RInv, Coupled, CallInDataplane, AbortPassedOn,
     SuccessHasApp, Waiting, AbortKnown, DataplaneGoes, Live
<1>6. "rcc" \in cfg => AbsCp' = AbsCp
  BY <1>1, <1>3 DEF AbsCp
<1> QED
  BY <1>4, <1>5, <1>6 DEF CpGood, CpMoves

\* Success, which the dataplane has answered.
LEMMA ValidAppCp ==
    ASSUME RInv, UNCHANGED vars, UNCHANGED called, CStepValidApp
    PROVE  CpGood
<1>1. /\ CBusy /\ cstate = "WAIT_APP" /\ Current(cq) = "RECEIVE_VALID_APP" /\ ipc = "none"
      /\ cstate' = "FIN_SUCCESS" /\ UNCHANGED <<cpc, ipc, cp_abort, cfg>>
  BY DEF CStepValidApp, COn, Running
<1>2. ~CBusy'
  BY CDoneOkQueue DEF CStepValidApp, COn, RInv, CIInv, CBusy
<1>3. cpc = "app_valid"
  BY <1>1 DEF RInv, KInv, Answered
<1>4. KInv'
  BY <1>1, <1>2, <1>3 DEF RInv, KInv, Starting, Answered, Calls, Live, CFinal
<1>5. Coupled'
  BY <1>1, <1>2, <1>3, DpStands DEF RInv, Coupled, CallInDataplane, AbortPassedOn,
     SuccessHasApp, Waiting, AbortKnown, DataplaneGoes, Live
<1>6. "rcc" \in cfg => AbsDp # "idle"
  BY <1>1, <1>3 DEF RInv, Coupled, SuccessHasApp, AbsDp
<1>7. AbsCp = "asking" /\ AbsCp' = "started"
  BY <1>1, <1>3 DEF AbsCp
<1> QED
  BY <1>4, <1>5, <1>6, <1>7 DEF CpGood, CpMoves

\* The abort: the dataplane has no APP yet, or is aborted already.
LEMMA AbortCp ==
    ASSUME RInv, UNCHANGED vars, UNCHANGED called, CStepAbort
    PROVE  CpGood
<1>1. /\ CBusy /\ cstate = "WAIT_APP" /\ CTransition(cstate, Current(cq)) = "ABORT"
      /\ ipc = "none" /\ cstate' = "ABORT" /\ UNCHANGED <<cpc, cfg>> /\ CDone(TRUE)
      /\ \/ cp_abort /\ UNCHANGED <<ipc, cp_abort>>
         \/ ~cp_abort /\ ipc' = "abort_rcc" /\ cp_abort' = TRUE
  BY DEF CStepAbort, AbortNotify, Running
<1>2. ~CBusy' /\ cp_abort \in BOOLEAN /\ rcc_in_abort \in BOOLEAN
  BY <1>1, CDoneOkQueue DEF RInv, CIInv, CBusy, CTypeOK, IInv, TypeOK
<1>3. Current(cq) # "RECEIVE_VALID_APP" /\ cpc # "app_valid"
  BY <1>1 DEF CTransition, CFinal, RInv, KInv, Answered
<1>4. /\ ~cp_abort => Live
      /\ ~called /\ cpc \notin {"bind", "freed"}
  BY <1>1 DEF RInv, CIInv, Phases, CTypeOK, CPCs, Live, Coupled, CallInDataplane
<1>5. \/ ~Live /\ pc = "destroyed"
      \/ Live /\ apps = 0 /\ ~rcc_in_abort
      \/ Live /\ rcc_in_abort /\ state # "FIN_SUCCESS"
  BY <1>1, <1>3, <1>4 DEF RInv, Coupled, Waiting, DataplaneGoes
<1>6. rcc_in_abort \/ (apps = 0 /\ ~cp_abort)
  BY <1>1, <1>4, <1>5 DEF RInv, DInv, DestroyAborts, Coupled, AbortPassedOn
<1>7. KInv'
  BY <1>1, <1>2, <1>3, <1>4 DEF RInv, KInv, Starting, Answered, Calls, Live
<1>8. Coupled'
  BY <1>1, <1>2, <1>3, <1>4, <1>5, <1>6, DpStands DEF RInv, Coupled, CallInDataplane,
     AbortPassedOn, SuccessHasApp, Waiting, AbortKnown, DataplaneGoes, Live
<1>9. AbsDp \notin {"running", "success"}
  BY <1>2, <1>5, WithoutApp DEF AbsDp, RInv
<1>10. AbsCp = "asking" /\ AbsCp' = "gave_up"
  BY <1>1, <1>4 DEF AbsCp
<1> QED
  BY <1>7, <1>8, <1>9, <1>10 DEF CpGood, CpMoves

LEMMA BindCp ==
    ASSUME RInv, UNCHANGED vars, UNCHANGED called, Bind
    PROVE  CpGood
<1> DEFINE e == IF "rcc" \in cfg THEN "RAPID_CHANNEL_CHANGE" ELSE "SLOW_CHANNEL_CHANGE"
<1>1. /\ cpc = "bind" /\ cstate' = "INIT" /\ cpc' \in {"bind_rapid", "bind_slow"}
      /\ cq' = Lease(cq, e) /\ UNCHANGED <<ipc, cp_abort, cfg>>
  BY DEF Bind, cch_vars
<1>2. e \in CEvents /\ e \notin {"RECEIVE_VALID_APP", "RCC_IPC_ERR"}
  BY DEF CEvents
<1>3. CBusy' /\ Current(cq') = e
  <2>1. cq.depth = 0 /\ cq.idx \in Slot /\ cq.cur \in Slot /\ RingConsistent(cq)
        /\ cq \in QueueOf(CEvents) /\ cq.slot \in [Slot -> CEvents \cup {NoEvent}]
    BY <1>1 DEF RInv, CIInv, Phases, CTypeOK, CQueueInOrder, CBusy, QueueOf
  <2>2. cq.idx = cq.cur
    BY <2>1 DEF RingConsistent, Dist, Slot, MAX_EVENTQ_DEPTH
  <2> HIDE DEF e
  <2>3. cq'.depth = 1 /\ cq'.cur = cq.cur /\ cq'.slot = [cq.slot EXCEPT ![cq.idx] = e]
    BY <1>1, <1>2, <2>1, LeaseType
  <2> QED
    BY <2>1, <2>2, <2>3 DEF Current, CBusy
<1>4. cstate = "INVALID" /\ ~cp_abort /\ ipc = "none"
  BY <1>1 DEF RInv, CIInv, Phases, Counting, KInv, Calls
<1>5. KInv'
  BY <1>1, <1>2, <1>3, <1>4 DEF RInv, KInv, Starting, Answered, Calls
<1>6. Coupled'
  BY <1>1, <1>2, <1>3, <1>4, DpStands DEF RInv, Coupled, CallInDataplane,
     AbortPassedOn, SuccessHasApp, Waiting, AbortKnown, DataplaneGoes, Live
<1>7. AbsCp' = AbsCp
  BY <1>1, <1>4 DEF AbsCp
<1> QED
  BY <1>5, <1>6, <1>7 DEF CpGood, CpMoves

\* The destruction of the channel starts: from here on the dataplane is
\* destroyed first, if it has been created.
LEMMA DestroyCp ==
    ASSUME RInv, UNCHANGED vars, UNCHANGED called,
           \/ BindUndo
           \/ \E graph \in BOOLEAN : BindFail(graph)
           \/ \E final \in BOOLEAN : Unbind(final)
    PROVE  CpGood
<1>1. /\ UNCHANGED <<cstate, cq, cp_abort, cfg>> /\ ipc = "none" /\ ~CBusy
      /\ cpc' \in {"destroy_final", "destroy_bye"} /\ Live
      /\ \/ ipc' = "destroy"
         \/ ipc' = "none" /\ cpc = "bind"
  <2>1. CASE BindUndo
    BY <2>1 DEF BindUndo, StartDestroy, csm_vars, Running, Live
  <2>2. CASE \E graph \in BOOLEAN : BindFail(graph)
    BY <2>2 DEF BindFail, StartDestroy, csm_vars, RInv, KInv, Calls, CIInv, Phases, Live
  <2>3. CASE \E final \in BOOLEAN : Unbind(final)
    BY <2>3 DEF Unbind, StartDestroy, csm_vars, CIdle, Running, Live
  <2> QED
    BY <2>1, <2>2, <2>3
<1>2. ~CBusy' /\ ~Live' /\ ~called
  BY <1>1 DEF CBusy, Live, RInv, Coupled, CallInDataplane
<1>3. /\ cstate # "INIT"
      /\ cpc = "bind" => cstate = "INVALID" /\ apps = 0 /\ ~rcc_in_abort
  BY <1>1 DEF RInv, KInv, Starting, CIInv, Phases, Coupled, Waiting
<1>4. KInv'
  BY <1>1, <1>2, <1>3 DEF RInv, KInv, Starting, Answered, Calls
<1>5. Coupled'
  BY <1>1, <1>2, <1>3, DpStands DEF RInv, Coupled, CallInDataplane,
     AbortPassedOn, SuccessHasApp, Waiting, AbortKnown, DataplaneGoes
<1>6. AbsCp' = AbsCp
  BY <1>1 DEF AbsCp, Live
<1> QED
  BY <1>4, <1>5, <1>6 DEF CpGood, CpMoves

\* The rest of binding, and of the handler of an APP.
LEMMA ResumeCp ==
    ASSUME RInv, UNCHANGED vars, UNCHANGED called,
           BindRapid \/ BindEnd \/ \E fill \in BOOLEAN : AppEnd(fill)
    PROVE  CpGood
<1>1. /\ UNCHANGED <<cstate, ipc, cp_abort, cfg>> /\ ipc = "none" /\ ~CBusy
      /\ cpc \in {"bind_rapid", "bind_nat", "bind_slow", "app_valid"}
      /\ cpc' \in {"bind_nat", "idle"}
      /\ UNCHANGED cq \/ CDeliver("NAT_BINDING_COMPLETE")
  <2>1. CASE BindRapid
    BY <2>1 DEF BindRapid, Running
  <2>2. CASE BindEnd
    BY <2>2 DEF BindEnd, Running, csm_vars
  <2>3. CASE \E fill \in BOOLEAN : AppEnd(fill)
    BY <2>3 DEF AppEnd, Running, csm_vars, cch_vars
  <2> QED
    BY <2>1, <2>2, <2>3
<1>2. cstate # "INIT" /\ cstate # "INVALID" /\ (cpc = "app_valid" => cstate \in CFinal)
  BY <1>1 DEF RInv, KInv, Starting, Answered, CIInv, Phases
<1>3. CBusy' => Current(cq') = "NAT_BINDING_COMPLETE"
  <2>1. "NAT_BINDING_COMPLETE" \in CEvents
    BY DEF CEvents
  <2>2. CASE UNCHANGED cq
    BY <1>1, <2>2 DEF CBusy
  <2>3. CASE CDeliver("NAT_BINDING_COMPLETE")
    BY <1>1, <1>2, <2>1, <2>3, CDeliverQueue DEF RInv, CIInv
  <2> QED
    BY <1>1, <2>2, <2>3
<1>4. KInv'
  BY <1>1, <1>2, <1>3 DEF RInv, KInv, Starting, Answered, Calls, Live
<1>5. Coupled'
  BY <1>1, <1>2, <1>3, DpStands DEF RInv, Coupled, CallInDataplane, CFinal,
     AbortPassedOn, SuccessHasApp, Waiting, AbortKnown, DataplaneGoes, Live
<1>6. AbsCp' = AbsCp
  BY <1>1 DEF AbsCp
<1> QED
  BY <1>4, <1>5, <1>6 DEF CpGood, CpMoves

\* The dataplane is destroyed when the state machine is told.
LEMMA DeinitCp ==
    ASSUME RInv, UNCHANGED vars, UNCHANGED called, DeinitSm
    PROVE  CpGood
<1>1. /\ UNCHANGED <<cstate, ipc, cfg>> /\ ipc = "none" /\ ~CBusy /\ cp_abort' = TRUE
      /\ cpc \in {"destroy_final", "destroy_bye"} /\ cpc' \in {"deinit_final", "deinit_bye"}
      /\ IF cstate = "INVALID" THEN UNCHANGED cq ELSE CDeliver("CHAN_DEINIT")
  BY DEF DeinitSm, Running
<1>2. CBusy' => Current(cq') = "CHAN_DEINIT"
  <2>1. "CHAN_DEINIT" \in CEvents
    BY DEF CEvents
  <2>2. CASE cstate = "INVALID"
    BY <1>1, <2>2 DEF CBusy
  <2>3. CASE cstate # "INVALID"
    BY <1>1, <2>1, <2>3, CDeliverQueue DEF RInv, CIInv
  <2> QED
    BY <2>2, <2>3
<1>3. cstate # "INIT" /\ ~Live /\ ~Live'
  BY <1>1 DEF RInv, KInv, Starting, Live
<1>4. cstate # "INVALID" => rcc_in_abort
  BY <1>1, <1>3 DEF RInv, Coupled, DataplaneGoes, DInv, DestroyAborts
<1>5. KInv'
  BY <1>1, <1>2, <1>3 DEF RInv, KInv, Starting, Answered, Calls
<1>6. Coupled'
  BY <1>1, <1>2, <1>3, <1>4, DpStands DEF RInv, Coupled, CallInDataplane,
     AbortPassedOn, SuccessHasApp, Waiting, AbortKnown, DataplaneGoes
<1>7. AbsCp' = AbsCp
  BY <1>1 DEF AbsCp
<1> QED
  BY <1>5, <1>6, <1>7 DEF CpGood, CpMoves

\* The channel is freed, or stays for its BYEs.
LEMMA FreeCp ==
    ASSUME RInv, UNCHANGED vars, UNCHANGED called,
           DeinitFinal \/ \E byes \in BOOLEAN : DestroyChan(byes)
    PROVE  CpGood
<1>1. /\ UNCHANGED <<cstate, cq, ipc, cp_abort, cfg>> /\ cpc' \in {"shutdown", "freed"}
      /\ \/ cpc = "shutdown"
         \/ cpc \in {"deinit_final", "deinit_bye"} /\ ipc = "none" /\ ~CBusy
  BY DEF DeinitFinal, DestroyChan, Running, csm_vars, cch_vars
<1>2. /\ ~CBusy /\ ~CBusy' /\ cstate # "INIT" /\ ~Live /\ ~Live' /\ ipc = "none"
  <2>1. ~CBusy /\ ~Live /\ ~Live'
    BY <1>1 DEF RInv, CIInv, Phases, Live
  <2>2. ipc = "none"
    BY <1>1, <2>1 DEF RInv, CIInv, CTypeOK, Phases, KInv, Calls
  <2> QED
    BY <1>1, <2>1, <2>2 DEF CBusy, RInv, KInv, Starting
<1>3. pc = "destroyed" \/ (cstate = "INVALID" /\ apps = 0 /\ ~rcc_in_abort)
  BY <1>2 DEF RInv, Coupled, DataplaneGoes
<1>4. KInv'
  BY <1>1, <1>2 DEF RInv, KInv, Starting, Answered, Calls
<1>5. Coupled'
  BY <1>1, <1>2, DpStands DEF RInv, Coupled, CallInDataplane,
     AbortPassedOn, SuccessHasApp, Waiting, AbortKnown, DataplaneGoes
<1>6. AbsDp \in {"idle", "gone"}
  BY <1>3, WithoutApp DEF AbsDp, RInv, IInv, TypeOK
<1>7. AbsCp' = AbsCp \/ (AbsCp # "freed" /\ AbsCp' = "freed")
  BY <1>1 DEF AbsCp
<1> QED
  BY <1>4, <1>5, <1>6, <1>7 DEF CpGood, CpMoves

LEMMA RcvAppCp ==
    ASSUME RInv, UNCHANGED vars, UNCHANGED called, NEW timer0, RcvApp(timer0)
    PROVE  CpGood
<1>1. /\ UNCHANGED <<cstate, cq, cpc, cp_abort, cfg>> /\ ipc = "none" /\ ipc' = "process_app"
      /\ ~CBusy /\ ~CBusy' /\ cpc = "idle"
  BY DEF RcvApp, CIdle, Running, csm_vars, CBusy
<1>2. ~called
  BY <1>1 DEF RInv, Coupled, CallInDataplane
<1>3. KInv'
  BY <1>1 DEF RInv, KInv, Starting, Answered, Calls
<1>4. Coupled'
  BY <1>1, <1>2, DpStands DEF RInv, Coupled, CallInDataplane,
     AbortPassedOn, SuccessHasApp, Waiting, AbortKnown, DataplaneGoes, Live
<1>5. AbsCp' = AbsCp
  BY <1>1 DEF AbsCp
<1> QED
  BY <1>3, <1>4, <1>5 DEF CpGood, CpMoves

\* All that the control plane does without an answer.
LEMMA OwnCp ==
    ASSUME RInv, UNCHANGED vars, UNCHANGED called, CNextOwn
    PROVE  CpGood
<1>1. CASE CStep
  BY <1>1, NothingCp, StartCp, ValidAppCp, AbortCp DEF CStep
<1>2. CASE CResume
  BY <1>2, BindCp, DestroyCp, ResumeCp, DeinitCp, FreeCp DEF CResume
<1>3. CASE \E timer0 \in {"null", "stopped", "armed"} : RcvApp(timer0)
  BY <1>3, RcvAppCp
<1>4. CASE DeinitFinal
  BY <1>4, FreeCp
<1>5. CASE \E final \in BOOLEAN : Unbind(final)
  BY <1>5, DestroyCp
<1>6. CASE MrbTimeout /\ ~CIdle
  <2>1. /\ UNCHANGED <<cstate, cq, cpc, ipc, cp_abort, cfg>> /\ cpc = "shutdown"
    BY <1>6 DEF MrbTimeout, csm_vars
  <2>2. KInv'
    BY <2>1 DEF RInv, KInv, Starting, Answered, Calls, CBusy, Live
  <2>3. Coupled'
    BY <2>1, DpStands DEF RInv, Coupled, CallInDataplane, AbortPassedOn, SuccessHasApp,
       Waiting, AbortKnown, DataplaneGoes, Live, CBusy
  <2>4. AbsCp' = AbsCp
    BY <2>1 DEF AbsCp
  <2> QED
    BY <2>2, <2>3, <2>4 DEF CpGood, CpMoves
<1>7. CASE /\ CIdle
           /\ \/ AppTimeout \/ ErFastTimeout \/ MrbTimeout
              \/ \E b \in {"rtp", "rtcp"} : NatBindUpdate(b)
              \/ \E e \in BadApp : RcvBadApp(e)
  <2> DEFINE E == {"RCC_START_TIMEOUT", "NAT_BINDING_COMPLETE"} \cup BadApp
  <2>1. /\ UNCHANGED <<cstate, cpc, ipc, cp_abort, cfg>>
        /\ UNCHANGED cq \/ \E e \in E : CDeliver(e)
    <3>1. CASE AppTimeout
      BY <3>1 DEF AppTimeout
    <3>2. CASE ErFastTimeout \/ MrbTimeout
      BY <3>2 DEF ErFastTimeout, MrbTimeout, csm_vars
    <3>3. CASE \E b \in {"rtp", "rtcp"} : NatBindUpdate(b)
      BY <3>3 DEF NatBindUpdate
    <3>4. CASE \E e \in BadApp : RcvBadApp(e)
      BY <3>4 DEF RcvBadApp, cch_vars
    <3> QED
      BY <1>7, <3>1, <3>2, <3>3, <3>4
  <2>2. E \subseteq CEvents /\ "RECEIVE_VALID_APP" \notin E /\ "RCC_IPC_ERR" \notin E
    BY DEF BadApp, CEvents
  <2> HIDE DEF E
  <2>3. ~CBusy /\ cpc = "idle" /\ cstate # "INVALID"
    BY <1>7 DEF CIdle, RInv, CIInv, Phases
  <2>4. CASE UNCHANGED cq
    BY <1>7, <2>1, <2>4, QuietCp
  <2>5. CASE \E e \in E : CDeliver(e)
    <3>1. PICK e \in E : CDeliver(e)
      BY <2>5
    <3>2. cq'.depth = 1 /\ Current(cq') = e
      BY <2>2, <2>3, <3>1, CDeliverQueue DEF RInv, CIInv
    <3>3. CBusy' /\ Current(cq') \notin {"RECEIVE_VALID_APP", "RCC_IPC_ERR"}
      BY <2>2, <3>2 DEF CBusy
    <3> QED
      BY <1>7, <2>1, <3>3, QuietCp
  <2> QED
    BY <2>1, <2>4, <2>5
<1>8. AppTimeout \/ ErFastTimeout \/ (\E b \in {"rtp", "rtcp"} : NatBindUpdate(b))
         \/ (\E e \in BadApp : RcvBadApp(e)) => CIdle
  BY DEF AppTimeout, ErFastTimeout, NatBindUpdate, RcvBadApp
<1> QED
  BY <1>1, <1>2, <1>3, <1>4, <1>5, <1>6, <1>7, <1>8 DEF CNextOwn, RcvPacket

-----------------------------------------------------------------------------
(***************************************************************************)
(* Calls, answers and upcalls.                                             *)
(***************************************************************************)

\* The answer to an APP.
LEMMA AppReturnCp ==
    ASSUME RInv, UNCHANGED vars, NEW r \in {"OK", "INVALID_APP", "ERR"},
           \/ r = "INVALID_APP" /\ ~called
           \/ r = app_ret /\ called /\ (Idle \/ pc = "destroyed"),
           called' = FALSE, AppReturn(r)
    PROVE  CpGood
<1> DEFINE e == CASE r = "OK" -> "RECEIVE_VALID_APP"
                  [] r = "INVALID_APP" -> "RECEIVE_INVALID_APP"
                  [] r = "ERR" -> "RCC_IPC_ERR"
<1>1. /\ ipc = "process_app" /\ ipc' = "none" /\ CDeliver(e)
      /\ cpc' = (IF r = "OK" THEN "app_valid" ELSE "idle")
      /\ UNCHANGED <<cstate, cp_abort, cfg>>
  BY DEF AppReturn, cch_vars
<1>2. /\ cpc = "idle" /\ ~CBusy /\ cstate \in {"WAIT_APP", "FIN_SUCCESS", "ABORT"}
      /\ "rcc" \in cfg /\ Live
  BY <1>1 DEF RInv, CIInv, CTypeOK, CStates, Phases, KInv, Starting, Calls, Live
<1>3. /\ called => pc = "idle" /\ app_ret \in {"OK", "ERR"} /\ r = app_ret /\ apps # 0
      /\ ~called => r = "INVALID_APP"
  BY <1>1, <1>2 DEF RInv, Coupled, CallInDataplane, Idle, AppHandler, AppErr, IInv, TypeOK,
     DInv, Answers
<1>4. /\ r = "OK" => e = "RECEIVE_VALID_APP" /\ called /\ state # "INIT" /\ apps # 0
      /\ r = "INVALID_APP" => e = "RECEIVE_INVALID_APP" /\ ~called
      /\ r = "ERR" => /\ e = "RCC_IPC_ERR" /\ called /\ rcc_in_abort
                      /\ apps <= 1 => state # "FIN_SUCCESS"
      /\ r \in {"OK", "INVALID_APP", "ERR"}
  BY <1>3 DEF RInv, DInv, Answers
<1>5. e \in CEvents
  BY <1>4 DEF CEvents
<1> HIDE DEF e
<1>6. CBusy' /\ Current(cq') = e
  <2>1. cq'.depth = 1 /\ Current(cq') = e
    BY <1>1, <1>2, <1>5, CDeliverQueue DEF RInv, CIInv
  <2> QED
    BY <2>1 DEF CBusy
<1>7. KInv'
  BY <1>1, <1>2, <1>4, <1>6 DEF RInv, KInv, Starting, Answered, Calls, CFinal
<1>8. CallInDataplane' /\ AbortPassedOn' /\ SuccessHasApp' /\ DataplaneGoes'
  BY <1>1, <1>2, <1>3, <1>4, DpStands DEF RInv, Coupled, CallInDataplane, AbortPassedOn,
     SuccessHasApp, DataplaneGoes, Live, AppHandler, AppErr
<1>9. Waiting'
  <2>1. CASE r = "OK"
    BY <1>1, <2>1 DEF Waiting
  <2>2. CASE r = "INVALID_APP"
    BY <1>1, <1>2, <1>4, <2>2, DpStands DEF RInv, Coupled, Waiting, Live
  <2>3. CASE r = "ERR"
    <3>1. cstate = "WAIT_APP" => apps = 1
      BY <1>2, <1>3, <1>4, <2>3 DEF RInv, Coupled, Waiting
    <3> QED
      BY <1>1, <1>2, <1>4, <1>6, <2>3, <3>1, DpStands DEF Waiting
  <2> QED
    BY <1>4, <2>1, <2>2, <2>3
<1>10. AbortKnown'
  <2>1. CASE r = "ERR" /\ cstate = "WAIT_APP"
    BY <1>1, <1>4, <1>6, <2>1 DEF AbortKnown
  <2>2. CASE ~(r = "ERR" /\ cstate = "WAIT_APP")
    <3>1. apps <= 1 /\ rcc_in_abort => cp_abort \/ upcalls["ABORT"] = 1
      BY <1>2, <1>3, <2>2 DEF RInv, Coupled, AbortKnown, AppErr
    <3> QED
      BY <1>1, <3>1, DpStands DEF AbortKnown
  <2> QED
    BY <2>1, <2>2
<1>11. AbsCp' = AbsCp
  BY <1>1, <1>2 DEF AbsCp
<1> QED
  BY <1>7, <1>8, <1>9, <1>10, <1>11 DEF CpGood, CpMoves, Coupled

\* The return of the other calls.
LEMMA IpcReturnCp ==
    ASSUME RInv, UNCHANGED vars, called, Idle \/ pc = "destroyed", called' = FALSE, IpcReturn
    PROVE  CpGood
<1>1. /\ ipc \in {"abort_rcc", "destroy"} /\ ipc' = "none"
      /\ UNCHANGED <<cstate, cq, cpc, cp_abort, cfg>>
  BY DEF IpcReturn, csm_vars, cch_vars
<1>2. pc \in {"idle", "destroyed"} /\ (ipc = "destroy" /\ ~Live => pc = "destroyed")
  BY <1>1 DEF Idle, RInv, Coupled, DataplaneGoes
<1>3. KInv'
  BY <1>1 DEF RInv, KInv, Starting, Answered, Calls, CBusy, Live
<1>4. Coupled'
  BY <1>1, <1>2, DpStands DEF RInv, Coupled, CallInDataplane, AbortPassedOn, SuccessHasApp,
     Waiting, AbortKnown, DataplaneGoes, CBusy, Live, AppHandler, AppErr
<1>5. AbsCp' = AbsCp
  BY <1>1 DEF AbsCp
<1> QED
  BY <1>3, <1>4, <1>5 DEF CpGood, CpMoves

LEMMA UpcallCp ==
    ASSUME RInv, UNCHANGED vars, UNCHANGED called, NEW R, NEW er_now, NEW timer_ok,
           UpcallEvent(R, er_now, timer_ok)
    PROVE  CpGood
<1>1. CIdle /\ UNCHANGED <<cstate, cq, cpc, ipc, cp_abort, cfg>>
  BY DEF UpcallEvent, csm_vars
<1> QED
  BY <1>1, QuietCp

\* The control plane stands still while the dataplane runs.
LEMMA CpStands ==
    ASSUME UNCHANGED cvars
    PROVE  /\ UNCHANGED <<cstate, cq, cpc, ipc, cp_abort, cfg>>
           /\ AbsCp' = AbsCp /\ CBusy' = CBusy /\ Live' = Live /\ (KInv => KInv')
<1>1. UNCHANGED <<cstate, cq, cpc, ipc, cp_abort, cfg>>
  BY DEF cvars, csm_vars, cch_vars
<1>2. CBusy' = CBusy /\ Live' = Live /\ AbsCp' = AbsCp
  BY <1>1 DEF CBusy, Live, AbsCp
<1>3. KInv => KInv'
  BY <1>1, <1>2 DEF KInv, Starting, Answered, Calls
<1> QED
  BY <1>1, <1>2, <1>3

\* A step of the dataplane that no call starts.
LEMMA DpStepCoupled ==
    ASSUME RInv, UNCHANGED cvars, UNCHANGED called, DpEffect
    PROVE  Coupled'
<1>1. CallInDataplane'
  BY CpStands DEF RInv, Coupled, CallInDataplane, DpEffect
<1>2. AbortPassedOn' /\ SuccessHasApp'
  BY CpStands DEF RInv, Coupled, AbortPassedOn, SuccessHasApp, DpEffect
<1>3. Waiting'
  BY CpStands DEF RInv, Coupled, Waiting, DpEffect
<1>4. AbortKnown'
  BY CpStands DEF RInv, Coupled, AbortKnown, DpEffect, DInv, Answers, AppHandler
<1>5. DataplaneGoes'
  BY CpStands DEF RInv, Coupled, DataplaneGoes, DpEffect
<1> QED
  BY <1>1, <1>2, <1>3, <1>4, <1>5 DEF Coupled

\* A call is taken up.
LEMMA TakeCoupled ==
    ASSUME RInv, Take
    PROVE  DInv' /\ Coupled' /\ DpMoves
<1>1. UNCHANGED cvars /\ called' = TRUE /\ ~called /\ pc = "idle"
  BY DEF Take, Idle
<1>2. CASE ipc = "process_app" /\ \E resources \in BOOLEAN : ProcessApp(resources)
  <2>1. DInv' /\ DpMoves /\ AppTaken
    BY <1>2, ProcessAppWhole DEF RInv
  <2>2. /\ cpc = "idle" /\ ~CBusy /\ cstate \in {"WAIT_APP", "FIN_SUCCESS", "ABORT"}
        /\ "rcc" \in cfg /\ Live
    BY <1>2 DEF RInv, CIInv, CTypeOK, CStates, Phases, KInv, Starting, Calls, Live
  <2>3. /\ apps' # 0 /\ (rcc_in_abort => rcc_in_abort') /\ state' = state
        /\ upcalls' = upcalls /\ apps \in Nat /\ apps' = apps + 1 /\ (apps' <= 1 => apps = 0)
        /\ pc' \in AppHandler \/ app_ret' # "none"
        /\ pc' \notin {"destroy", "destroyed"}
        /\ ~rcc_in_abort /\ rcc_in_abort' => pc' \in AppErr
        /\ pc' \in AppHandler \/ state # "INIT"
    BY <2>1 DEF AppTaken, AppHandler, AppErr
  <2>4. CallInDataplane' /\ DataplaneGoes'
    BY <1>1, <1>2, <2>2, <2>3, CpStands DEF CallInDataplane, DataplaneGoes
  <2>5. AbortPassedOn' /\ SuccessHasApp'
    BY <1>1, <1>2, <2>2, <2>3, CpStands DEF RInv, Coupled, AbortPassedOn, SuccessHasApp
  <2>6. Waiting'
    BY <1>1, <1>2, <2>2, <2>3, CpStands DEF RInv, Coupled, Waiting
  <2>7. AbortKnown'
    <3>1. CASE rcc_in_abort
      BY <1>1, <1>2, <2>2, <2>3, <3>1, CpStands DEF RInv, Coupled, AbortKnown
    <3>2. CASE ~rcc_in_abort
      <4>1. apps = 0 => cstate = "WAIT_APP"
        BY <1>2, <2>2, <3>2 DEF RInv, Coupled, SuccessHasApp, AbortPassedOn, CIInv, SlowAfterAbort
      <4> QED
        BY <1>1, <1>2, <2>3, <3>2, <4>1, CpStands DEF AbortKnown
    <3> QED
      BY <3>1, <3>2
  <2> QED
    BY <2>1, <2>4, <2>5, <2>6, <2>7 DEF Coupled
<1>3. CASE ipc = "abort_rcc" /\ ~rcc_in_abort /\ AbortRcc
  <2>1. /\ pc' = "abort_rcc" /\ rcc_in_abort' = TRUE
        /\ UNCHANGED <<state, apps, app_ret, upcalls>>
    BY <1>3 DEF AbortRcc, cp_vars
  <2>2. cstate = "ABORT" /\ Live /\ cp_abort
    BY <1>3 DEF RInv, KInv, Calls
  <2>3. DInv' /\ DpMoves
    BY <1>3, AbortOrDestroyWhole DEF RInv
  <2>4. Coupled'
    BY <1>1, <1>3, <2>1, <2>2, CpStands DEF RInv, Coupled, CallInDataplane, AbortPassedOn,
       SuccessHasApp, Waiting, AbortKnown, DataplaneGoes, AppHandler, AppErr
  <2> QED
    BY <2>3, <2>4
<1>4. CASE ipc = "abort_rcc" /\ rcc_in_abort /\ UNCHANGED vars
  <2>1. cstate = "ABORT" /\ Live /\ cp_abort
    BY <1>4 DEF RInv, KInv, Calls
  <2>2. DInv' /\ DpMoves
    BY <1>4, DpKeeps DEF RInv
  <2>3. Coupled'
    BY <1>1, <1>4, <2>1, DpStands, CpStands DEF RInv, Coupled, CallInDataplane,
       AbortPassedOn, SuccessHasApp, Waiting, AbortKnown, DataplaneGoes, AppHandler, AppErr
  <2> QED
    BY <2>2, <2>3
<1>5. CASE ipc = "destroy" /\ Destroy
  <2>1. /\ pc' = "destroy" /\ rcc_in_abort' = TRUE
        /\ UNCHANGED <<state, apps, app_ret, upcalls>>
    BY <1>5 DEF Destroy, cp_vars
  <2>2. ~Live
    BY <1>5 DEF RInv, KInv, Calls, Live
  <2>3. DInv' /\ DpMoves
    BY <1>5, AbortOrDestroyWhole DEF RInv
  <2>4. Coupled'
    BY <1>1, <1>5, <2>1, <2>2, CpStands DEF RInv, Coupled, CallInDataplane, AbortPassedOn,
       SuccessHasApp, Waiting, AbortKnown, DataplaneGoes, AppHandler, AppErr
  <2> QED
    BY <2>3, <2>4
<1> QED
  BY <1>2, <1>3, <1>4, <1>5 DEF Take

-----------------------------------------------------------------------------
(***************************************************************************)
(* Every step of the whole.                                                *)
(***************************************************************************)

\* A step in which the dataplane stands still and the control plane, with the
\* calls and upcalls it waits for, takes a step.
LEMMA CpSideStep ==
    ASSUME RInv, CpStep \/ TakeUndecodable \/ Return
                 \/ \E late \in SUBSET {"FAST_FILL_DONE", "BURST_DONE"},
                       er_now, timer_ok \in BOOLEAN : ReadUpcalls(late, er_now, timer_ok)
    PROVE  UNCHANGED vars /\ CNext /\ CpGood /\ called' \in BOOLEAN
<1>1. CASE CpStep
  BY <1>1, OwnCp DEF CpStep, CNext, RInv
<1>2. CASE TakeUndecodable
  <2>1. UNCHANGED <<vars, called>> /\ ~called /\ AppReturn("INVALID_APP")
    BY <1>2 DEF TakeUndecodable
  <2>2. CpGood
    <3>1. called' = FALSE
      BY <2>1 DEF RInv
    <3> QED
      BY <2>1, <3>1, AppReturnCp
  <2> QED
    BY <2>1, <2>2 DEF CNext, RInv
<1>3. CASE Return /\ AppReturn(app_ret)
  <2>1. UNCHANGED vars /\ called /\ (Idle \/ pc = "destroyed") /\ called' = FALSE
    BY <1>3 DEF Return
  <2>2. app_ret \in {"OK", "ERR"}
    <3>1. ipc = "process_app"
      BY <1>3 DEF AppReturn
    <3>2. Live
      BY <3>1 DEF RInv, CIInv, Phases, Live
    <3> QED
      BY <2>1, <3>1, <3>2 DEF RInv, IInv, TypeOK, Coupled, CallInDataplane, Idle, AppHandler, AppErr
  <2>3. CpGood
    <3> DEFINE r == app_ret
    <3>1. /\ r \in {"OK", "INVALID_APP", "ERR"} /\ AppReturn(r)
          /\ r = app_ret /\ called /\ (Idle \/ pc = "destroyed")
      BY <1>3, <2>1, <2>2
    <3> HIDE DEF r
    <3> QED
      BY <2>1, <3>1, AppReturnCp
  <2>4. \E r \in {"OK", "INVALID_APP", "ERR"} : AppReturn(r)
    BY <1>3, <2>2
  <2>5. CNext
    BY <2>4 DEF CNext
  <2> QED
    BY <2>1, <2>3, <2>5
<1>4. CASE Return /\ IpcReturn
  BY <1>4, IpcReturnCp DEF Return, CNext
<1>5. CASE \E late \in SUBSET {"FAST_FILL_DONE", "BURST_DONE"}, er_now, timer_ok \in BOOLEAN :
              ReadUpcalls(late, er_now, timer_ok)
  <2>1. PICK late \in SUBSET {"FAST_FILL_DONE", "BURST_DONE"}, er_now \in BOOLEAN,
             timer_ok \in BOOLEAN : ReadUpcalls(late, er_now, timer_ok)
    BY <1>5
  <2>2. UNCHANGED <<vars, called>> /\ UpcallEvent(Posted \cup late, er_now, timer_ok)
    BY <2>1 DEF ReadUpcalls
  <2>3. Posted \cup late \in SUBSET Reasons
    BY DEF Posted, Reasons
  <2> QED
    BY <2>2, <2>3, UpcallCp DEF CNext, RInv
<1> QED
  BY <1>1, <1>2, <1>3, <1>4, <1>5 DEF Return

\* The reasons read are reasons there are.
LEMMA AckedType ==
    ASSUME RInv, [RNext]_rvars
    PROVE  acked' \subseteq {"NCSI", "ABORT"}
<1>1. acked' = acked \/ acked' = acked \cup Posted
  BY DEF RNext, rvars, CpStep, DpStep, Take, TakeUndecodable, Return, ReadUpcalls
<1> QED
  BY <1>1 DEF RInv, Posted

\* An unbounded number of steps of the whole keeps the invariant: each is a step
\* of one half, or of both.
LEMMA NextRInv == RInv /\ [RNext]_rvars => RInv'
<1> SUFFICES ASSUME RInv, [RNext]_rvars PROVE RInv'
  OBVIOUS
<1> DEFINE CpSide == \/ CpStep \/ TakeUndecodable \/ Return
                     \/ \E late \in SUBSET {"FAST_FILL_DONE", "BURST_DONE"},
                           er_now, timer_ok \in BOOLEAN : ReadUpcalls(late, er_now, timer_ok)
<1>1. CASE CpSide
  <2>1. UNCHANGED vars /\ CNext /\ CpGood /\ called' \in BOOLEAN
    BY <1>1, CpSideStep
  <2>2. CIInv'
    BY <2>1, NextCIInv DEF RInv
  <2>3. IInv' /\ JInv'
    BY <2>1, NextIInv, NextJInv DEF RInv
  <2>4. DInv'
    BY <2>1, DpKeeps DEF RInv
  <2> QED
    BY <2>1, <2>2, <2>3, <2>4, AckedType DEF RInv, CpGood
<1>2. CASE DpStep
  <2>1. /\ DpHandler \/ Packet \/ \E t \in Timers : Timeout(t)
        /\ UNCHANGED <<cvars, called>>
    BY <1>2 DEF DpStep
  <2>2. Next
    BY <2>1 DEF Next, DpHandler
  <2>3. DInv' /\ DpEffect
    BY <2>1, DpStepWhole DEF RInv
  <2>4. IInv' /\ JInv'
    BY <2>2, NextIInv, NextJInv DEF RInv
  <2>5. CIInv' /\ KInv'
    BY <2>1, NextCIInv, CpStands DEF RInv
  <2>6. Coupled'
    BY <2>1, <2>3, DpStepCoupled
  <2> QED
    BY <2>1, <2>3, <2>4, <2>5, <2>6, AckedType DEF RInv
<1>3. CASE Take
  <2>1. UNCHANGED cvars /\ called' = TRUE /\ [Next]_vars
    BY <1>3 DEF Take, Next, Call
  <2>2. DInv' /\ Coupled'
    BY <1>3, TakeCoupled
  <2>3. IInv' /\ JInv'
    BY <2>1, NextIInv, NextJInv DEF RInv
  <2>4. CIInv' /\ KInv'
    BY <2>1, NextCIInv, CpStands DEF RInv
  <2> QED
    BY <2>1, <2>2, <2>3, <2>4, AckedType DEF RInv
<1>4. CASE UNCHANGED rvars
  <2>1. UNCHANGED <<vars, cvars, called, acked>>
    BY <1>4 DEF rvars
  <2>2. IInv' /\ JInv' /\ CIInv'
    BY <2>1, NextIInv, NextJInv, NextCIInv DEF RInv
  <2>3. DInv' /\ KInv'
    BY <2>1, DpKeeps, CpStands DEF RInv
  <2>4. Coupled'
    BY <2>1, DpStands, CpStands DEF RInv, Coupled, CallInDataplane, AbortPassedOn,
       SuccessHasApp, Waiting, AbortKnown, DataplaneGoes
  <2> QED
    BY <2>1, <2>2, <2>3, <2>4 DEF RInv
<1> HIDE DEF CpSide
<1>5. RNext => CpSide \/ DpStep \/ Take
  BY DEF RNext, CpSide
<1> QED
  BY <1>1, <1>2, <1>3, <1>4, <1>5

LEMMA InitRInv == RInit => RInv
<1> SUFFICES ASSUME RInit PROVE RInv
  OBVIOUS
<1>1. IInv /\ JInv /\ CIInv
  BY InitIInv, InitJInv, InitCIInv DEF RInit
<1>2. /\ state = "INIT" /\ apps = 0 /\ app_ret = "none" /\ pc = "idle" /\ ~rcc_in_abort
      /\ joined = {} /\ ~er_en /\ q = EmptyQueue
  BY DEF RInit, Init
<1>3. /\ cstate = "INVALID" /\ cpc = "bind" /\ ipc = "none" /\ ~cp_abort
      /\ cfg \in Configs /\ "rcc" \in cfg /\ cq = EmptyQueue
  BY DEF RInit, CInit
<1>4. DInv
  <2>1. Now = NoEvent
    BY <1>1, <1>2, QueueView DEF EmptyQueue, Busy
  <2> QED
    BY <1>2, <2>1 DEF DInv, StreamsLater, Answers, Fresh, TimersIdle, DestroyAborts,
       AppHandler, AppErr
<1>5. ~CBusy
  BY <1>3 DEF CBusy, EmptyQueue
<1>6. KInv
  BY <1>3, <1>5 DEF KInv, Starting, Answered, Calls
<1>7. Coupled
  BY <1>2, <1>3, <1>5 DEF RInit, Coupled, CallInDataplane, AbortPassedOn, SuccessHasApp, Waiting,
     AbortKnown, DataplaneGoes, AppHandler, AppErr, Live
<1> QED
  BY <1>1, <1>4, <1>6, <1>7 DEF RInit, RInv

\* The invariants of the two halves and their coupling hold throughout a rapid
\* channel change.
THEOREM RInvariance == RSpec => []RInv
  BY InitRInv, NextRInv, PTL DEF RSpec

\* Between handlers the control plane and the dataplane agree on abort, success
\* and destruction, and no VQEC_ASSERT of either state machine fails.
THEOREM HalvesAlwaysAgree == RSpec => []HalvesAgree
<1>1. RInv => HalvesAgree
  <2> SUFFICES ASSUME RInv PROVE HalvesAgree
    OBVIOUS
  <2>1. RTypeOK /\ RNoAssertFails
    BY DEF RInv, IInv, CIInv, RTypeOK, RNoAssertFails, NoAssertFails
  <2>2. CpAbortAbortsDp
    <3>1. cstate = "INVALID" => cpc # "idle"
      BY DEF RInv, CIInv, Phases
    <3> QED
      BY <3>1 DEF CpAbortAbortsDp, CIdle, Running, RInv, Coupled, AbortPassedOn
  <2>3. SuccessMeansStarted
    BY DEF SuccessMeansStarted, CIdle, RInv, KInv, Coupled, SuccessHasApp
  <2>4. DpAbortIsKnownOneApp
    BY DEF DpAbortIsKnownOneApp, DpAbortIsKnown, CIdle, Running, RInv, Coupled, AbortKnown, Live
  <2>5. FreedWithDp
    <3>1. cpc = "freed" => ~Live /\ ipc # "destroy"
      BY DEF Live, RInv, KInv, Calls
    <3>2. NoTimerSurvives
      <4> SUFFICES ASSUME pc = "destroyed", NEW t \in Timers PROVE timer[t] = "null"
        BY DEF NoTimerSurvives
      <4>1. state \in Final
        BY DEF RInv, IInv, DestroyFinal
      <4>2. t \notin Watched(state)
        BY <4>1, WatchedIn DEF Final, States
      <4> QED
        BY <4>2 DEF RInv, IInv, TimersWatched
    <3> QED
      BY <3>1, <3>2 DEF FreedWithDp, RInv, Coupled, DataplaneGoes
  <2> QED
    BY <2>1, <2>2, <2>3, <2>4, <2>5 DEF HalvesAgree
<1> QED
  BY <1>1, RInvariance, PTL

-----------------------------------------------------------------------------
(***************************************************************************)
(* The promise of RccAbs.                                                  *)
(***************************************************************************)

\* A step of the dataplane under a control plane that stands still: it starts a
\* burst only while it is asked to, and ends none well that has been given up.
LEMMA DpSideAbs ==
    ASSUME RInv, AbsCp' = AbsCp, DpMoves
    PROVE  [Abs!Next]_(Abs!vars)
<1>1. AbsDp = "idle" => state = "INIT" /\ rcc_in_abort = FALSE
  BY DEF AbsDp, RInv, IInv, TypeOK
<1>2. AbsDp = "running" => rcc_in_abort = FALSE
  BY DEF AbsDp, RInv, IInv, TypeOK
<1>3. pc = "set_firstseq_fil" /\ AbsDp = "idle" => AbsCp = "asking"
  <2> SUFFICES ASSUME pc = "set_firstseq_fil", AbsDp = "idle" PROVE AbsCp = "asking"
    OBVIOUS
  <2>1. ipc = "process_app" /\ cpc = "idle" /\ "rcc" \in cfg
    BY DEF RInv, Coupled, CallInDataplane, AppHandler, CIInv, Phases, KInv, Calls
  <2>2. cstate # "FIN_SUCCESS"
    BY <1>1, <2>1 DEF RInv, Coupled, SuccessHasApp
  <2>3. cstate # "ABORT"
    BY <1>1, <2>1 DEF RInv, Coupled, AbortPassedOn, CIInv, SlowAfterAbort
  <2> QED
    BY <2>1, <2>2, <2>3 DEF AbsCp
<1>4. AbsDp = "running" /\ apps # 0 => AbsCp # "gave_up"
  <2> SUFFICES ASSUME AbsDp = "running", AbsCp = "gave_up", apps # 0 PROVE FALSE
    OBVIOUS
  <2>1. cstate = "ABORT"
    BY DEF AbsCp
  <2> QED
    BY <1>2, <2>1 DEF RInv, Coupled, AbortPassedOn, CIInv, SlowAfterAbort
<1>5. CASE AbsDp' = AbsDp /\ StreamsOn' = StreamsOn
  BY <1>5 DEF Abs!vars, StreamsOn
<1>6. CASE /\ AbsDp = "idle" /\ AbsDp' = "running" /\ StreamsOn' = StreamsOn
           /\ pc = "set_firstseq_fil"
  BY <1>3, <1>6 DEF Abs!Next, Abs!Start, StreamsOn
<1>7. CASE /\ AbsDp = "running" /\ AbsDp' = "running"
           /\ StreamsOn = {} /\ StreamsOn' = {"primary"}
  BY <1>7 DEF Abs!Next, Abs!Join, StreamsOn
<1>8. CASE /\ AbsDp = "running" /\ AbsDp' = "running"
           /\ StreamsOn = {"primary"} /\ StreamsOn' = {"primary", "er"}
  BY <1>8 DEF Abs!Next, Abs!EnableEr, StreamsOn
<1>9. CASE /\ AbsDp = "running" /\ AbsDp' = "success" /\ apps # 0
           /\ StreamsOn = {"primary", "er"} /\ StreamsOn' = AllStreams
  BY <1>4, <1>9 DEF Abs!Next, Abs!Finish, Abs!Streams, AllStreams, StreamsOn
<1>10. CASE /\ AbsDp \in {"idle", "running"} /\ AbsDp' = "aborted"
            /\ StreamsOn' \in {StreamsOn, AllStreams}
  BY <1>10 DEF Abs!Next, Abs!Abort, Abs!Streams, AllStreams, StreamsOn
<1>11. CASE /\ AbsDp = "aborted" /\ AbsDp' = "aborted"
            /\ StreamsOn \subseteq StreamsOn' /\ StreamsOn' \subseteq AllStreams
  BY <1>11 DEF Abs!Next, Abs!TurnOn, Abs!Streams, AllStreams, StreamsOn
<1>12. CASE AbsDp \in {"success", "aborted"} /\ AbsDp' = "gone" /\ StreamsOn' = StreamsOn
  BY <1>12 DEF Abs!Next, Abs!Destroy, StreamsOn
<1> QED
  BY <1>5, <1>6, <1>7, <1>8, <1>9, <1>10, <1>11, <1>12 DEF DpMoves

\* A step of the control plane under a dataplane that stands still.
LEMMA CpSideAbs ==
    ASSUME UNCHANGED vars, CpMoves
    PROVE  [Abs!Next]_(Abs!vars)
<1>1. AbsDp' = AbsDp /\ UNCHANGED <<joined, er_en>>
  BY DpStands
<1> QED
  BY <1>1 DEF CpMoves, Abs!vars, Abs!Next, Abs!Believe, Abs!GiveUp, Abs!Free

\* The two halves together are the channel change RccAbs promises: neither
\* succeeds with a burst the other has given up, streams are only turned on, and
\* error repair waits for the primary stream.
THEOREM RccImplements == RSpec => ImplementsAbs
<1>1. RInit => Abs!Init
  BY DEF RInit, Init, CInit, Abs!Init, AbsCp, AbsDp
<1>2. RInv /\ [RNext]_rvars => [Abs!Next]_(Abs!vars)
  <2> SUFFICES ASSUME RInv, [RNext]_rvars PROVE [Abs!Next]_(Abs!vars)
    OBVIOUS
  <2>1. "rcc" \in cfg
    BY DEF RInv, KInv
  <2> DEFINE CpSide == \/ CpStep \/ TakeUndecodable \/ Return
                       \/ \E late \in SUBSET {"FAST_FILL_DONE", "BURST_DONE"},
                             er_now, timer_ok \in BOOLEAN : ReadUpcalls(late, er_now, timer_ok)
  <2>2. CASE CpSide
    BY <2>1, <2>2, CpSideStep, CpSideAbs DEF CpGood
  <2>3. CASE DpStep
    <3>1. /\ DpHandler \/ Packet \/ \E t \in Timers : Timeout(t)
          /\ UNCHANGED cvars
      BY <2>3 DEF DpStep
    <3>2. DpMoves
      BY <3>1, DpStepWhole DEF RInv
    <3> QED
      BY <3>1, <3>2, CpStands, DpSideAbs
  <2>4. CASE Take
    <3>1. UNCHANGED cvars
      BY <2>4 DEF Take
    <3>2. DpMoves
      BY <2>4, TakeCoupled
    <3> QED
      BY <3>1, <3>2, CpStands, DpSideAbs
  <2>5. CASE UNCHANGED rvars
    <3>1. UNCHANGED vars /\ UNCHANGED cvars
      BY <2>5 DEF rvars
    <3> QED
      BY <3>1, DpKeeps, CpStands, DpSideAbs
  <2> HIDE DEF CpSide
  <2>6. RNext => CpSide \/ DpStep \/ Take
    BY DEF RNext, CpSide
  <2> QED
    BY <2>2, <2>3, <2>4, <2>5, <2>6
<1> QED
  BY <1>1, <1>2, RInvariance, PTL DEF RSpec, ImplementsAbs, Abs!Spec
=============================================================================
