--------------------------------- MODULE Rcc ---------------------------------
(***************************************************************************)
(* A rapid channel change as a whole: the control plane (CpRcc) and the    *)
(* dataplane (DpRcc) of one channel.  They interact by                     *)
(*   - synchronous calls: vqec_dp_chan_process_app(), vqec_dp_chan_        *)
(*     abort_rcc(), vqec_dp_graph_destroy().  A call starts a handler in   *)
(*     the dataplane, once it is idle; the control plane waits, and goes   *)
(*     on when the handler has ended (maybe after other handlers, if the   *)
(*     dataplane is a process of its own);                                 *)
(*   - upcalls, which are asynchronous: the dataplane posts a reason, the  *)
(*     control plane reads all reasons posted so far some time later, and  *)
(*     may by then be in another state.                                    *)
(***************************************************************************)
EXTENDS DpRcc, CpRcc

VARIABLES
    called,        \* the dataplane has started on the call in ipc
    acked          \* upcall reasons the control plane has read

\* The variables of the dataplane are vars, those of the control plane cvars.
rvars == <<vars, cvars, called, acked>>

RTypeOK ==
    /\ TypeOK /\ CTypeOK
    /\ called \in BOOLEAN
    /\ acked \subseteq {"NCSI", "ABORT"}

\* The channel is to change rapidly: the dataplane of one that is not is created
\* as one that has aborted, and takes no part.
RInit == /\ Init /\ CInit /\ "rcc" \in cfg
         /\ called = FALSE /\ acked = {}

\* A step of the control plane alone; the call it may make has yet to start.
CpStep == CNextOwn /\ UNCHANGED <<vars, called, acked>>

\* A step of the dataplane alone: what the running handler does, a packet or a
\* timer.
DpHandler == Step \/ Resume
DpStep ==
    /\ DpHandler \/ Packet \/ \E t \in Timers : Timeout(t)
    /\ UNCHANGED <<cvars, called, acked>>

\* The dataplane takes up the call.  A call to abort a channel that is aborted
\* already does nothing, and so does one to a channel that is gone.
Take ==
    /\ ipc # "none" /\ ~called /\ Idle
    /\ called' = TRUE
    /\ \/ ipc = "process_app" /\ \E resources \in BOOLEAN : ProcessApp(resources)
       \/ ipc = "abort_rcc" /\ ~rcc_in_abort /\ AbortRcc
       \/ ipc = "abort_rcc" /\ rcc_in_abort /\ UNCHANGED vars
       \/ ipc = "destroy" /\ Destroy
    /\ UNCHANGED <<cvars, acked>>

\* An APP whose TSRAP data cannot be decoded does not reach the channel.
TakeUndecodable ==
    /\ ipc = "process_app" /\ ~called /\ Idle
    /\ AppReturn("INVALID_APP")
    /\ UNCHANGED <<vars, called, acked>>

\* The dataplane's handler has ended and the control plane goes on.
Return ==
    /\ called /\ (Idle \/ pc = "destroyed")
    /\ called' = FALSE
    /\ AppReturn(app_ret) \/ IpcReturn
    /\ UNCHANGED <<vars, acked>>

\* The control plane reads the reasons posted and not read before.  The upcalls
\* for the end of the fast fill and of the burst come from parts of the
\* dataplane that are not modelled, any time after the change has started.
Posted == {r \in {"NCSI", "ABORT"} : upcalls[r] > 0} \ acked
ReadUpcalls(late, er_now, timer_ok) ==
    /\ Posted # {} \/ late # {}
    /\ late # {} => state # "INIT"
    /\ UpcallEvent(Posted \cup late, er_now, timer_ok)
    /\ acked' = acked \cup Posted
    /\ UNCHANGED <<vars, called>>

RNext ==
    \/ CpStep \/ DpStep \/ Take \/ TakeUndecodable \/ Return
    \/ \E late \in SUBSET {"FAST_FILL_DONE", "BURST_DONE"}, er_now, timer_ok \in BOOLEAN :
          ReadUpcalls(late, er_now, timer_ok)

\* The fairness of the two halves.  An upcall that has been posted is read: a
\* lost interrupt is found by the polls that follow it.
RFairness ==
    /\ WF_rvars(DpHandler /\ UNCHANGED <<cvars, called, acked>>)
    /\ \A t \in Timers \ {"activity"} :
          WF_rvars(Timeout(t) /\ UNCHANGED <<cvars, called, acked>>)
    /\ WF_rvars((CStep \/ CResume) /\ UNCHANGED <<vars, called, acked>>)
    /\ WF_rvars(AppTimeout /\ UNCHANGED <<vars, called, acked>>)
    /\ WF_rvars(Take) /\ WF_rvars(Return)
    /\ WF_rvars(\E er_now, timer_ok \in BOOLEAN : Posted # {} /\ ReadUpcalls({}, er_now, timer_ok))

RSpec == RInit /\ [][RNext]_rvars
RFairSpec == RSpec /\ RFairness

-----------------------------------------------------------------------------
(***************************************************************************)
(* Properties.                                                             *)
(***************************************************************************)

\* Neither half runs into one of its assertions.
RNoAssertFails == NoAssertFails /\ CNoAssertFails

\* When the control plane has given up the channel change the dataplane has too,
\* as soon as the call has been taken up; the two never stay apart.
CpAbortAbortsDp == CIdle /\ cp_abort => rcc_in_abort

\* When the control plane believes in success the dataplane has got its APP, and
\* no handler that ran in between has left it in INIT.
SuccessMeansStarted ==
    CIdle /\ cstate = "FIN_SUCCESS" => state # "INIT"

\* When the dataplane has aborted, the control plane knows or will be told: it
\* has aborted too, or an ABORT upcall has been posted.
DpAbortIsKnown == CIdle /\ Idle /\ rcc_in_abort => cp_abort \/ upcalls["ABORT"] = 1

\* This is so as long as the server's APP has not been passed down twice.
DpAbortIsKnownOneApp == apps <= 1 => DpAbortIsKnown

\* The dataplane of a channel that has been freed is gone, with its timers.
FreedWithDp ==
    cpc = "freed" => (pc = "destroyed" /\ NoTimerSurvives) \/ cstate = "INVALID"

\* Error repair comes on in the control plane after every abort, whichever half
\* has decided on it, unless a second APP is passed down or the channel goes.
AbortLeadsToEr ==
    rcc_in_abort /\ "er" \in cfg ~>
        er_poll_active \/ apps > 1 \/ cpc \notin {"idle", "app_valid"}

\* Between handlers the two halves agree on abort, success and destruction, and
\* neither drives the other into an assertion.
HalvesAgree ==
    /\ RTypeOK /\ RNoAssertFails
    /\ CpAbortAbortsDp /\ SuccessMeansStarted
    /\ DpAbortIsKnownOneApp /\ FreedWithDp

-----------------------------------------------------------------------------
(***************************************************************************)
(* The promise of module RccAbs.  A dataplane that is marked aborted counts *)
(* as aborted, whatever its state machine still has to do, unless it had   *)
(* succeeded before.                                                       *)
(***************************************************************************)
AbsCp == CASE cpc = "freed" -> "freed"
           [] cpc # "freed" /\ cstate = "FIN_SUCCESS" -> "started"
           [] cpc # "freed" /\ cstate = "ABORT" -> "gave_up"
           [] OTHER -> "asking"
AbsDp == CASE pc = "destroyed" -> "gone"
           [] pc # "destroyed" /\ state = "FIN_SUCCESS" -> "success"
           [] pc # "destroyed" /\ state # "FIN_SUCCESS" /\ rcc_in_abort -> "aborted"
           [] pc # "destroyed" /\ state = "INIT" /\ ~rcc_in_abort -> "idle"
           [] OTHER -> "running"
Abs == INSTANCE RccAbs WITH
          cp <- AbsCp, dp <- AbsDp, on <- joined \cup (IF er_en THEN {"er"} ELSE {})

\* The two halves, coupled by calls and upcalls, are the channel change RccAbs
\* promises: no half succeeds with a burst the other has given up, streams are
\* never turned off, and error repair waits for the primary stream.
ImplementsAbs == Abs!Spec

\* However the answer and the upcalls race, all streams come on in the end.
AllStreamsOn == Abs!Progress
=============================================================================
