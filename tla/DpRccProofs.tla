----------------------------- MODULE DpRccProofs -----------------------------
(***************************************************************************)
(* Proofs about the dataplane RCC state machine, for any number of APP     *)
(* packets: its type invariant, that no assertion of deliver_event() or    *)
(* timer_start() fails, that no timer outlives the channel, and what the   *)
(* machine does for the channel.                                           *)
(***************************************************************************)
EXTENDS DpRcc, EventQProofs

-----------------------------------------------------------------------------
(***************************************************************************)
(* The inductive invariant.                                                *)
(***************************************************************************)

\* Two events are queued only once the machine is past the states whose actions
\* deliver two more; in WAIT_JOIN, the next one leads to ABORT.
QueueBound ==
    /\ RingConsistent(q)
    /\ q.depth <= 2
    /\ q.depth = 2 => \/ state \in Final \cup {"WAIT_END_BURST"}
                      \/ state = "WAIT_JOIN" /\ Current(q) = "INTERNAL_ERR"

\* At every moment, not only between handlers, a timer exists only in a state
\* that watches it.
TimersWatched == \A t \in Timers : timer[t] # "null" => t \in Watched(state)

\* vqec_dpchan_destroy() frees the channel with the machine in a final state.
DestroyFinal ==
    /\ pc = "destroy" => \/ state \in Final
                         \/ Busy /\ Current(q) = "ABORT"
    /\ pc = "destroyed" => state \in Final /\ ~Busy

IInv == TypeOK /\ QueueBound /\ TimersWatched /\ DestroyFinal /\ ~fatal

-----------------------------------------------------------------------------
(***************************************************************************)
(* What the queue operations of an action do.                              *)
(***************************************************************************)

\* The outermost deliver_event() finds room and makes its event the current one.
LEMMA DeliverQueue ==
    ASSUME q \in QueueOf(Events), RingConsistent(q), ~Busy, ~fatal,
           NEW e \in Events, Deliver(e)
    PROVE  /\ q' \in QueueOf(Events) /\ RingConsistent(q')
           /\ q'.depth = 1 /\ Current(q') = e /\ ~fatal' /\ fatal' \in BOOLEAN
<1>1. q.depth = 0 /\ q.idx \in Slot /\ q.cur \in Slot /\ q.slot \in [Slot -> Events \cup {NoEvent}]
  BY DEF Busy, QueueOf
<1>2. e # NoEvent
  BY DEF Events, NoEvent
<1>3. CanLease(q) /\ RingConsistent(q')
  BY <1>1, <1>2, RoomToLease, LeaseRing DEF Deliver, MAX_EVENTQ_DEPTH
<1>4. q.idx = q.cur
  BY <1>1 DEF RingConsistent, Dist, Slot, MAX_EVENTQ_DEPTH
<1>5. q' \in QueueOf(Events) /\ q'.depth = 1 /\ q'.cur = q.cur /\ q'.slot = [q.slot EXCEPT ![q.idx] = e]
  BY <1>1, LeaseType DEF Deliver
<1> QED
  BY <1>1, <1>3, <1>4, <1>5 DEF Deliver, Current

\* One round of the loop finds room for the events its routines deliver.
LEMMA DoneQueue ==
    ASSUME q \in QueueOf(Events), RingConsistent(q), Busy, q.depth <= 2, ~fatal,
           NEW e1 \in Events \cup {NoEvent}, NEW e2 \in Events \cup {NoEvent},
           NEW T, \A t \in T : timer[t] = "null", Done(e1, e2, T)
    PROVE  /\ q' \in QueueOf(Events) /\ RingConsistent(q') /\ ~fatal' /\ fatal' \in BOOLEAN
           /\ q'.depth \in 0 .. 3
           /\ q.depth = 1 \/ e1 = NoEvent \/ e2 = NoEvent => q'.depth <= 2
           /\ q.depth = 1 /\ (e1 = NoEvent \/ e2 = NoEvent) => q'.depth <= 1
           /\ e1 = NoEvent /\ e2 = NoEvent => q'.depth <= 1
           /\ q.depth = 1 /\ e1 # NoEvent => Current(q') = e1
<1> DEFINE q1 == LeaseIf(q, e1 # NoEvent, e1)
           q2 == LeaseIf(q1, e2 # NoEvent, e2)
<1>0. q.depth \in 1 .. 2
  BY DEF Busy, QueueOf
<1>1. /\ q1 \in QueueOf(Events) /\ RingConsistent(q1)
      /\ q1.depth = q.depth + (IF e1 = NoEvent THEN 0 ELSE 1)
      /\ e1 # NoEvent => CanLease(q)
      /\ q1.cur = q.cur
  BY <1>0, LeaseIfRing DEF MAX_EVENTQ_DEPTH
<1>2. q.depth = 1 /\ e1 # NoEvent => q1.slot[NextSlot(q.cur)] = e1
  <2> SUFFICES ASSUME q.depth = 1, e1 # NoEvent PROVE q1.slot[NextSlot(q.cur)] = e1
    OBVIOUS
  <2>1. q.idx \in Slot /\ q.cur \in Slot /\ q.slot \in [Slot -> Events \cup {NoEvent}]
    BY DEF QueueOf
  <2>2. Dist(q.cur, q.idx) = 1
    BY DEF RingConsistent, MAX_EVENTQ_DEPTH
  <2>3. q.idx = NextSlot(q.cur)
    BY <2>1, <2>2, WrapAround DEF Dist, Slot, MAX_EVENTQ_DEPTH
  <2>4. q1.slot = [q.slot EXCEPT ![q.idx] = e1]
    BY LeaseType DEF LeaseIf
  <2> QED
    BY <2>1, <2>3, <2>4
<1>3. q1.depth \in 1 .. 3
  BY <1>0, <1>1
<1> HIDE DEF q1
<1>4. /\ q2 \in QueueOf(Events) /\ RingConsistent(q2)
      /\ q2.depth = q1.depth + (IF e2 = NoEvent THEN 0 ELSE 1)
      /\ e2 # NoEvent => CanLease(q1)
      /\ q2.cur = q1.cur
  BY <1>1, <1>3, LeaseIfRing DEF MAX_EVENTQ_DEPTH
<1>5. q.depth = 1 /\ e1 # NoEvent => q2.slot[NextSlot(q.cur)] = e1
  <2> SUFFICES ASSUME q.depth = 1, e1 # NoEvent, e2 # NoEvent
               PROVE q2.slot[NextSlot(q.cur)] = e1
    BY <1>2 DEF LeaseIf
  <2>1. q1.idx \in Slot /\ q1.cur \in Slot /\ q1.slot \in [Slot -> Events \cup {NoEvent}]
    BY <1>1 DEF QueueOf
  <2>2. Dist(q1.cur, q1.idx) = 2
    BY <1>1 DEF RingConsistent, MAX_EVENTQ_DEPTH
  <2>3. q1.idx # NextSlot(q1.cur)
    BY <2>1, <2>2, WrapAround DEF Dist, Slot, MAX_EVENTQ_DEPTH
  <2>4. q2.slot = [q1.slot EXCEPT ![q1.idx] = e2]
    BY <1>1, LeaseType DEF LeaseIf
  <2>5. NextSlot(q.cur) \in Slot
    BY <1>1, <2>1, WrapAround
  <2> QED
    BY <1>1, <1>2, <2>1, <2>3, <2>4, <2>5
<1>6. q' = Release(q2) /\ ~fatal' /\ fatal' \in BOOLEAN
  BY <1>1, <1>4 DEF Done, q1
<1> HIDE DEF q2
<1>7. q2.depth > 0
  BY <1>3, <1>4
<1>8. /\ q' \in QueueOf(Events) /\ RingConsistent(q')
      /\ q'.depth = q2.depth - 1 /\ q'.cur = NextSlot(q2.cur)
      /\ q'.slot = [q2.slot EXCEPT ![q2.cur] = NoEvent]
  BY <1>4, <1>6, <1>7, ReleaseType, ReleaseRing
<1>9. q.depth = 1 /\ e1 # NoEvent => Current(q') = e1
  <2>1. q2.cur \in Slot /\ q2.slot \in [Slot -> Events \cup {NoEvent}]
    BY <1>4 DEF QueueOf
  <2>2. NextSlot(q2.cur) # q2.cur /\ NextSlot(q2.cur) \in Slot
    BY <2>1, WrapAround DEF Slot, MAX_EVENTQ_DEPTH
  <2> QED
    BY <1>1, <1>4, <1>5, <1>8, <2>1, <2>2 DEF Current
<1> QED
  BY <1>0, <1>1, <1>4, <1>6, <1>8, <1>9

-----------------------------------------------------------------------------
(***************************************************************************)
(* The invariant is inductive: one lemma per action.                       *)
(***************************************************************************)

\* The states a timer is watched in, spelled out.
LEMMA WatchedIn ==
    ASSUME NEW t \in Timers, NEW s \in States
    PROVE  t \in Watched(s) <=>
             \/ t = "wait_first" /\ s = "WAIT_FIRST_SEQ"
             \/ t = "join" /\ s = "WAIT_JOIN"
             \/ t = "er" /\ s = "WAIT_EN_ER"
             \/ t = "burst_end" /\ s = "WAIT_END_BURST"
             \/ t = "activity" /\ s = "WAIT_JOIN"
  BY DEF Watched, StateTimer, Timers, States

LEMMA InitIInv == Init => IInv
<1> SUFFICES ASSUME Init PROVE IInv
  OBVIOUS
<1>1. q \in QueueOf(Events) /\ RingConsistent(q) /\ q.depth = 0
  BY DEF Init, EmptyQueue, QueueOf, RingConsistent, Dist, Slot, MAX_EVENTQ_DEPTH
<1>2. TypeOK
  <2>1. apps \in 0 .. MaxApps
    BY MaxAppsAssumption DEF Init
  <2>2. /\ timer \in [Timers -> {"null", "armed", "fired"}]
        /\ upcalls \in [{"NCSI", "ABORT"} -> Nat]
    BY DEF Init
  <2>3. /\ app_paks \in BOOLEAN /\ rx_repair \in BOOLEAN
        /\ process_first_repair \in BOOLEAN /\ rx_primary \in BOOLEAN
        /\ rcc_in_abort \in BOOLEAN /\ er_en \in BOOLEAN /\ fil_act \in BOOLEAN
        /\ fatal \in BOOLEAN /\ hdr_fits \in BOOLEAN
    BY DEF Init
  <2> QED
    BY <1>1, <2>1, <2>2, <2>3 DEF Init, TypeOK, States, PCs
<1>3. QueueBound
  BY <1>1 DEF QueueBound
<1>4. TimersWatched /\ DestroyFinal /\ ~fatal
  BY DEF Init, TimersWatched, DestroyFinal
<1> QED
  BY <1>2, <1>3, <1>4 DEF IInv

\* The round of the loop that delivers nothing and starts nothing.
LEMMA DoneNothing ==
    ASSUME IInv, Busy, Done(NoEvent, NoEvent, {})
    PROVE  /\ q' \in QueueOf(Events) /\ RingConsistent(q') /\ ~fatal' /\ fatal' \in BOOLEAN
           /\ q'.depth \in 0 .. 1 /\ q.depth \in 1 .. 2
<1>1. q \in QueueOf(Events) /\ RingConsistent(q) /\ q.depth <= 2 /\ ~fatal
  BY DEF IInv, TypeOK, QueueBound
<1>2. q.depth \in 1 .. 2
  BY <1>1 DEF Busy, QueueOf
<1>3. NoEvent \in Events \cup {NoEvent} /\ \A t \in {} : timer[t] = "null"
  OBVIOUS
<1>4. /\ q' \in QueueOf(Events) /\ RingConsistent(q') /\ ~fatal' /\ fatal' \in BOOLEAN
      /\ q'.depth \in 0 .. 3 /\ q'.depth <= 1
  BY <1>1, <1>3, DoneQueue
<1> QED
  BY <1>2, <1>4

\* StepIgnore and StepAbsorb only take the event off the queue.
LEMMA IgnoreIInv == IInv /\ (StepIgnore \/ StepAbsorb) => IInv'
<1> SUFFICES ASSUME IInv, StepIgnore \/ StepAbsorb PROVE IInv'
  OBVIOUS
<1>1. /\ Busy /\ Done(NoEvent, NoEvent, {})
      /\ UNCHANGED <<state, timer, pc, rx_vars, ch_vars, cp_vars>>
  BY DEF StepIgnore, StepAbsorb
<1>3. /\ q' \in QueueOf(Events) /\ RingConsistent(q') /\ ~fatal' /\ fatal' \in BOOLEAN
      /\ q'.depth \in 0 .. 1
  BY <1>1, DoneNothing
<1>4. TypeOK'
  BY <1>1, <1>3 DEF IInv, TypeOK, rx_vars, ch_vars, cp_vars
<1>5. QueueBound'
  BY <1>3 DEF QueueBound
<1>6. TimersWatched'
  BY <1>1 DEF IInv, TimersWatched
<1>7. DestroyFinal'
  BY <1>1 DEF IInv, DestroyFinal, StepIgnore, StepAbsorb, Transition, Busy
<1> QED
  BY <1>3, <1>4, <1>5, <1>6, <1>7 DEF IInv

LEMMA SendNcsiIInv == IInv /\ StepSendNcsi => IInv'
<1> SUFFICES ASSUME IInv, StepSendNcsi PROVE IInv'
  OBVIOUS
<1>1. /\ Busy /\ Done(NoEvent, NoEvent, {}) /\ Current(q) = "PRIMARY"
      /\ UNCHANGED <<state, timer, pc, rx_vars, cp_vars,
                     app_paks, rx_primary, rcc_in_abort, joined, er_en>>
  BY DEF StepSendNcsi, On
<1>2. /\ q' \in QueueOf(Events) /\ RingConsistent(q') /\ ~fatal' /\ fatal' \in BOOLEAN
      /\ q'.depth \in 0 .. 1
  BY <1>1, DoneNothing
<1>3. upcalls' \in [{"NCSI", "ABORT"} -> Nat]
  BY DEF IInv, TypeOK, StepSendNcsi, Upcall
<1>4. TypeOK'
  BY <1>1, <1>2, <1>3 DEF IInv, TypeOK, rx_vars, cp_vars
<1>5. QueueBound'
  BY <1>2 DEF QueueBound
<1>6. TimersWatched'
  BY <1>1 DEF IInv, TimersWatched
<1>7. DestroyFinal'
  BY <1>1 DEF IInv, DestroyFinal, Busy
<1> QED
  BY <1>2, <1>4, <1>5, <1>6, <1>7 DEF IInv

LEMMA SuccessIInv == IInv /\ StepSuccess => IInv'
<1> SUFFICES ASSUME IInv, StepSuccess PROVE IInv'
  OBVIOUS
<1>1. /\ Busy /\ Done(NoEvent, NoEvent, {}) /\ state = "WAIT_END_BURST"
      /\ state' = "FIN_SUCCESS" /\ timer' = Stop({"burst_end", "activity"})
  BY DEF StepSuccess, On
<1>2. /\ q' \in QueueOf(Events) /\ RingConsistent(q') /\ ~fatal' /\ fatal' \in BOOLEAN
      /\ q'.depth \in 0 .. 1
  BY <1>1, DoneNothing
<1>3. timer' \in [Timers -> {"null", "armed", "fired"}]
  BY <1>1 DEF IInv, TypeOK, Stop
<1>4. TypeOK'
  BY <1>1, <1>2, <1>3 DEF IInv, TypeOK, StepSuccess, cp_vars, States
<1>5. QueueBound'
  BY <1>2 DEF QueueBound
<1>6. TimersWatched'
  <2>1. \A t \in Timers : timer'[t] = "null"
    BY <1>1, WatchedIn DEF IInv, TypeOK, TimersWatched, Stop, Timers
  <2> QED
    BY <2>1 DEF TimersWatched
<1>7. DestroyFinal'
  BY <1>1 DEF IInv, DestroyFinal, StepSuccess, Busy, Final
<1> QED
  BY <1>2, <1>4, <1>5, <1>6, <1>7 DEF IInv

LEMMA StartRccIInv == ASSUME NEW ok \in BOOLEAN PROVE IInv /\ StepStartRcc(ok) => IInv'
<1> SUFFICES ASSUME IInv, StepStartRcc(ok) PROVE IInv'
  OBVIOUS
<1> DEFINE e2 == ErrIf(~ok)
<1>1. /\ Busy /\ Done(NoEvent, e2, {StateTimer["WAIT_FIRST_SEQ"]}) /\ state = "INIT"
      /\ Current(q) = "START_RCC"
      /\ state' = "WAIT_FIRST_SEQ" /\ Enter("WAIT_FIRST_SEQ", ok, {}, {})
      /\ UNCHANGED <<pc, rx_vars, ch_vars, cp_vars>>
  BY DEF StepStartRcc, On, Enter
<1>2. e2 \in Events \cup {NoEvent}
  BY DEF ErrIf, Events
<1> HIDE DEF e2
<1>3. \A t \in {StateTimer["WAIT_FIRST_SEQ"]} : timer[t] = "null"
  BY <1>1, WatchedIn DEF IInv, TypeOK, TimersWatched, StateTimer, Timers
<1>4. q \in QueueOf(Events) /\ RingConsistent(q) /\ q.depth <= 2 /\ ~fatal /\ q.depth = 1
  BY <1>1 DEF IInv, TypeOK, QueueBound, Busy, QueueOf, Final
<1>5. /\ q' \in QueueOf(Events) /\ RingConsistent(q') /\ ~fatal' /\ fatal' \in BOOLEAN
      /\ q'.depth \in 0 .. 3 /\ q'.depth <= 1
  BY <1>1, <1>2, <1>3, <1>4, DoneQueue
<1>6. timer' \in [Timers -> {"null", "armed", "fired"}]
  BY <1>1 DEF IInv, TypeOK, Enter
<1>7. TypeOK'
  BY <1>1, <1>5, <1>6 DEF IInv, TypeOK, rx_vars, ch_vars, cp_vars, States
<1>8. QueueBound'
  BY <1>5 DEF QueueBound
<1>9. TimersWatched'
  BY <1>1, WatchedIn DEF IInv, TypeOK, TimersWatched, Enter, StateTimer, Timers, States
<1>10. DestroyFinal'
  BY <1>1 DEF IInv, DestroyFinal, Final
<1> QED
  BY <1>5, <1>7, <1>8, <1>9, <1>10 DEF IInv

\* Both its action and its entry function may fail, which leaves two events that
\* lead to ABORT on the queue.
LEMMA FirstRepairIInv ==
    ASSUME NEW inserted \in {"none", "some", "all"}, NEW act \in BOOLEAN, NEW ok \in BOOLEAN
    PROVE  IInv /\ StepFirstRepair(inserted, act, ok) => IInv'
<1> SUFFICES ASSUME IInv, StepFirstRepair(inserted, act, ok) PROVE IInv'
  OBVIOUS
<1> DEFINE good == app_paks /\ inserted = "all" /\ act
           e1 == ErrIf(~good)
           e2 == ErrIf(~ok)
           armed == IF good THEN {"activity"} ELSE {}
<1>1. /\ Busy /\ Done(e1, e2, {StateTimer["WAIT_JOIN"]}) /\ state = "WAIT_FIRST_SEQ"
      /\ Current(q) = "REPAIR"
      /\ state' = "WAIT_JOIN" /\ Enter("WAIT_JOIN", ok, armed, {"wait_first"})
      /\ pcm' = (IF app_paks /\ inserted # "none" THEN pcm \cup {"app"} ELSE pcm)
      /\ app_paks' = FALSE
      /\ UNCHANGED <<pc, rx_repair, process_first_repair, fil_act, holdq, cp_vars,
                     rx_primary, rcc_in_abort, joined, er_en, upcalls>>
  BY DEF StepFirstRepair, On, Enter
<1>2. /\ e1 \in Events \cup {NoEvent} /\ e1 \in {"INTERNAL_ERR", NoEvent}
      /\ e2 \in Events \cup {NoEvent}
  BY DEF ErrIf, Events
<1>a. armed \subseteq {"activity"}
  OBVIOUS
<1> HIDE DEF e1, e2, armed, good
<1>3. \A t \in {StateTimer["WAIT_JOIN"]} : timer[t] = "null"
  BY <1>1, WatchedIn DEF IInv, TypeOK, TimersWatched, StateTimer, Timers
<1>4. q \in QueueOf(Events) /\ RingConsistent(q) /\ q.depth <= 2 /\ ~fatal /\ q.depth = 1
  BY <1>1 DEF IInv, TypeOK, QueueBound, Busy, QueueOf, Final
<1>5. /\ q' \in QueueOf(Events) /\ RingConsistent(q') /\ ~fatal' /\ fatal' \in BOOLEAN
      /\ q'.depth \in 0 .. 3 /\ q'.depth <= 2
      /\ e1 = NoEvent => q'.depth <= 1
      /\ e1 # NoEvent => Current(q') = e1
  BY <1>1, <1>2, <1>3, <1>4, DoneQueue
<1>6. timer' \in [Timers -> {"null", "armed", "fired"}]
  BY <1>1 DEF IInv, TypeOK, Enter
<1>7. TypeOK'
  BY <1>1, <1>5, <1>6 DEF IInv, TypeOK, cp_vars, States
<1>8. QueueBound'
  BY <1>1, <1>2, <1>5 DEF QueueBound
<1>9. TimersWatched'
  BY <1>1, <1>a, WatchedIn DEF IInv, TypeOK, TimersWatched, Enter, StateTimer, Timers, States
<1>10. DestroyFinal'
  BY <1>1 DEF IInv, DestroyFinal, Final
<1> QED
  BY <1>5, <1>7, <1>8, <1>9, <1>10 DEF IInv

LEMMA PrimaryJoinIInv == ASSUME NEW ok \in BOOLEAN PROVE IInv /\ StepPrimaryJoin(ok) => IInv'
<1> SUFFICES ASSUME IInv, StepPrimaryJoin(ok) PROVE IInv'
  OBVIOUS
<1> DEFINE e2 == ErrIf(~ok)
<1>1. /\ Busy /\ Done(NoEvent, e2, {StateTimer["WAIT_EN_ER"]}) /\ state = "WAIT_JOIN"
      /\ Current(q) = "TIME_TO_JOIN"
      /\ state' = "WAIT_EN_ER" /\ Enter("WAIT_EN_ER", ok, {}, {"activity", "join"})
      /\ joined' = joined \cup {"primary"}
      /\ UNCHANGED <<pc, rx_vars, cp_vars, app_paks, rx_primary, rcc_in_abort, er_en, upcalls>>
  BY DEF StepPrimaryJoin, On, Enter
<1>2. e2 \in Events \cup {NoEvent}
  BY DEF ErrIf, Events
<1> HIDE DEF e2
<1>3. \A t \in {StateTimer["WAIT_EN_ER"]} : timer[t] = "null"
  BY <1>1, WatchedIn DEF IInv, TypeOK, TimersWatched, StateTimer, Timers
<1>4. q \in QueueOf(Events) /\ RingConsistent(q) /\ q.depth <= 2 /\ ~fatal /\ q.depth = 1
  BY <1>1 DEF IInv, TypeOK, QueueBound, Busy, QueueOf, Final
<1>5. /\ q' \in QueueOf(Events) /\ RingConsistent(q') /\ ~fatal' /\ fatal' \in BOOLEAN
      /\ q'.depth \in 0 .. 3 /\ q'.depth <= 1
  BY <1>1, <1>2, <1>3, <1>4, DoneQueue
<1>6. timer' \in [Timers -> {"null", "armed", "fired"}]
  BY <1>1 DEF IInv, TypeOK, Enter
<1>7. TypeOK'
  BY <1>1, <1>5, <1>6 DEF IInv, TypeOK, rx_vars, cp_vars, States
<1>8. QueueBound'
  BY <1>5 DEF QueueBound
<1>9. TimersWatched'
  BY <1>1, WatchedIn DEF IInv, TypeOK, TimersWatched, Enter, StateTimer, Timers, States
<1>10. DestroyFinal'
  BY <1>1 DEF IInv, DestroyFinal, Final
<1> QED
  BY <1>5, <1>7, <1>8, <1>9, <1>10 DEF IInv

\* vqec_dpchan_rcc_er_en_notify() keeps the types of what it changes.
LEMMA ErEnType ==
    ASSUME TypeOK, NEW rep \in SUBSET Paks, NEW prim \in BOOLEAN, ErEnNotify(rep, prim)
    PROVE  /\ process_first_repair' \in BOOLEAN /\ rx_primary' \in BOOLEAN
           /\ er_en' \in BOOLEAN /\ fil_act' \in BOOLEAN /\ rx_repair' \in BOOLEAN
           /\ pcm' \subseteq {"app", "first", "other"} /\ holdq' \subseteq Paks
  BY DEF TypeOK, ErEnNotify, Paks

LEMMA NotifyErEnIInv ==
    ASSUME NEW rep \in SUBSET Paks, NEW prim \in BOOLEAN, NEW ok \in BOOLEAN
    PROVE  IInv /\ StepNotifyErEn(rep, prim, ok) => IInv'
<1> SUFFICES ASSUME IInv, StepNotifyErEn(rep, prim, ok) PROVE IInv'
  OBVIOUS
<1> DEFINE e1 == PrimaryIf(prim)
           e2 == ErrIf(~ok)
<1>1. /\ Busy /\ Done(e1, e2, {StateTimer["WAIT_END_BURST"]}) /\ state = "WAIT_EN_ER"
      /\ Current(q) = "TIME_TO_EN_ER"
      /\ state' = "WAIT_END_BURST" /\ Enter("WAIT_END_BURST", ok, {}, {"er"})
      /\ ErEnNotify(rep, prim)
      /\ UNCHANGED <<pc, cp_vars, app_paks, rcc_in_abort, joined, upcalls>>
  BY DEF StepNotifyErEn, On, Enter
<1>2. e1 \in Events \cup {NoEvent} /\ e2 \in Events \cup {NoEvent}
  BY DEF PrimaryIf, ErrIf, Events
<1> HIDE DEF e1, e2
<1>3. \A t \in {StateTimer["WAIT_END_BURST"]} : timer[t] = "null"
  BY <1>1, WatchedIn DEF IInv, TypeOK, TimersWatched, StateTimer, Timers
<1>4. q \in QueueOf(Events) /\ RingConsistent(q) /\ q.depth <= 2 /\ ~fatal /\ q.depth = 1
  BY <1>1 DEF IInv, TypeOK, QueueBound, Busy, QueueOf, Final
<1>5. /\ q' \in QueueOf(Events) /\ RingConsistent(q') /\ ~fatal' /\ fatal' \in BOOLEAN
      /\ q'.depth \in 0 .. 3 /\ q'.depth <= 2
  BY <1>1, <1>2, <1>3, <1>4, DoneQueue
<1>6. timer' \in [Timers -> {"null", "armed", "fired"}]
  BY <1>1 DEF IInv, TypeOK, Enter
<1>7. TypeOK'
  BY <1>1, <1>5, <1>6, ErEnType DEF IInv, TypeOK, cp_vars, States
<1>8. QueueBound'
  BY <1>1, <1>5 DEF QueueBound
<1>9. TimersWatched'
  BY <1>1, WatchedIn DEF IInv, TypeOK, TimersWatched, Enter, StateTimer, Timers, States
<1>10. DestroyFinal'
  BY <1>1 DEF IInv, DestroyFinal, Final
<1> QED
  BY <1>5, <1>7, <1>8, <1>9, <1>10 DEF IInv

LEMMA AbortIInv ==
    ASSUME NEW rep \in SUBSET Paks, NEW prim \in BOOLEAN
    PROVE  IInv /\ StepAbort(rep, prim) => IInv'
<1> SUFFICES ASSUME IInv, StepAbort(rep, prim) PROVE IInv'
  OBVIOUS
<1> DEFINE e1 == IF rcc_in_abort THEN NoEvent ELSE PrimaryIf(prim)
           T == {"activity"} \cup IF state = "INIT" THEN {} ELSE {StateTimer[state]}
<1>1. /\ Busy /\ Done(e1, NoEvent, {}) /\ state \in States \ Final
      /\ state' = "ABORT" /\ timer' = Stop(T) /\ app_paks' = FALSE
      /\ UNCHANGED <<pc, cp_vars>>
  BY DEF StepAbort, IInv, TypeOK
<1>2. e1 \in Events \cup {NoEvent}
  BY DEF PrimaryIf, Events
<1> HIDE DEF e1
<1>3. q \in QueueOf(Events) /\ RingConsistent(q) /\ q.depth <= 2 /\ ~fatal
  BY DEF IInv, TypeOK, QueueBound
<1>4. NoEvent \in Events \cup {NoEvent} /\ \A t \in {} : timer[t] = "null"
  OBVIOUS
<1>5. /\ q' \in QueueOf(Events) /\ RingConsistent(q') /\ ~fatal' /\ fatal' \in BOOLEAN
      /\ q'.depth \in 0 .. 3 /\ q'.depth <= 2
  BY <1>1, <1>2, <1>3, <1>4, DoneQueue
<1>6. timer' \in [Timers -> {"null", "armed", "fired"}]
  BY <1>1 DEF IInv, TypeOK, Stop
<1>7. TypeOK'
  <2>1. CASE rcc_in_abort
    <3>1. UNCHANGED <<rx_vars, rx_primary, rcc_in_abort, joined, er_en, upcalls>>
      BY <2>1 DEF StepAbort
    <3> QED
      BY <1>1, <1>5, <1>6, <3>1 DEF IInv, TypeOK, rx_vars, cp_vars, States
  <2>2. CASE ~rcc_in_abort
    <3>1. Upcall("ABORT") /\ joined' = {"primary", "fec"} /\ ErEnNotify(rep, prim) /\ rcc_in_abort' = TRUE
      BY <2>2 DEF StepAbort
    <3>2. upcalls' \in [{"NCSI", "ABORT"} -> Nat]
      BY <3>1 DEF IInv, TypeOK, Upcall
    <3> QED
      BY <1>1, <1>5, <1>6, <3>1, <3>2, ErEnType DEF IInv, TypeOK, cp_vars, States
  <2> QED
    BY <2>1, <2>2 DEF IInv, TypeOK
<1>8. QueueBound'
  BY <1>1, <1>5 DEF QueueBound, Final
<1>9. TimersWatched'
  <2>1. \A t \in Timers : timer'[t] = "null"
    BY <1>1, WatchedIn DEF IInv, TypeOK, TimersWatched, Stop, Timers, States, Final, StateTimer
  <2> QED
    BY <2>1 DEF TimersWatched
<1>10. DestroyFinal'
  BY <1>1 DEF IInv, DestroyFinal, Final, Busy
<1> QED
  BY <1>5, <1>7, <1>8, <1>9, <1>10 DEF IInv

-----------------------------------------------------------------------------
(***************************************************************************)
(* Handlers run while the queue is empty.                                  *)
(***************************************************************************)

\* A handler that delivers an event puts exactly one on the queue.
LEMMA HandlerDelivers ==
    ASSUME IInv, ~Busy, NEW e \in Events, Deliver(e)
    PROVE  /\ q' \in QueueOf(Events) /\ QueueBound' /\ ~fatal' /\ fatal' \in BOOLEAN
           /\ Busy' /\ Current(q') = e
<1>1. q \in QueueOf(Events) /\ RingConsistent(q) /\ ~fatal
  BY DEF IInv, TypeOK, QueueBound
<1>2. /\ q' \in QueueOf(Events) /\ RingConsistent(q')
      /\ q'.depth = 1 /\ Current(q') = e /\ ~fatal' /\ fatal' \in BOOLEAN
  BY <1>1, DeliverQueue
<1> QED
  BY <1>2 DEF QueueBound, Busy

\* A handler that delivers none leaves it as it was.
LEMMA HandlerQuiet ==
    ASSUME IInv, ~Busy, UNCHANGED <<q, fatal>>
    PROVE  /\ q' \in QueueOf(Events) /\ QueueBound' /\ ~fatal' /\ fatal' \in BOOLEAN
           /\ ~Busy'
  BY DEF IInv, TypeOK, QueueBound, Busy, QueueOf

\* Either way, and with the state and the timers as they were, what remains to
\* be shown of the invariant are the types of the other variables and pc.
LEMMA HandlerIInv ==
    ASSUME IInv, ~Busy, UNCHANGED <<state, timer>>,
           \/ UNCHANGED <<q, fatal>>
           \/ \E e \in Events : Deliver(e),
           q' \in QueueOf(Events) /\ fatal' \in BOOLEAN => TypeOK',
           pc' \notin {"destroy", "destroyed"}
    PROVE  IInv'
<1>1. q' \in QueueOf(Events) /\ QueueBound' /\ ~fatal' /\ fatal' \in BOOLEAN
  BY HandlerDelivers, HandlerQuiet
<1>2. TimersWatched'
  BY DEF IInv, TimersWatched
<1>3. DestroyFinal'
  BY DEF DestroyFinal
<1> QED
  BY <1>1, <1>2, <1>3 DEF IInv

LEMMA RcvPrimaryIInv == IInv /\ RcvPrimary => IInv'
<1> SUFFICES ASSUME IInv, RcvPrimary PROVE IInv'
  OBVIOUS
<1>1. ~Busy /\ UNCHANGED <<state, timer>> /\ Deliver("PRIMARY") /\ "PRIMARY" \in Events
      /\ pc' = "idle"
  BY DEF RcvPrimary, Idle, Events
<1>2. q' \in QueueOf(Events) /\ fatal' \in BOOLEAN => TypeOK'
  BY DEF IInv, TypeOK, RcvPrimary, rx_vars, cp_vars
<1> QED
  BY <1>1, <1>2, HandlerIInv

\* The first packet of the burst: at most one event is delivered.
LEMMA FirstFoundDoes ==
    ASSUME TypeOK, NEW err_pc \in {"rcv_one", "idle"}, FirstFound(err_pc)
    PROVE  /\ UNCHANGED <<q, fatal>> \/ \E e \in Events : Deliver(e)
           /\ rx_repair' \in BOOLEAN /\ process_first_repair' \in BOOLEAN
           /\ pc' \in {"rcv_one", "idle"}
<1>1. CASE app_paks /\ ~hdr_fits
  BY <1>1 DEF TypeOK, FirstFound, Events
<1>2. CASE ~(app_paks /\ ~hdr_fits)
  BY <1>2 DEF TypeOK, FirstFound, DeliverIf, Events
<1> QED
  BY <1>1, <1>2

LEMMA RcvRepairIInv == ASSUME NEW p \in Paks PROVE IInv /\ RcvRepair(p) => IInv'
<1> SUFFICES ASSUME IInv, RcvRepair(p) PROVE IInv'
  OBVIOUS
<1>0. ~Busy /\ pc = "idle" /\ UNCHANGED <<state, timer, ch_vars, cp_vars>>
  BY DEF RcvRepair, Idle
<1>1. CASE fil_act' = FALSE /\ FirstFound("rcv_one") /\ UNCHANGED <<holdq, pcm>>
  BY <1>0, <1>1, FirstFoundDoes, HandlerIInv DEF IInv, TypeOK, PCs, ch_vars, cp_vars
<1>2. CASE holdq' = holdq \cup {p} /\ UNCHANGED <<q, fatal, pc, rx_repair, process_first_repair, fil_act, pcm>>
  BY <1>0, <1>2, HandlerIInv DEF IInv, TypeOK, ch_vars, cp_vars
<1>3. CASE pcm' = pcm \cup {p} /\ UNCHANGED <<q, fatal, pc, rx_repair, process_first_repair, fil_act, holdq>>
  BY <1>0, <1>3, HandlerIInv DEF IInv, TypeOK, Paks, ch_vars, cp_vars
<1> QED
  BY <1>1, <1>2, <1>3 DEF RcvRepair

LEMMA RcvRestIInv == IInv /\ RcvRest => IInv'
<1> SUFFICES ASSUME IInv, RcvRest PROVE IInv'
  OBVIOUS
<1>1. ~Busy /\ UNCHANGED <<state, timer>> /\ UNCHANGED <<q, fatal>> /\ pc' = "idle"
  BY DEF RcvRest, sm_vars
<1>2. TypeOK'
  BY DEF IInv, TypeOK, RcvRest, sm_vars, ch_vars, cp_vars, PCs, Paks
<1> QED
  BY <1>1, <1>2, HandlerIInv

LEMMA TimeoutIInv == ASSUME NEW t \in Timers PROVE IInv /\ Timeout(t) => IInv'
<1> SUFFICES ASSUME IInv, Timeout(t) PROVE IInv'
  OBVIOUS
<1>1. /\ ~Busy /\ pc = "idle" /\ Deliver(TimerEvent(t)) /\ TimerEvent(t) \in Events
      /\ timer[t] = "armed"
      /\ timer' = [timer EXCEPT ![t] = IF t = "activity" THEN "armed" ELSE "fired"]
      /\ UNCHANGED <<state, pc, rx_vars, ch_vars, cp_vars>>
  BY DEF Timeout, Idle, TimerEvent, Timers, Events
<1>2. q' \in QueueOf(Events) /\ QueueBound' /\ ~fatal' /\ fatal' \in BOOLEAN
  BY <1>1, HandlerDelivers
<1>3. TypeOK'
  BY <1>1, <1>2 DEF IInv, TypeOK, rx_vars, ch_vars, cp_vars
<1>4. TimersWatched'
  BY <1>1 DEF IInv, TypeOK, TimersWatched
<1>5. DestroyFinal'
  BY <1>1 DEF DestroyFinal
<1> QED
  BY <1>2, <1>3, <1>4, <1>5 DEF IInv

LEMMA ProcessAppIInv == ASSUME NEW resources \in BOOLEAN PROVE IInv /\ ProcessApp(resources) => IInv'
<1> SUFFICES ASSUME IInv, ProcessApp(resources) PROVE IInv'
  OBVIOUS
<1>0. /\ ~Busy /\ pc = "idle" /\ apps' \in 0 .. MaxApps
      /\ UNCHANGED <<state, timer, rx_vars, rx_primary, joined, er_en, upcalls, hdr_fits>>
  BY MaxAppsAssumption DEF ProcessApp, Idle, IInv, TypeOK
<1>1. CASE app_ret' = "OK" /\ UNCHANGED <<q, fatal, pc, app_paks, rcc_in_abort>>
  BY <1>0, <1>1, HandlerIInv DEF IInv, TypeOK, rx_vars
<1>2. CASE rcc_in_abort' = TRUE /\ pc' = "app_err_poll" /\ UNCHANGED <<q, fatal, app_paks, app_ret>>
  BY <1>0, <1>2, HandlerIInv DEF IInv, TypeOK, PCs, rx_vars
<1>3. CASE /\ app_paks' = TRUE /\ Deliver("START_RCC") /\ pc' = "set_firstseq_fil"
           /\ UNCHANGED <<rcc_in_abort, app_ret>>
  <2>1. \E e \in Events : Deliver(e)
    BY <1>3 DEF Events
  <2> QED
    BY <1>0, <1>3, <2>1, HandlerIInv DEF IInv, TypeOK, PCs, rx_vars
<1> QED
  BY <1>1, <1>2, <1>3 DEF ProcessApp

LEMMA SetFirstseqFilIInv == IInv /\ SetFirstseqFil => IInv'
<1> SUFFICES ASSUME IInv, SetFirstseqFil PROVE IInv'
  OBVIOUS
<1>0. /\ ~Busy /\ app_ret' \in {"none", "OK", "ERR"}
      /\ UNCHANGED <<state, timer, pcm, ch_vars, apps, hdr_fits>>
  BY DEF SetFirstseqFil
<1>1. CASE pc' = "idle" /\ UNCHANGED <<q, fatal, rx_repair, process_first_repair, fil_act, holdq>>
  BY <1>0, <1>1, HandlerIInv DEF IInv, TypeOK, PCs, ch_vars
<1>2. CASE holdq' = holdq \ {"first"} /\ FirstFound("idle") /\ UNCHANGED fil_act
  BY <1>0, <1>2, FirstFoundDoes, HandlerIInv DEF IInv, TypeOK, PCs, ch_vars
<1>3. CASE fil_act' = TRUE /\ pc' = "idle" /\ UNCHANGED <<q, fatal, rx_repair, process_first_repair, holdq>>
  BY <1>0, <1>3, HandlerIInv DEF IInv, TypeOK, PCs, ch_vars
<1> QED
  BY <1>1, <1>2, <1>3 DEF SetFirstseqFil

LEMMA AppErrPollIInv == ASSUME NEW rep \in SUBSET Paks PROVE IInv /\ AppErrPoll(rep) => IInv'
<1> SUFFICES ASSUME IInv, AppErrPoll(rep) PROVE IInv'
  OBVIOUS
<1>1. /\ ~Busy /\ pc' = "app_err_prim" /\ joined' = {"primary", "fec"}
      /\ UNCHANGED <<state, timer, cp_vars, app_paks, rx_primary, rcc_in_abort,
                     er_en, upcalls>>
  BY DEF AppErrPoll
<1>2. UNCHANGED <<q, fatal>> \/ \E e \in Events : Deliver(e)
  BY DEF AppErrPoll, DeliverIf, Events
<1>3. /\ fil_act' \in BOOLEAN /\ process_first_repair' \in BOOLEAN /\ rx_repair' \in BOOLEAN
  BY DEF AppErrPoll, IInv, TypeOK
<1>4. holdq' \subseteq Paks /\ pcm' \subseteq {"app", "first", "other"}
  BY DEF AppErrPoll, IInv, TypeOK, Paks
<1>5. q' \in QueueOf(Events) /\ fatal' \in BOOLEAN => TypeOK'
  BY <1>1, <1>3, <1>4 DEF IInv, TypeOK, PCs, cp_vars
<1> QED
  BY <1>1, <1>2, <1>5, HandlerIInv

LEMMA AppErrPrimIInv == ASSUME NEW prim \in BOOLEAN PROVE IInv /\ AppErrPrim(prim) => IInv'
<1> SUFFICES ASSUME IInv, AppErrPrim(prim) PROVE IInv'
  OBVIOUS
<1>1. ~Busy /\ pc' = "app_err_end" /\ UNCHANGED <<state, timer>>
  BY DEF AppErrPrim
<1>2. UNCHANGED <<q, fatal>> \/ \E e \in Events : Deliver(e)
  BY DEF AppErrPrim, DeliverIf, Events
<1>3. q' \in QueueOf(Events) /\ fatal' \in BOOLEAN => TypeOK'
  BY DEF AppErrPrim, IInv, TypeOK, PCs, rx_vars, cp_vars
<1> QED
  BY <1>1, <1>2, <1>3, HandlerIInv

LEMMA AppErrEndIInv == IInv /\ AppErrEnd => IInv'
<1> SUFFICES ASSUME IInv, AppErrEnd PROVE IInv'
  OBVIOUS
<1>1. ~Busy /\ pc' = "idle" /\ UNCHANGED <<state, timer>>
  BY DEF AppErrEnd
<1>2. \E e \in Events : Deliver(e)
  BY DEF AppErrEnd, Events
<1>3. q' \in QueueOf(Events) /\ fatal' \in BOOLEAN => TypeOK'
  BY DEF AppErrEnd, IInv, TypeOK, PCs, Paks
<1> QED
  BY <1>1, <1>2, <1>3, HandlerIInv

LEMMA AbortRccIInv == IInv /\ AbortRcc => IInv'
<1> SUFFICES ASSUME IInv, AbortRcc PROVE IInv'
  OBVIOUS
<1>1. ~Busy /\ pc' = "abort_rcc" /\ UNCHANGED <<state, timer>>
  BY DEF AbortRcc, Idle
<1>2. \E e \in Events : Deliver(e)
  BY DEF AbortRcc, Events
<1>3. q' \in QueueOf(Events) /\ fatal' \in BOOLEAN => TypeOK'
  BY DEF AbortRcc, IInv, TypeOK, PCs, rx_vars, cp_vars
<1> QED
  BY <1>1, <1>2, <1>3, HandlerIInv

LEMMA AbortActionsIInv ==
    ASSUME NEW rep \in SUBSET Paks, NEW prim \in BOOLEAN
    PROVE  IInv /\ AbortActions(rep, prim) => IInv'
<1> SUFFICES ASSUME IInv, AbortActions(rep, prim) PROVE IInv'
  OBVIOUS
<1>1. /\ ~Busy /\ pc' = "idle" /\ joined' = {"primary", "fec"} /\ ErEnNotify(rep, prim)
      /\ UNCHANGED <<state, timer, cp_vars, app_paks, rcc_in_abort, upcalls>>
  BY DEF AbortActions
<1>2. UNCHANGED <<q, fatal>> \/ \E e \in Events : Deliver(e)
  BY DEF AbortActions, DeliverIf, Events
<1>3. q' \in QueueOf(Events) /\ fatal' \in BOOLEAN => TypeOK'
  BY <1>1, ErEnType DEF IInv, TypeOK, PCs, cp_vars
<1> QED
  BY <1>1, <1>2, <1>3, HandlerIInv

\* Destroying the channel leaves an ABORT event on the queue of a machine that
\* is not in a final state yet.
LEMMA DestroyIInv == IInv /\ Destroy => IInv'
<1> SUFFICES ASSUME IInv, Destroy PROVE IInv'
  OBVIOUS
<1>1. ~Busy /\ UNCHANGED <<state, timer>> /\ Deliver("ABORT") /\ "ABORT" \in Events /\ pc' = "destroy"
  BY DEF Destroy, Idle, Events
<1>2. /\ q' \in QueueOf(Events) /\ QueueBound' /\ ~fatal' /\ fatal' \in BOOLEAN
      /\ Busy' /\ Current(q') = "ABORT"
  BY <1>1, HandlerDelivers
<1>3. TypeOK'
  BY <1>2 DEF Destroy, IInv, TypeOK, PCs, rx_vars, cp_vars
<1>4. TimersWatched' /\ DestroyFinal'
  BY <1>1, <1>2 DEF IInv, TimersWatched, DestroyFinal
<1> QED
  BY <1>2, <1>3, <1>4 DEF IInv

LEMMA DestroyEndIInv == IInv /\ DestroyEnd => IInv'
<1> SUFFICES ASSUME IInv, DestroyEnd PROVE IInv'
  OBVIOUS
<1>1. ~Busy /\ pc = "destroy" /\ pc' = "destroyed" /\ UNCHANGED <<state, timer, q, fatal>>
  BY DEF DestroyEnd, sm_vars
<1>2. q' \in QueueOf(Events) /\ QueueBound' /\ ~fatal' /\ fatal' \in BOOLEAN /\ ~Busy'
  BY <1>1, HandlerQuiet
<1>3. TypeOK'
  BY <1>2 DEF DestroyEnd, IInv, TypeOK, PCs, sm_vars, ch_vars, cp_vars
<1>4. TimersWatched' /\ DestroyFinal'
  BY <1>1, <1>2 DEF IInv, TimersWatched, DestroyFinal
<1> QED
  BY <1>2, <1>3, <1>4 DEF IInv

-----------------------------------------------------------------------------
(***************************************************************************)
(* The theorems.                                                           *)
(***************************************************************************)

\* Every step of the dataplane keeps the inductive invariant.
LEMMA NextIInv == IInv /\ [Next]_vars => IInv'
<1> SUFFICES ASSUME IInv, [Next]_vars PROVE IInv'
  OBVIOUS
<1>1. CASE Step
  BY <1>1, IgnoreIInv, SendNcsiIInv, SuccessIInv, StartRccIInv, FirstRepairIInv,
     PrimaryJoinIInv, NotifyErEnIInv, AbortIInv DEF Step
<1>2. CASE Resume
  BY <1>2, RcvRestIInv, SetFirstseqFilIInv, AppErrPollIInv, AppErrPrimIInv,
     AppErrEndIInv, AbortActionsIInv, DestroyEndIInv DEF Resume
<1>3. CASE Packet
  BY <1>3, RcvPrimaryIInv, RcvRepairIInv DEF Packet
<1>4. CASE Call
  BY <1>4, ProcessAppIInv, AbortRccIInv, DestroyIInv DEF Call
<1>5. CASE \E t \in Timers : Timeout(t)
  BY <1>5, TimeoutIInv
<1>6. CASE UNCHANGED vars
  <2>1. UNCHANGED <<state, q, pc, timer, fatal>>
    BY <1>6 DEF vars, sm_vars
  <2>2. TypeOK'
    BY <1>6 DEF IInv, TypeOK, vars, sm_vars, rx_vars, ch_vars, cp_vars
  <2>3. QueueBound' /\ TimersWatched' /\ DestroyFinal' /\ ~fatal'
    BY <2>1 DEF IInv, QueueBound, TimersWatched, DestroyFinal, Busy
  <2> QED
    BY <2>2, <2>3 DEF IInv
<1> QED
  BY <1>1, <1>2, <1>3, <1>4, <1>5, <1>6 DEF Next

\* The inductive invariant holds in every reachable state.
THEOREM Invariance == Spec => []IInv
  BY InitIInv, NextIInv, PTL DEF Spec

\* The variables of the channel keep their types: in particular the index of the
\* event ring stays within its four slots and its depth never underflows.
THEOREM TypeCorrect == Spec => []TypeOK
<1>1. IInv => TypeOK
  BY DEF IInv
<1> QED
  BY <1>1, Invariance, PTL

\* The ring stays consistent and never holds more than two events between two
\* rounds of the loop in deliver_event().
THEOREM QueueCorrect == Spec => []QueueInOrder
<1>1. IInv => QueueInOrder
  BY DEF IInv, QueueBound, QueueInOrder
<1> QED
  BY <1>1, Invariance, PTL

\* No assertion of deliver_event() and timer_start() fails.
THEOREM AssertionsHold == Spec => []NoAssertFails
<1>1. IInv => NoAssertFails
  BY DEF IInv, NoAssertFails
<1> QED
  BY <1>1, Invariance, PTL

\* The event queue of the dataplane can be relied upon in every channel change:
\* no corruption, no overflow, no assertion of deliver_event() or timer_start().
THEOREM QueueIsSafe == Spec => []QueueSafe
  BY TypeCorrect, QueueCorrect, AssertionsHold, PTL DEF QueueSafe

\* No timer that refers to a channel exists once vqec_dpchan_destroy() has freed
\* the channel.
THEOREM NoDanglingTimer == Spec => []NoTimerSurvives
<1>1. IInv => NoTimerSurvives
  <2> SUFFICES ASSUME IInv, pc = "destroyed", NEW t \in Timers PROVE timer[t] = "null"
    BY DEF NoTimerSurvives
  <2>1. state \in Final
    BY DEF IInv, DestroyFinal
  <2>2. t \notin Watched(state)
    BY <2>1, WatchedIn DEF Final, States
  <2> QED
    BY <2>2 DEF IInv, TimersWatched
<1> QED
  BY <1>1, Invariance, PTL

-----------------------------------------------------------------------------
(***************************************************************************)
(* What the machine does for the channel: the timer a state waits with,    *)
(* the burst behind the APP, the upcalls and what the end of the machine   *)
(* leaves.  The second inductive invariant rests on the first; it speaks of what happens within a handler:   *)
(* the event being handled and the one behind it, and pc.                  *)
(***************************************************************************)
Now == At(q, 0)
Then == At(q, 1)
Queued == {Now, Then}

\* The states in which the primary stream has been joined and RCC goes on.
Streaming == {"WAIT_EN_ER", "WAIT_END_BURST", "FIN_SUCCESS"}

\* The error returns of vqec_dp_chan_process_app_internal().
AppErr == {"app_err_poll", "app_err_prim", "app_err_end"}

\* A timer that the state watches is armed, or its event is being handled, or a
\* failure to start it is about to abort the machine.
TimersOn ==
    \A t \in Watched(state) : \/ timer[t] = "armed"
                              \/ Now = TimerEvent(t)
                              \/ "INTERNAL_ERR" \in Queued

\* The first primary packet is either still to be told to the control plane or
\* has been; it arrives only in a state that tells it, or after an abort.
PrimaryCounted ==
    /\ upcalls["NCSI"] \in {0, 1}
    /\ ~rx_primary => upcalls["NCSI"] = 0 /\ "PRIMARY" \notin Queued
    /\ "PRIMARY" \in Queued => upcalls["NCSI"] = 0 /\ Now # Then
    /\ rx_primary /\ ~rcc_in_abort => upcalls["NCSI"] = 1 \/ "PRIMARY" \in Queued
    /\ (joined # {} \/ rx_primary) /\ ~rcc_in_abort => state \in Streaming

\* A channel marked aborted is on its way to a final state, and either the
\* handler that marked it still has to clean up or the channel is clean.
AbortCarried ==
    /\ upcalls["ABORT"] # 0 => upcalls["ABORT"] = 1 /\ state = "ABORT"
    /\ state = "ABORT" => rcc_in_abort
    /\ pc \in AppErr \cup {"abort_rcc"} => rcc_in_abort
    /\ pc \in {"app_err_prim", "app_err_end"} => joined = {"primary", "fec"}
    /\ pc = "app_err_poll" => Now = NoEvent
    /\ pc = "abort_rcc" => state \in Final \/ Now = "ABORT"
    /\ rcc_in_abort => \/ state \in Final
                       \/ pc \in AppErr
                       \/ Now \in {"ABORT", "INTERNAL_ERR"}
    /\ rcc_in_abort => \/ pc \in AppErr \cup {"abort_rcc", "destroy", "destroyed"}
                       \/ joined = {"primary", "fec"} /\ er_en /\ ~fil_act /\ holdq = {}

\* In INIT nothing of the burst has been let through, and the APP packets are
\* there only while START_RCC is being handled.
InitQuiet ==
    state = "INIT" =>
        /\ ~fil_act /\ ~rx_repair /\ pc # "rcv_one"
        /\ Now \in {NoEvent, "START_RCC", "ABORT", "INTERNAL_ERR"}
        /\ app_paks \/ Now = "START_RCC" \/ pc = "set_firstseq_fil" =>
              app_paks /\ Now = "START_RCC" /\ pc = "set_firstseq_fil"
        /\ pc \in AppErr => Now = NoEvent

\* In WAIT_FIRST_SEQ, the filter is on and the APP packets are there, except
\* while an event that leads out of the state is being handled.
FirstAwaited ==
    state = "WAIT_FIRST_SEQ" =>
        /\ Now \in {NoEvent, "REPAIR", "INTERNAL_ERR", "TIME_FIRST_SEQ", "ABORT", "PRIMARY"}
        /\ Now = NoEvent /\ pc \in {"idle", "app_err_poll"} => app_paks /\ ~rx_repair /\ fil_act
        /\ pc = "idle" => Now \in {NoEvent, "INTERNAL_ERR", "TIME_FIRST_SEQ"}
        /\ pc = "set_firstseq_fil" => /\ Now \in {NoEvent, "INTERNAL_ERR"}
                                      /\ app_paks /\ ~rx_repair /\ ~fil_act
        /\ pc = "rcv_one" => Now \in {"REPAIR", "INTERNAL_ERR"}

\* Past WAIT_FIRST_SEQ the first packet of the burst has been seen, and the APP
\* packets have been inserted unless the machine is about to abort.
BurstSeen ==
    /\ state \in Streaming \cup {"WAIT_JOIN"} => rx_repair
    /\ "REPAIR" \in Queued => rx_repair
    /\ state \in Streaming => "app" \in pcm /\ "primary" \in joined
    /\ state = "WAIT_JOIN" /\ "app" \notin pcm => Now = "INTERNAL_ERR"
    /\ state \in {"WAIT_END_BURST", "FIN_SUCCESS"} => er_en
    /\ state = "FIN_SUCCESS" => "fec" \in joined
    /\ BurstInOrder

\* Past INIT, packets are held only behind the filter or while the handler that
\* will pass them on or drop them is running.
Held ==
    /\ fil_act => "first" \notin holdq
    /\ state # "INIT" /\ ~fil_act /\ holdq # {} =>
          \/ pc \in {"rcv_one", "abort_rcc", "destroy"}
          \/ pc = "set_firstseq_fil" /\ state = "WAIT_FIRST_SEQ"
          \/ /\ pc = "idle" /\ state = "WAIT_FIRST_SEQ"
             /\ Now = "INTERNAL_ERR" /\ ~rcc_in_abort

\* What does not happen on a channel that has been passed one APP at most.
OneApp ==
    /\ apps = 0 => /\ ~fil_act /\ ~rx_repair /\ pc # "set_firstseq_fil"
                   /\ state \in {"INIT", "ABORT"}
    /\ apps <= 1 /\ fil_act => ~rx_repair /\ state # "FIN_SUCCESS"
    /\ apps <= 1 /\ pc = "set_firstseq_fil" =>
          ~fil_act /\ ~rx_repair /\ state \in {"INIT", "WAIT_FIRST_SEQ", "ABORT"}
    /\ apps <= 1 /\ app_paks => state \in {"INIT", "WAIT_FIRST_SEQ"}
    /\ apps <= 1 /\ state = "FIN_SUCCESS" /\ pc # "destroyed" => holdq = {}

JInv == /\ TimersOn /\ PrimaryCounted /\ AbortCarried /\ InitQuiet
        /\ FirstAwaited /\ BurstSeen /\ Held /\ OneApp

-----------------------------------------------------------------------------
(***************************************************************************)
(* What the queue operations do to the two events.                         *)
(***************************************************************************)

\* The queue holds events from Now on, and a second one only where an action has
\* delivered two.
LEMMA QueueView ==
    ASSUME IInv
    PROVE  /\ Now = Current(q) /\ (Now # NoEvent <=> Busy)
           /\ Now \in Events \cup {NoEvent} /\ Then \in Events \cup {NoEvent}
           /\ Then # NoEvent <=> q.depth = 2
           /\ Then # NoEvent =>
                \/ state \in Final \cup {"WAIT_END_BURST"}
                \/ state = "WAIT_JOIN" /\ Now = "INTERNAL_ERR"
<1>1. q \in QueueOf(Events) /\ RingConsistent(q) /\ q.depth \in Nat /\ q.depth <= 2
  BY DEF IInv, TypeOK, QueueBound, QueueOf
<1>2. 0 \in Slot /\ 1 \in Slot
  BY DEF Slot, MAX_EVENTQ_DEPTH
<1>3. /\ At(q, 0) # NoEvent <=> 0 < q.depth
      /\ At(q, 0) = Current(q) /\ At(q, 0) \in Events \cup {NoEvent}
  BY <1>1, <1>2, AtDepth
<1>4. At(q, 1) # NoEvent <=> 1 < q.depth
  BY <1>1, <1>2, AtDepth
<1>5. At(q, 1) \in Events \cup {NoEvent}
  BY <1>1, <1>2, AtDepth
<1> QED
  BY <1>1, <1>3, <1>4, <1>5 DEF Now, Then, Busy, IInv, QueueBound

\* The outermost deliver_event() makes its event the only one.
LEMMA DeliverView ==
    ASSUME IInv, ~Busy, NEW e \in Events, Deliver(e)
    PROVE  Now' = e /\ Then' = NoEvent
<1>1. q \in QueueOf(Events) /\ RingConsistent(q) /\ q.depth = 0
  BY DEF IInv, TypeOK, QueueBound, QueueOf, Busy
<1>2. 0 \in Slot /\ 1 \in Slot /\ q.depth < MAX_EVENTQ_DEPTH
  BY <1>1 DEF Slot, MAX_EVENTQ_DEPTH
<1>3. At(Lease(q, e), 0) = e
  BY <1>1, <1>2, LeaseAt
<1>4. At(Lease(q, e), 1) = At(q, 1)
  BY <1>1, <1>2, LeaseAt
<1>5. At(q, 1) = NoEvent
  BY <1>1, <1>2, AtDepth
<1> QED
  BY <1>3, <1>4, <1>5 DEF Deliver, Now, Then

\* One round takes the current event away and adds what its routines deliver.
LEMMA DoneView ==
    ASSUME IInv, Busy,
           NEW e1 \in Events \cup {NoEvent}, NEW e2 \in Events \cup {NoEvent},
           NEW T, Done(e1, e2, T)
    PROVE  /\ Then = NoEvent /\ e1 = NoEvent => Now' = e2 /\ Then' = NoEvent
           /\ Then = NoEvent /\ e1 # NoEvent => Now' = e1 /\ Then' = e2
           /\ Then # NoEvent /\ e1 = NoEvent => Now' = Then /\ Then' = e2
           /\ Then # NoEvent /\ e2 = NoEvent => Now' = Then /\ Then' = e1
<1> DEFINE q1 == LeaseIf(q, e1 # NoEvent, e1)
           q2 == LeaseIf(q1, e2 # NoEvent, e2)
<1>0. /\ q \in QueueOf(Events) /\ RingConsistent(q) /\ q.depth \in 1 .. 2
      /\ 0 \in Slot /\ 1 \in Slot /\ 2 \in Slot /\ q.depth < MAX_EVENTQ_DEPTH
  BY DEF IInv, TypeOK, QueueBound, QueueOf, Busy, Slot, MAX_EVENTQ_DEPTH
<1>1. /\ q1 \in QueueOf(Events) /\ RingConsistent(q1)
      /\ q1.depth = q.depth + (IF e1 = NoEvent THEN 0 ELSE 1)
  BY <1>0, LeaseIfRing
<1>2. \A k \in Slot : At(q1, k) = IF e1 # NoEvent /\ k = q.depth THEN e1 ELSE At(q, k)
  BY <1>0, LeaseAt DEF LeaseIf
<1> HIDE DEF q1
<1>3. q1.depth \in 1 .. 3 /\ q1.depth < MAX_EVENTQ_DEPTH
  BY <1>0, <1>1 DEF MAX_EVENTQ_DEPTH
<1>4. /\ q2 \in QueueOf(Events)
      /\ q2.depth = q1.depth + (IF e2 = NoEvent THEN 0 ELSE 1)
  BY <1>1, <1>3, LeaseIfRing
<1>5. \A k \in Slot : At(q2, k) = IF e2 # NoEvent /\ k = q1.depth THEN e2 ELSE At(q1, k)
  BY <1>1, <1>3, LeaseAt DEF LeaseIf
<1> HIDE DEF q2
<1>6. q' = Release(q2)
  BY DEF Done, q1, q2
<1>7. q2.depth > 0
  BY <1>3, <1>4
<1>8. At(q', 0) = At(q2, 0 + 1) /\ At(q', 1) = At(q2, 1 + 1)
  BY <1>4, <1>6, <1>7, ReleaseAt
<1>9. /\ At(q, 1) # NoEvent <=> q.depth = 2
      /\ At(q, 2) = NoEvent
  BY <1>0, AtDepth
<1> QED
  BY <1>0, <1>1, <1>2, <1>5, <1>8, <1>9 DEF Now, Then
-----------------------------------------------------------------------------
(***************************************************************************)
(* The invariant is inductive: one lemma per action.                       *)
(***************************************************************************)

LEMMA InitJInv == Init => JInv
<1> SUFFICES ASSUME Init PROVE JInv
  OBVIOUS
<1>1. Now = NoEvent /\ Then = NoEvent
  BY DEF Init, EmptyQueue, Now, Then, At, Slot, MAX_EVENTQ_DEPTH
<1>2. Watched(state) = {}
  BY WatchedIn DEF Init, Watched, States
<1> QED
  BY <1>1, <1>2 DEF Init, JInv, TimersOn, PrimaryCounted, AbortCarried, InitQuiet, FirstAwaited,
     BurstSeen, BurstInOrder, Held, OneApp, Queued, Streaming, AppErr, NoEvent, Final

\* An event that is dropped: it was not one the invariant waits for.
LEMMA IgnoreJInv == IInv /\ JInv /\ (StepIgnore \/ StepAbsorb) => JInv'
<1> SUFFICES ASSUME IInv, JInv, StepIgnore \/ StepAbsorb PROVE JInv'
  OBVIOUS
<1>1. /\ Busy /\ Done(NoEvent, NoEvent, {})
      /\ UNCHANGED <<state, timer, pc, rx_vars, ch_vars, cp_vars>>
      /\ \/ Transition(state, Now) = "INVALID"
         \/ state \in Final /\ (state = "FIN_SUCCESS" => Now # "PRIMARY")
  BY QueueView DEF StepIgnore, StepAbsorb, On
<1>2. Now' = Then /\ Then' = NoEvent /\ Now # NoEvent
  BY <1>1, DoneView, QueueView
<1>3. /\ state \in Final \/ (Now # "INTERNAL_ERR" /\ Now # "ABORT")
      /\ state = "INIT" => Now # "START_RCC"
      /\ state = "WAIT_FIRST_SEQ" => Now # "REPAIR" /\ Now # "TIME_FIRST_SEQ"
      /\ state \in Streaming => Now # "PRIMARY"
      /\ \A t \in Watched(state) : state \notin Final /\ Now # TimerEvent(t)
  BY <1>1, WatchedIn DEF Transition, Final, Streaming, TimerEvent, Timers, Watched, IInv, TypeOK
<1>4. TimersOn'
  BY <1>1, <1>2, <1>3, QueueView DEF JInv, TimersOn, Queued, NoEvent, Final
<1>5. PrimaryCounted'
  BY <1>1, <1>2, <1>3, QueueView DEF JInv, PrimaryCounted, Queued, Streaming, NoEvent, ch_vars
<1>6. AbortCarried'
  BY <1>1, <1>2, <1>3, QueueView DEF JInv, AbortCarried, Final, AppErr, NoEvent, ch_vars, rx_vars
<1>7. InitQuiet'
  BY <1>1, <1>2, <1>3, QueueView DEF JInv, InitQuiet, Final, AppErr, ch_vars, rx_vars
<1>8. FirstAwaited'
  BY <1>1, <1>2, <1>3, QueueView DEF JInv, FirstAwaited, AbortCarried, Final, ch_vars, rx_vars
<1>9. BurstSeen'
  BY <1>1, <1>2, <1>3, QueueView DEF JInv, BurstSeen, BurstInOrder, Queued, Streaming, Final, NoEvent, ch_vars, rx_vars
<1>10. Held'
  BY <1>1, <1>2, <1>3, QueueView DEF JInv, Held, Final, ch_vars, rx_vars
<1>11. OneApp'
  BY <1>1, <1>2, <1>3, QueueView DEF JInv, OneApp, ch_vars, rx_vars, cp_vars
<1> QED
  BY <1>4, <1>5, <1>6, <1>7, <1>8, <1>9, <1>10, <1>11 DEF JInv

\* vqec_dp_sm_send_ncsi(): the packet changes from queued to told.
LEMMA SendNcsiJInv == IInv /\ JInv /\ StepSendNcsi => JInv'
<1> SUFFICES ASSUME IInv, JInv, StepSendNcsi PROVE JInv'
  OBVIOUS
<1>1. /\ Busy /\ Done(NoEvent, NoEvent, {}) /\ Now = "PRIMARY" /\ state \in Streaming
      /\ Upcall("NCSI")
      /\ UNCHANGED <<state, timer, pc, rx_vars, cp_vars,
                     app_paks, rx_primary, rcc_in_abort, joined, er_en>>
  BY QueueView DEF StepSendNcsi, On, Streaming
<1>2. Now' = Then /\ Then' = NoEvent
  BY <1>1, DoneView
<1>3. upcalls'["NCSI"] = upcalls["NCSI"] + 1 /\ upcalls'["ABORT"] = upcalls["ABORT"]
  BY <1>1 DEF IInv, TypeOK, Upcall
<1>4. TimersOn'
  BY <1>1, <1>2, WatchedIn DEF JInv, TimersOn, TimerEvent, Timers, Watched, Queued
<1>5. PrimaryCounted'
  BY <1>1, <1>2, <1>3, QueueView DEF JInv, PrimaryCounted, Queued, NoEvent
<1>6. AbortCarried'
  BY <1>1, <1>2, <1>3, QueueView DEF JInv, AbortCarried, Final, AppErr, rx_vars
<1>7. InitQuiet' /\ FirstAwaited'
  BY <1>1 DEF InitQuiet, FirstAwaited, Streaming
<1>8. BurstSeen'
  BY <1>1, <1>2 DEF JInv, BurstSeen, BurstInOrder, Queued, Streaming, NoEvent, rx_vars
<1>9. Held' /\ OneApp'
  BY <1>1, <1>2 DEF JInv, Held, OneApp, Streaming, rx_vars, cp_vars
<1> QED
  BY <1>4, <1>5, <1>6, <1>7, <1>8, <1>9 DEF JInv

LEMMA StartRccJInv ==
    ASSUME NEW ok \in BOOLEAN
    PROVE  IInv /\ JInv /\ StepStartRcc(ok) => JInv'
<1> SUFFICES ASSUME IInv, JInv, StepStartRcc(ok) PROVE JInv'
  OBVIOUS
<1> DEFINE e2 == ErrIf(~ok)
<1>1. /\ Busy /\ Done(NoEvent, e2, {StateTimer["WAIT_FIRST_SEQ"]})
      /\ state = "INIT" /\ Now = "START_RCC" /\ state' = "WAIT_FIRST_SEQ"
      /\ Enter("WAIT_FIRST_SEQ", ok, {}, {})
      /\ UNCHANGED <<pc, rx_vars, ch_vars, cp_vars>>
  BY QueueView DEF StepStartRcc, On, Enter
<1>2. e2 \in Events \cup {NoEvent} /\ e2 \in {NoEvent, "INTERNAL_ERR"} /\ (e2 = NoEvent => ok)
  BY DEF ErrIf, Events, NoEvent
<1> HIDE DEF e2
<1>3. Now' = e2 /\ Then' = NoEvent
  BY <1>1, <1>2, DoneView, QueueView DEF Final
<1>4. TimersOn'
  <2>1. ok => timer'["wait_first"] = "armed"
    BY <1>1 DEF Enter, StateTimer, Timers
  <2>2. \A t \in Watched(state') : t = "wait_first"
    BY <1>1, WatchedIn DEF Watched, States
  <2> QED
    BY <1>1, <1>2, <1>3, <2>1, <2>2 DEF TimersOn, Queued
<1>5. PrimaryCounted'
  BY <1>1, <1>2, <1>3 DEF JInv, PrimaryCounted, Queued, Streaming, NoEvent, ch_vars
<1>6. AbortCarried'
  BY <1>1, <1>2, <1>3 DEF JInv, AbortCarried, InitQuiet, Final, AppErr, NoEvent, ch_vars, rx_vars
<1>7. InitQuiet' /\ FirstAwaited'
  BY <1>1, <1>2, <1>3 DEF JInv, InitQuiet, FirstAwaited, ch_vars, rx_vars
<1>8. BurstSeen'
  BY <1>1, <1>2, <1>3 DEF JInv, BurstSeen, BurstInOrder, Queued, Streaming, NoEvent, ch_vars, rx_vars
<1>9. Held'
  BY <1>1 DEF JInv, Held, InitQuiet, rx_vars
<1>10. OneApp'
  BY <1>1 DEF JInv, OneApp, InitQuiet, ch_vars, rx_vars, cp_vars
<1> QED
  BY <1>4, <1>5, <1>6, <1>7, <1>8, <1>9, <1>10 DEF JInv

\* vqec_dp_sm_first_repair_actions(): where the APP packets cannot all be
\* inserted, or a timer cannot be started, the next event aborts.
LEMMA FirstRepairJInv ==
    ASSUME NEW inserted \in {"none", "some", "all"}, NEW act \in BOOLEAN, NEW ok \in BOOLEAN
    PROVE  IInv /\ JInv /\ StepFirstRepair(inserted, act, ok) => JInv'
<1> SUFFICES ASSUME IInv, JInv, StepFirstRepair(inserted, act, ok) PROVE JInv'
  OBVIOUS
<1> DEFINE good == app_paks /\ inserted = "all" /\ act
           e1 == ErrIf(~good)
           e2 == ErrIf(~ok)
           armed == IF good THEN {"activity"} ELSE {}
<1>1. /\ Busy /\ Done(e1, e2, {StateTimer["WAIT_JOIN"]})
      /\ state = "WAIT_FIRST_SEQ" /\ Now = "REPAIR" /\ state' = "WAIT_JOIN"
      /\ Enter("WAIT_JOIN", ok, armed, {"wait_first"})
      /\ pcm' = (IF app_paks /\ inserted # "none" THEN pcm \cup {"app"} ELSE pcm)
      /\ app_paks' = FALSE
      /\ UNCHANGED <<pc, rx_repair, process_first_repair, fil_act, holdq, cp_vars,
                     rx_primary, rcc_in_abort, joined, er_en, upcalls>>
  BY QueueView DEF StepFirstRepair, On, Enter
<1>2. /\ e1 \in Events \cup {NoEvent} /\ e1 \in {NoEvent, "INTERNAL_ERR"} /\ (e1 = NoEvent => good)
      /\ e2 \in Events \cup {NoEvent} /\ e2 \in {NoEvent, "INTERNAL_ERR"} /\ (e2 = NoEvent => ok)
  BY DEF ErrIf, Events, NoEvent
<1> HIDE DEF e1, e2
<1>3. /\ e1 = NoEvent => Now' = e2 /\ Then' = NoEvent
      /\ e1 # NoEvent => Now' = e1 /\ Then' = e2
  BY <1>1, <1>2, DoneView, QueueView DEF Final
<1>4. /\ Now' \in {NoEvent, "INTERNAL_ERR"} /\ Then' \in {NoEvent, "INTERNAL_ERR"}
      /\ Now' = NoEvent => good /\ ok
      /\ ~good => Now' = "INTERNAL_ERR"
  BY <1>2, <1>3 DEF NoEvent, e1, ErrIf
<1>5. TimersOn'
  <2>1. /\ ok => timer'["join"] = "armed"
        /\ good => timer'["activity"] = "armed"
    BY <1>1 DEF Enter, StateTimer, Timers
  <2>2. \A t \in Watched(state') : t \in {"join", "activity"}
    BY <1>1, WatchedIn DEF Watched, States
  <2> QED
    BY <1>1, <1>2, <1>3, <2>1, <2>2 DEF TimersOn, Queued
<1>6. PrimaryCounted'
  BY <1>1, <1>4 DEF JInv, PrimaryCounted, Queued, Streaming, NoEvent
<1>7. AbortCarried'
  BY <1>1, <1>4 DEF JInv, AbortCarried, Final, AppErr, NoEvent
<1>8. InitQuiet' /\ FirstAwaited'
  BY <1>1 DEF InitQuiet, FirstAwaited
<1>9. BurstSeen'
  BY <1>1, <1>4 DEF JInv, BurstSeen, BurstInOrder, Queued, Streaming, NoEvent
<1>10. Held'
  BY <1>1 DEF JInv, Held, FirstAwaited, NoEvent
<1>11. OneApp'
  BY <1>1 DEF JInv, OneApp, FirstAwaited, NoEvent, cp_vars
<1> QED
  BY <1>5, <1>6, <1>7, <1>8, <1>9, <1>10, <1>11 DEF JInv

LEMMA PrimaryJoinJInv ==
    ASSUME NEW ok \in BOOLEAN
    PROVE  IInv /\ JInv /\ StepPrimaryJoin(ok) => JInv'
<1> SUFFICES ASSUME IInv, JInv, StepPrimaryJoin(ok) PROVE JInv'
  OBVIOUS
<1> DEFINE e2 == ErrIf(~ok)
<1>1. /\ Busy /\ Done(NoEvent, e2, {StateTimer["WAIT_EN_ER"]})
      /\ state = "WAIT_JOIN" /\ Now = "TIME_TO_JOIN" /\ state' = "WAIT_EN_ER"
      /\ Enter("WAIT_EN_ER", ok, {}, {"activity", "join"})
      /\ joined' = joined \cup {"primary"}
      /\ UNCHANGED <<pc, rx_vars, cp_vars, app_paks, rx_primary, rcc_in_abort, er_en, upcalls>>
  BY QueueView DEF StepPrimaryJoin, On, Enter
<1>2. e2 \in Events \cup {NoEvent} /\ e2 \in {NoEvent, "INTERNAL_ERR"} /\ (e2 = NoEvent => ok)
  BY DEF ErrIf, Events, NoEvent
<1> HIDE DEF e2
<1>3. Now' = e2 /\ Then' = NoEvent
  BY <1>1, <1>2, DoneView, QueueView DEF Final
<1>4. TimersOn'
  <2>1. ok => timer'["er"] = "armed"
    BY <1>1 DEF Enter, StateTimer, Timers
  <2>2. \A t \in Watched(state') : t = "er"
    BY <1>1, WatchedIn DEF Watched, States
  <2> QED
    BY <1>1, <1>2, <1>3, <2>1, <2>2 DEF TimersOn, Queued
<1>5. PrimaryCounted'
  BY <1>1, <1>2, <1>3 DEF JInv, PrimaryCounted, Queued, Streaming, NoEvent
<1>6. AbortCarried'
  BY <1>1, <1>2, <1>3 DEF JInv, AbortCarried, Final, AppErr, NoEvent, rx_vars
<1>7. InitQuiet' /\ FirstAwaited'
  BY <1>1 DEF InitQuiet, FirstAwaited
<1>8. BurstSeen'
  BY <1>1, <1>2, <1>3 DEF JInv, BurstSeen, BurstInOrder, Queued, Streaming, NoEvent, rx_vars
<1>9. Held'
  BY <1>1 DEF JInv, Held, rx_vars
<1>10. OneApp'
  BY <1>1 DEF JInv, OneApp, rx_vars, cp_vars
<1> QED
  BY <1>4, <1>5, <1>6, <1>7, <1>8, <1>9, <1>10 DEF JInv

\* vqec_dpchan_rcc_er_en_notify() clears the filter and the hold queue, and
\* records the primary packets it polls, for which PRIMARY is delivered.
LEMMA ErEnDoes ==
    ASSUME NEW rep \in SUBSET Paks, NEW prim \in BOOLEAN, ErEnNotify(rep, prim)
    PROVE  /\ er_en' /\ ~fil_act' /\ holdq' = {} /\ rx_repair' = rx_repair
           /\ pcm \subseteq pcm'
           /\ rx_primary' = (rx_primary \/ prim)
           /\ PrimaryIf(prim) \in Events \cup {NoEvent}
           /\ PrimaryIf(prim) = "PRIMARY" => ~rx_primary /\ rx_primary'
           /\ PrimaryIf(prim) # "PRIMARY" => PrimaryIf(prim) = NoEvent /\ (rx_primary' <=> rx_primary)
  BY DEF ErEnNotify, PrimaryIf, Events, NoEvent

LEMMA NotifyErEnJInv ==
    ASSUME NEW rep \in SUBSET Paks, NEW prim \in BOOLEAN, NEW ok \in BOOLEAN
    PROVE  IInv /\ JInv /\ StepNotifyErEn(rep, prim, ok) => JInv'
<1> SUFFICES ASSUME IInv, JInv, StepNotifyErEn(rep, prim, ok) PROVE JInv'
  OBVIOUS
<1> DEFINE e1 == PrimaryIf(prim)
           e2 == ErrIf(~ok)
<1>1. /\ Busy /\ Done(e1, e2, {StateTimer["WAIT_END_BURST"]})
      /\ state = "WAIT_EN_ER" /\ Now = "TIME_TO_EN_ER" /\ state' = "WAIT_END_BURST"
      /\ Enter("WAIT_END_BURST", ok, {}, {"er"})
      /\ ErEnNotify(rep, prim)
      /\ UNCHANGED <<pc, cp_vars, app_paks, rcc_in_abort, joined, upcalls>>
  BY QueueView DEF StepNotifyErEn, On, Enter
<1>2. e2 \in Events \cup {NoEvent} /\ e2 \in {NoEvent, "INTERNAL_ERR"} /\ (e2 = NoEvent => ok)
  BY DEF ErrIf, Events, NoEvent
<1>3. /\ er_en' /\ ~fil_act' /\ holdq' = {} /\ rx_repair' = rx_repair /\ pcm \subseteq pcm'
      /\ e1 \in Events \cup {NoEvent}
      /\ e1 = "PRIMARY" => ~rx_primary /\ rx_primary'
      /\ e1 # "PRIMARY" => e1 = NoEvent /\ (rx_primary' <=> rx_primary)
  BY <1>1, ErEnDoes
<1> HIDE DEF e1, e2
<1>4. Then = NoEvent /\ (e1 = NoEvent => Now' = e2 /\ Then' = NoEvent)
      /\ (e1 # NoEvent => Now' = e1 /\ Then' = e2)
  BY <1>1, <1>2, <1>3, DoneView, QueueView DEF Final
<1>5. TimersOn'
  <2>1. ok => timer'["burst_end"] = "armed"
    BY <1>1 DEF Enter, StateTimer, Timers
  <2>2. \A t \in Watched(state') : t = "burst_end"
    BY <1>1, WatchedIn DEF Watched, States
  <2> QED
    BY <1>1, <1>2, <1>4, <2>1, <2>2 DEF TimersOn, Queued
<1>6. PrimaryCounted'
  BY <1>1, <1>2, <1>3, <1>4 DEF JInv, PrimaryCounted, Queued, Streaming, NoEvent
<1>7. AbortCarried'
  BY <1>1, <1>2, <1>3, <1>4 DEF JInv, AbortCarried, Final, AppErr, NoEvent
<1>8. InitQuiet' /\ FirstAwaited'
  BY <1>1 DEF InitQuiet, FirstAwaited
<1>9. BurstSeen'
  BY <1>1, <1>2, <1>3, <1>4 DEF JInv, BurstSeen, BurstInOrder, Queued, Streaming, NoEvent
<1>10. Held' /\ OneApp'
  BY <1>1, <1>3 DEF JInv, Held, OneApp, cp_vars
<1> QED
  BY <1>5, <1>6, <1>7, <1>8, <1>9, <1>10 DEF JInv

LEMMA SuccessJInv == IInv /\ JInv /\ StepSuccess => JInv'
<1> SUFFICES ASSUME IInv, JInv, StepSuccess PROVE JInv'
  OBVIOUS
<1>1. /\ Busy /\ Done(NoEvent, NoEvent, {})
      /\ state = "WAIT_END_BURST" /\ Now = "TIME_END_BURST" /\ state' = "FIN_SUCCESS"
      /\ joined' = joined \cup {"fec"} /\ ~fil_act' /\ holdq' = {}
      /\ UNCHANGED <<pc, rx_repair, pcm, cp_vars, app_paks, rx_primary, rcc_in_abort,
                     er_en, upcalls>>
  BY QueueView DEF StepSuccess, On
<1>2. Now' = Then /\ Then' = NoEvent
  BY <1>1, DoneView
<1>3. TimersOn'
  BY <1>1, WatchedIn DEF TimersOn, Watched, States
<1>4. PrimaryCounted'
  BY <1>1, <1>2 DEF JInv, PrimaryCounted, Queued, Streaming, NoEvent
<1>5. AbortCarried'
  BY <1>1, <1>2 DEF JInv, AbortCarried, Final, AppErr, NoEvent
<1>6. InitQuiet' /\ FirstAwaited'
  BY <1>1 DEF InitQuiet, FirstAwaited
<1>7. BurstSeen'
  BY <1>1, <1>2 DEF JInv, BurstSeen, BurstInOrder, Queued, Streaming, NoEvent
<1>8. Held' /\ OneApp'
  BY <1>1 DEF JInv, Held, OneApp, cp_vars
<1> QED
  BY <1>3, <1>4, <1>5, <1>6, <1>7, <1>8 DEF JInv

\* vqec_dp_sm_enter_abort_rcc(): either the handler that marked the channel
\* cleans up, or the notification does.
LEMMA AbortJInv ==
    ASSUME NEW rep \in SUBSET Paks, NEW prim \in BOOLEAN
    PROVE  IInv /\ JInv /\ StepAbort(rep, prim) => JInv'
<1> SUFFICES ASSUME IInv, JInv, StepAbort(rep, prim) PROVE JInv'
  OBVIOUS
<1> DEFINE e1 == IF rcc_in_abort THEN NoEvent ELSE PrimaryIf(prim)
<1>1. /\ Busy /\ Done(e1, NoEvent, {}) /\ state \notin Final /\ state' = "ABORT" /\ ~app_paks'
      /\ UNCHANGED <<pc, cp_vars>>
  BY DEF StepAbort
<1>2. e1 \in Events \cup {NoEvent}
  BY DEF PrimaryIf, Events
<1>3. TimersOn'
  BY <1>1, WatchedIn DEF TimersOn, Watched, States
<1>4. InitQuiet' /\ FirstAwaited'
  BY <1>1 DEF InitQuiet, FirstAwaited
<1>5. CASE rcc_in_abort
  <2>1. UNCHANGED <<rx_vars, rx_primary, rcc_in_abort, joined, er_en, upcalls>> /\ e1 = NoEvent
    BY <1>5 DEF StepAbort
  <2>2. Now' = Then /\ Then' = NoEvent
    BY <1>1, <1>2, <2>1, DoneView
  <2>3. PrimaryCounted'
    BY <1>1, <1>5, <2>1, <2>2 DEF JInv, PrimaryCounted, Queued, NoEvent
  <2>4. AbortCarried'
    BY <1>1, <1>5, <2>1, <2>2, QueueView DEF JInv, AbortCarried, Final, AppErr, NoEvent, rx_vars
  <2>5. BurstSeen'
    BY <1>1, <1>5, <2>1, <2>2 DEF JInv, BurstSeen, BurstInOrder, Queued, Streaming, NoEvent, rx_vars
  <2>6. Held'
    BY <1>1, <1>5, <2>1, <2>2, QueueView DEF IInv, DestroyFinal, JInv, Held, AbortCarried, InitQuiet, AppErr, rx_vars
  <2>7. OneApp'
    BY <1>1, <1>5, <2>1 DEF JInv, OneApp, rx_vars, cp_vars
  <2> QED
    BY <1>3, <1>4, <2>3, <2>4, <2>5, <2>6, <2>7 DEF JInv
<1>6. CASE ~rcc_in_abort
  <2>1. /\ Upcall("ABORT") /\ joined' = {"primary", "fec"} /\ ErEnNotify(rep, prim)
        /\ rcc_in_abort' /\ e1 = PrimaryIf(prim)
    BY <1>6 DEF StepAbort
  <2>2. /\ er_en' /\ ~fil_act' /\ holdq' = {} /\ rx_repair' = rx_repair /\ pcm \subseteq pcm'
        /\ e1 = "PRIMARY" => ~rx_primary /\ rx_primary'
        /\ e1 # "PRIMARY" => e1 = NoEvent /\ (rx_primary' <=> rx_primary)
    BY <2>1, ErEnDoes
  <2>3. upcalls'["ABORT"] = upcalls["ABORT"] + 1 /\ upcalls'["NCSI"] = upcalls["NCSI"]
    BY <2>1 DEF IInv, TypeOK, Upcall
  <2> HIDE DEF e1
  <2>4. /\ Then = NoEvent => Now' = e1 /\ Then' = NoEvent
        /\ Then # NoEvent => Now' = Then /\ Then' = e1
    BY <1>1, <1>2, DoneView
  <2>5. PrimaryCounted'
    BY <1>1, <2>1, <2>2, <2>3, <2>4 DEF JInv, PrimaryCounted, Queued, NoEvent
  <2>6. AbortCarried'
    BY <1>1, <1>6, <2>1, <2>2, <2>3, <2>4 DEF JInv, AbortCarried, Final, AppErr, NoEvent
  <2>7. BurstSeen'
    BY <1>1, <2>1, <2>2, <2>4 DEF JInv, BurstSeen, BurstInOrder, Queued, Streaming, NoEvent
  <2>8. Held' /\ OneApp'
    BY <1>1, <2>2 DEF JInv, Held, OneApp, cp_vars
  <2> QED
    BY <1>3, <1>4, <2>5, <2>6, <2>7, <2>8 DEF JInv
<1> QED
  BY <1>5, <1>6

-----------------------------------------------------------------------------
(***************************************************************************)
(* Handlers run while the queue is empty.                                  *)
(***************************************************************************)

\* A handler that leaves the state and the timers alone leaves the timers on.
LEMMA HandlerTimers ==
    ASSUME IInv, JInv, ~Busy, UNCHANGED <<state, timer>>
    PROVE  TimersOn' /\ Now = NoEvent /\ Then = NoEvent
<1>1. Now = NoEvent /\ Then = NoEvent
  BY QueueView DEF IInv, TypeOK, QueueOf, Busy
<1>2. \A t \in Watched(state) : timer[t] = "armed"
  BY <1>1 DEF JInv, TimersOn, Queued, NoEvent, TimerEvent, Watched, Timers
<1> QED
  BY <1>1, <1>2 DEF TimersOn

\* A handler that delivers nothing.
LEMMA HandlerKeeps ==
    ASSUME IInv, ~Busy, UNCHANGED q
    PROVE  Now' = NoEvent /\ Then' = NoEvent
<1>1. Now' = Now /\ Then' = Then
  BY DEF Now, Then, At
<1> QED
  BY <1>1, QueueView DEF IInv, TypeOK, QueueOf, Busy

LEMMA RcvPrimaryJInv == IInv /\ JInv /\ RcvPrimary => JInv'
<1> SUFFICES ASSUME IInv, JInv, RcvPrimary PROVE JInv'
  OBVIOUS
<1>1. /\ ~Busy /\ pc = "idle" /\ state # "INIT" /\ "primary" \in joined /\ ~rx_primary
      /\ rx_primary' /\ Deliver("PRIMARY") /\ "PRIMARY" \in Events
      /\ UNCHANGED <<state, timer, pc, rx_vars, cp_vars, app_paks, rcc_in_abort, joined,
                     er_en, upcalls>>
  BY DEF RcvPrimary, Idle, Events
<1>2. Now' = "PRIMARY" /\ Then' = NoEvent
  BY <1>1, DeliverView
<1>3. TimersOn' /\ Now = NoEvent /\ Then = NoEvent
  BY <1>1, HandlerTimers
<1>4. PrimaryCounted'
  BY <1>1, <1>2, <1>3 DEF JInv, PrimaryCounted, Queued, NoEvent
<1>5. AbortCarried'
  BY <1>1, <1>2, <1>3 DEF JInv, AbortCarried, Final, AppErr, NoEvent, rx_vars
<1>6. InitQuiet' /\ FirstAwaited'
  BY <1>1, <1>3 DEF JInv, InitQuiet, FirstAwaited, PrimaryCounted, AbortCarried, Streaming,
     Final, AppErr, NoEvent
<1>7. BurstSeen'
  BY <1>1, <1>2, <1>3 DEF JInv, BurstSeen, BurstInOrder, Queued, Streaming, NoEvent, rx_vars
<1>8. Held'
  BY <1>1, <1>2, <1>3 DEF JInv, Held, NoEvent, rx_vars
<1>9. OneApp'
  BY <1>1 DEF JInv, OneApp, rx_vars, cp_vars
<1> QED
  BY <1>3, <1>4, <1>5, <1>6, <1>7, <1>8, <1>9 DEF JInv

\* What FirstFound() does, case by case.
LEMMA FirstFoundView ==
    ASSUME IInv, ~Busy, NEW err_pc, FirstFound(err_pc)
    PROVE  /\ Then' = NoEvent
           /\ \/ /\ app_paks /\ Now' = "INTERNAL_ERR" /\ pc' = err_pc /\ rx_repair' = rx_repair
              \/ /\ ~rx_repair /\ state \notin Final \cup {"INIT"}
                 /\ Now' = "REPAIR" /\ pc' = "rcv_one" /\ rx_repair'
              \/ /\ rx_repair \/ state \in Final \cup {"INIT"}
                 /\ Now' = NoEvent /\ pc' = "rcv_one" /\ (rx_repair' <=> rx_repair)
<1>1. CASE app_paks /\ ~hdr_fits
  <2>1. Deliver("INTERNAL_ERR") /\ pc' = err_pc /\ rx_repair' = rx_repair /\ "INTERNAL_ERR" \in Events
    BY <1>1 DEF FirstFound, Events
  <2> QED
    BY <1>1, <2>1, DeliverView
<1>2. CASE ~(app_paks /\ ~hdr_fits)
  <2> DEFINE new == ~rx_repair /\ state \notin Final \cup {"INIT"}
  <2>1. rx_repair' = (rx_repair \/ new) /\ DeliverIf(new, "REPAIR") /\ pc' = "rcv_one"
    BY <1>2 DEF FirstFound
  <2>2. CASE new
    BY <2>1, <2>2, DeliverView DEF DeliverIf, Events
  <2>3. CASE ~new
    BY <2>1, <2>3, HandlerKeeps DEF DeliverIf
  <2> QED
    BY <2>2, <2>3
<1> QED
  BY <1>1, <1>2

LEMMA RcvRepairJInv == ASSUME NEW p \in Paks PROVE IInv /\ JInv /\ RcvRepair(p) => JInv'
<1> SUFFICES ASSUME IInv, JInv, RcvRepair(p) PROVE JInv'
  OBVIOUS
<1>0. /\ ~Busy /\ pc = "idle" /\ UNCHANGED <<state, timer, ch_vars, cp_vars>>
  BY DEF RcvRepair, Idle
<1>t. TimersOn' /\ Now = NoEvent /\ Then = NoEvent
  BY <1>0, HandlerTimers
<1>i. rcc_in_abort => state \in Final /\ joined = {"primary", "fec"} /\ er_en /\ ~fil_act /\ holdq = {}
  BY <1>0, <1>t DEF JInv, AbortCarried, AppErr, NoEvent
<1>1. CASE fil_act /\ ~fil_act' /\ FirstFound("rcv_one") /\ UNCHANGED <<holdq, pcm>>
  <2>1. /\ Then' = NoEvent /\ pc' = "rcv_one"
        /\ \/ Now' = "INTERNAL_ERR" /\ app_paks /\ rx_repair' = rx_repair
           \/ Now' = "REPAIR" /\ ~rx_repair /\ state \notin Final \cup {"INIT"} /\ rx_repair'
           \/ Now' = NoEvent /\ (rx_repair \/ state \in Final \cup {"INIT"}) /\ (rx_repair' <=> rx_repair)
    BY <1>0, <1>1, FirstFoundView
  <2>2. state # "INIT" /\ ~rcc_in_abort
    BY <1>1, <1>i DEF JInv, InitQuiet
  <2>3. PrimaryCounted'
    BY <1>0, <1>t, <2>1 DEF JInv, PrimaryCounted, Queued, NoEvent, ch_vars
  <2>4. AbortCarried'
    BY <1>0, <1>t, <2>1, <2>2 DEF JInv, AbortCarried, Final, AppErr, ch_vars
  <2>5. InitQuiet' /\ FirstAwaited'
    BY <1>0, <1>t, <2>1, <2>2 DEF JInv, InitQuiet, FirstAwaited, Final
  <2>6. BurstSeen'
    BY <1>0, <1>1, <1>t, <2>1 DEF JInv, BurstSeen, BurstInOrder, Queued, Streaming, NoEvent, ch_vars
  <2>7. Held'
    BY <1>0, <1>1, <2>1 DEF Held
  <2>8. OneApp'
    BY <1>0, <1>1, <2>1 DEF JInv, OneApp, ch_vars, cp_vars
  <2> QED
    BY <1>t, <2>3, <2>4, <2>5, <2>6, <2>7, <2>8 DEF JInv
<1>2. CASE /\ (fil_act /\ p # "first") \/ state = "INIT"
           /\ holdq' = holdq \cup {p}
           /\ UNCHANGED <<q, fatal, pc, rx_repair, process_first_repair, fil_act, pcm>>
  <2>1. Now' = NoEvent /\ Then' = NoEvent
    BY <1>0, <1>2, HandlerKeeps
  <2>2. ~rcc_in_abort
    BY <1>2, <1>i DEF Final
  <2>3. PrimaryCounted' /\ AbortCarried' /\ InitQuiet' /\ FirstAwaited'
    BY <1>0, <1>2, <1>t, <2>1, <2>2 DEF JInv, PrimaryCounted, AbortCarried, InitQuiet, FirstAwaited, Queued, ch_vars
  <2>4. BurstSeen'
    BY <1>0, <1>2, <1>t, <2>1 DEF JInv, BurstSeen, BurstInOrder, Queued, ch_vars
  <2>5. Held' /\ OneApp'
    BY <1>0, <1>2 DEF JInv, Held, OneApp, InitQuiet, ch_vars, cp_vars
  <2> QED
    BY <1>t, <2>3, <2>4, <2>5 DEF JInv
<1>3. CASE /\ ~fil_act /\ state # "INIT" /\ pcm' = pcm \cup {p}
           /\ UNCHANGED <<q, fatal, pc, rx_repair, process_first_repair, fil_act, holdq>>
  <2>1. Now' = NoEvent /\ Then' = NoEvent
    BY <1>0, <1>3, HandlerKeeps
  <2>2. PrimaryCounted' /\ AbortCarried' /\ InitQuiet' /\ FirstAwaited'
    BY <1>0, <1>3, <1>t, <2>1 DEF JInv, PrimaryCounted, AbortCarried, InitQuiet, FirstAwaited, Queued, ch_vars
  <2>3. ~rcc_in_abort => rx_repair /\ "app" \in pcm
    BY <1>0, <1>3, <1>t DEF JInv, BurstSeen, FirstAwaited, AbortCarried, Streaming, NoEvent,
       IInv, TypeOK, States
  <2>4. BurstSeen'
    BY <1>0, <1>3, <1>t, <2>1, <2>3 DEF JInv, BurstSeen, BurstInOrder, Queued, ch_vars
  <2>5. Held' /\ OneApp'
    BY <1>0, <1>3, <1>t, <2>1 DEF JInv, Held, OneApp, ch_vars, cp_vars
  <2> QED
    BY <1>t, <2>2, <2>4, <2>5 DEF JInv
<1> QED
  BY <1>1, <1>2, <1>3 DEF RcvRepair

LEMMA RcvRestJInv == IInv /\ JInv /\ RcvRest => JInv'
<1> SUFFICES ASSUME IInv, JInv, RcvRest PROVE JInv'
  OBVIOUS
<1>1. /\ ~Busy /\ pc = "rcv_one" /\ pc' = "idle" /\ holdq' = {}
      /\ pcm' = pcm \cup {"first"} \cup holdq
      /\ UNCHANGED <<state, timer, q, rx_repair, fil_act, ch_vars, cp_vars>>
  BY DEF RcvRest, sm_vars
<1>2. Now' = NoEvent /\ Then' = NoEvent
  BY <1>1, HandlerKeeps
<1>3. TimersOn' /\ Now = NoEvent /\ Then = NoEvent
  BY <1>1, HandlerTimers
<1>4. PrimaryCounted'
  BY <1>1, <1>2, <1>3 DEF JInv, PrimaryCounted, Queued, ch_vars
<1>5. AbortCarried'
  BY <1>1, <1>2, <1>3 DEF JInv, AbortCarried, AppErr, NoEvent, ch_vars
<1>6. state \notin {"INIT", "WAIT_FIRST_SEQ"}
  BY <1>1, <1>3 DEF JInv, InitQuiet, FirstAwaited, NoEvent
<1>7. BurstSeen'
  <2>1. ~rcc_in_abort => rx_repair /\ "app" \in pcm
    BY <1>1, <1>3, <1>6 DEF JInv, BurstSeen, AbortCarried, Streaming, NoEvent, IInv, TypeOK, States
  <2> QED
    BY <1>1, <1>2, <1>3, <2>1 DEF JInv, BurstSeen, BurstInOrder, Queued, ch_vars
<1>8. InitQuiet' /\ FirstAwaited' /\ Held' /\ OneApp'
  BY <1>1, <1>6 DEF JInv, InitQuiet, FirstAwaited, Held, OneApp, ch_vars, cp_vars
<1> QED
  BY <1>3, <1>4, <1>5, <1>7, <1>8 DEF JInv

LEMMA TimeoutJInv == ASSUME NEW t \in Timers PROVE IInv /\ JInv /\ Timeout(t) => JInv'
<1> SUFFICES ASSUME IInv, JInv, Timeout(t) PROVE JInv'
  OBVIOUS
<1>1. /\ ~Busy /\ pc = "idle" /\ Deliver(TimerEvent(t)) /\ TimerEvent(t) \in Events
      /\ timer[t] = "armed"
      /\ timer' = [timer EXCEPT ![t] = IF t = "activity" THEN "armed" ELSE "fired"]
      /\ UNCHANGED <<state, pc, rx_vars, ch_vars, cp_vars>>
  BY DEF Timeout, Idle, TimerEvent, Timers, Events
<1>2. Now' = TimerEvent(t) /\ Then' = NoEvent
  BY <1>1, DeliverView
<1>3. Now = NoEvent /\ Then = NoEvent
  BY <1>1, QueueView DEF IInv, TypeOK, QueueOf, Busy
<1>4. t \in Watched(state)
  BY <1>1 DEF IInv, TimersWatched
<1>5. /\ TimerEvent(t) \in {"TIME_FIRST_SEQ", "TIME_TO_JOIN", "TIME_TO_EN_ER", "TIME_END_BURST", "ACTIVITY_TIMEOUT"}
      /\ state = "WAIT_FIRST_SEQ" => TimerEvent(t) = "TIME_FIRST_SEQ"
      /\ state \notin Final \cup {"INIT"}
  BY <1>4, WatchedIn DEF TimerEvent, Timers, IInv, TypeOK, Final
<1>6. TimersOn'
  <2> SUFFICES ASSUME NEW u \in Watched(state) PROVE timer'[u] = "armed" \/ Now' = TimerEvent(u)
    BY <1>1 DEF TimersOn
  <2>1. u \in Timers /\ timer[u] = "armed"
    BY <1>3 DEF JInv, TimersOn, Queued, NoEvent, TimerEvent, Watched, Timers
  <2>2. CASE u = t
    BY <1>2, <2>2
  <2>3. CASE u # t
    BY <1>1, <2>1, <2>3 DEF IInv, TypeOK
  <2> QED
    BY <2>2, <2>3
<1>7. PrimaryCounted'
  BY <1>1, <1>2, <1>3, <1>5 DEF JInv, PrimaryCounted, Queued, NoEvent, ch_vars
<1>8. AbortCarried'
  BY <1>1, <1>2, <1>3, <1>5 DEF JInv, AbortCarried, Final, AppErr, NoEvent, ch_vars, rx_vars
<1>9. InitQuiet' /\ FirstAwaited'
  BY <1>1, <1>2, <1>3, <1>5 DEF JInv, InitQuiet, FirstAwaited, NoEvent, ch_vars, rx_vars
<1>10. BurstSeen'
  BY <1>1, <1>2, <1>3, <1>5 DEF JInv, BurstSeen, BurstInOrder, Queued, Streaming, NoEvent, ch_vars, rx_vars
<1>11. Held'
  BY <1>1, <1>3 DEF JInv, Held, NoEvent, ch_vars, rx_vars
<1>12. OneApp'
  BY <1>1 DEF JInv, OneApp, ch_vars, rx_vars, cp_vars
<1> QED
  BY <1>6, <1>7, <1>8, <1>9, <1>10, <1>11, <1>12 DEF JInv

\* vqec_dp_chan_process_app(): an APP that is turned down marks the channel
\* aborted; one that is taken delivers START_RCC.
LEMMA ProcessAppJInv ==
    ASSUME NEW resources \in BOOLEAN
    PROVE  IInv /\ JInv /\ ProcessApp(resources) => JInv'
<1> SUFFICES ASSUME IInv, JInv, ProcessApp(resources) PROVE JInv'
  OBVIOUS
<1>0. /\ ~Busy /\ pc = "idle" /\ apps \in Nat /\ apps' = apps + 1
      /\ UNCHANGED <<state, timer, rx_vars, rx_primary, joined, er_en, upcalls, hdr_fits>>
  BY DEF ProcessApp, Idle, IInv, TypeOK
<1>t. TimersOn' /\ Now = NoEvent /\ Then = NoEvent
  BY <1>0, HandlerTimers
<1>1. CASE rcc_in_abort /\ UNCHANGED <<q, pc, app_paks, rcc_in_abort>>
  <2>1. Now' = NoEvent /\ Then' = NoEvent
    BY <1>0, <1>1, HandlerKeeps
  <2>2. PrimaryCounted' /\ AbortCarried' /\ InitQuiet' /\ FirstAwaited'
    BY <1>0, <1>1, <1>t, <2>1 DEF JInv, PrimaryCounted, AbortCarried, InitQuiet, FirstAwaited, Queued, rx_vars
  <2>3. BurstSeen' /\ Held'
    BY <1>0, <1>1, <1>t, <2>1 DEF JInv, BurstSeen, BurstInOrder, Held, Queued, rx_vars
  <2>4. OneApp'
    BY <1>0, <1>1 DEF JInv, OneApp, rx_vars
  <2> QED
    BY <1>t, <2>2, <2>3, <2>4 DEF JInv
<1>2. CASE /\ ~rcc_in_abort /\ (app_paks \/ ~resources) /\ rcc_in_abort' /\ pc' = "app_err_poll"
           /\ UNCHANGED <<q, app_paks>>
  <2>1. Now' = NoEvent /\ Then' = NoEvent
    BY <1>0, <1>2, HandlerKeeps
  <2>2. PrimaryCounted' /\ InitQuiet' /\ FirstAwaited'
    BY <1>0, <1>2, <1>t, <2>1 DEF JInv, PrimaryCounted, InitQuiet, FirstAwaited, Queued, NoEvent, rx_vars
  <2>3. AbortCarried'
    BY <1>0, <1>2, <1>t, <2>1 DEF JInv, AbortCarried, AppErr, rx_vars
  <2>4. BurstSeen' /\ Held'
    BY <1>0, <1>2, <1>t, <2>1 DEF JInv, BurstSeen, BurstInOrder, Held, Queued, NoEvent, rx_vars
  <2>5. OneApp'
    BY <1>0, <1>2 DEF JInv, OneApp, rx_vars
  <2> QED
    BY <1>t, <2>2, <2>3, <2>4, <2>5 DEF JInv
<1>3. CASE /\ ~rcc_in_abort /\ ~app_paks /\ app_paks' /\ Deliver("START_RCC")
           /\ pc' = "set_firstseq_fil" /\ UNCHANGED rcc_in_abort
  <2>1. Now' = "START_RCC" /\ Then' = NoEvent
    BY <1>0, <1>3, DeliverView DEF Events
  <2>2. state # "WAIT_FIRST_SEQ"
    BY <1>0, <1>3, <1>t DEF JInv, FirstAwaited
  <2>3. PrimaryCounted' /\ InitQuiet' /\ FirstAwaited'
    BY <1>0, <1>3, <1>t, <2>1, <2>2 DEF JInv, PrimaryCounted, InitQuiet, FirstAwaited, AppErr, Queued, NoEvent, rx_vars
  <2>4. AbortCarried'
    BY <1>0, <1>3, <1>t, <2>1 DEF JInv, AbortCarried, AppErr, rx_vars
  <2>5. BurstSeen' /\ Held'
    BY <1>0, <1>3, <1>t, <2>1 DEF JInv, BurstSeen, BurstInOrder, Held, Queued, NoEvent, rx_vars
  <2>6. OneApp'
    BY <1>0, <1>3 DEF JInv, OneApp, InitQuiet, AbortCarried, rx_vars
  <2> QED
    BY <1>t, <2>3, <2>4, <2>5, <2>6 DEF JInv
<1> QED
  BY <1>1, <1>2, <1>3 DEF ProcessApp

LEMMA SetFirstseqFilJInv == IInv /\ JInv /\ SetFirstseqFil => JInv'
<1> SUFFICES ASSUME IInv, JInv, SetFirstseqFil PROVE JInv'
  OBVIOUS
<1>0. /\ ~Busy /\ pc = "set_firstseq_fil"
      /\ UNCHANGED <<state, timer, pcm, ch_vars, apps, hdr_fits>>
  BY DEF SetFirstseqFil
<1>t. TimersOn' /\ Now = NoEvent /\ Then = NoEvent
  BY <1>0, HandlerTimers
<1>i. state # "INIT" /\ (state = "WAIT_FIRST_SEQ" => ~rcc_in_abort /\ app_paks /\ ~rx_repair /\ ~fil_act)
  BY <1>0, <1>t DEF JInv, InitQuiet, FirstAwaited, AbortCarried, Final, AppErr, NoEvent
<1>1. CASE rcc_in_abort /\ pc' = "idle" /\ UNCHANGED <<q, rx_repair, fil_act, holdq>>
  <2>1. Now' = NoEvent /\ Then' = NoEvent
    BY <1>0, <1>1, HandlerKeeps
  <2>2. PrimaryCounted' /\ AbortCarried' /\ InitQuiet' /\ FirstAwaited'
    BY <1>0, <1>1, <1>i, <1>t, <2>1 DEF JInv, PrimaryCounted, AbortCarried, InitQuiet, FirstAwaited, AppErr, Queued, ch_vars
  <2>3. BurstSeen' /\ Held' /\ OneApp'
    BY <1>0, <1>1, <1>i, <1>t, <2>1 DEF JInv, BurstSeen, BurstInOrder, Held, OneApp, Queued, ch_vars
  <2> QED
    BY <1>t, <2>2, <2>3 DEF JInv
<1>2. CASE ~rcc_in_abort /\ "first" \in holdq /\ holdq' = holdq \ {"first"} /\ FirstFound("idle") /\ UNCHANGED fil_act
  <2>1. /\ Then' = NoEvent
        /\ \/ Now' = "INTERNAL_ERR" /\ app_paks /\ pc' = "idle" /\ rx_repair' = rx_repair
           \/ Now' = "REPAIR" /\ pc' = "rcv_one" /\ ~rx_repair /\ state \notin Final \cup {"INIT"} /\ rx_repair'
           \/ Now' = NoEvent /\ pc' = "rcv_one" /\ (rx_repair \/ state \in Final \cup {"INIT"}) /\ (rx_repair' <=> rx_repair)
    BY <1>0, <1>2, FirstFoundView
  <2>2. ~fil_act /\ state = "WAIT_FIRST_SEQ"
    BY <1>0, <1>2, <1>i DEF JInv, Held
  <2>3. PrimaryCounted' /\ AbortCarried' /\ InitQuiet' /\ FirstAwaited'
    BY <1>0, <1>2, <1>i, <1>t, <2>1, <2>2 DEF JInv, PrimaryCounted, AbortCarried, InitQuiet, FirstAwaited, AppErr,
       Final, Queued, NoEvent, ch_vars
  <2>4. BurstSeen'
    BY <1>0, <1>2, <1>t, <2>1, <2>2 DEF JInv, BurstSeen, BurstInOrder, Queued, Streaming, NoEvent, ch_vars
  <2>5. Held' /\ OneApp'
    BY <1>0, <1>2, <1>i, <2>1, <2>2 DEF JInv, Held, OneApp, Final, ch_vars
  <2> QED
    BY <1>t, <2>3, <2>4, <2>5 DEF JInv
<1>3. CASE ~rcc_in_abort /\ "first" \notin holdq /\ fil_act' /\ pc' = "idle" /\ UNCHANGED <<q, rx_repair, holdq>>
  <2>1. Now' = NoEvent /\ Then' = NoEvent
    BY <1>0, <1>3, HandlerKeeps
  <2>2. PrimaryCounted' /\ AbortCarried' /\ InitQuiet' /\ FirstAwaited'
    BY <1>0, <1>3, <1>i, <1>t, <2>1 DEF JInv, PrimaryCounted, AbortCarried, InitQuiet, FirstAwaited, AppErr, Queued, ch_vars
  <2>3. BurstSeen' /\ Held' /\ OneApp'
    BY <1>0, <1>3, <1>i, <1>t, <2>1 DEF JInv, BurstSeen, BurstInOrder, Held, OneApp, Queued, ch_vars
  <2> QED
    BY <1>t, <2>2, <2>3 DEF JInv
<1> QED
  BY <1>1, <1>2, <1>3 DEF SetFirstseqFil

\* The poll of the repair stream after an error in vqec_dp_chan_process_app().
LEMMA AppErrPollJInv ==
    ASSUME NEW rep \in SUBSET Paks
    PROVE  IInv /\ JInv /\ AppErrPoll(rep) => JInv'
<1> SUFFICES ASSUME IInv, JInv, AppErrPoll(rep) PROVE JInv'
  OBVIOUS
<1> DEFINE hit == fil_act /\ "first" \in rep
           err == hit /\ app_paks /\ ~hdr_fits
           new == hit /\ ~err /\ ~rx_repair /\ state \notin Final \cup {"INIT"}
<1>1. /\ ~Busy /\ pc = "app_err_poll" /\ pc' = "app_err_prim" /\ joined' = {"primary", "fec"}
      /\ fil_act' = (fil_act /\ ~hit)
      /\ holdq' = (IF hit THEN {}
                   ELSE IF fil_act \/ state = "INIT" THEN holdq \cup rep ELSE holdq)
      /\ pcm \subseteq pcm' /\ rx_repair' = (rx_repair \/ new)
      /\ DeliverIf(err \/ new, IF err THEN "INTERNAL_ERR" ELSE "REPAIR")
      /\ UNCHANGED <<state, timer, cp_vars, app_paks, rx_primary, rcc_in_abort, er_en, upcalls>>
  BY DEF AppErrPoll
<1>2. TimersOn' /\ Now = NoEvent /\ Then = NoEvent
  BY <1>1, HandlerTimers
<1>3. /\ Then' = NoEvent
      /\ \/ ~err /\ ~new /\ Now' = NoEvent
         \/ err /\ Now' = "INTERNAL_ERR"
         \/ new /\ Now' = "REPAIR"
  <2>1. CASE ~err /\ ~new
    BY <1>1, <2>1, HandlerKeeps DEF DeliverIf
  <2>2. CASE err
    BY <1>1, <2>2, DeliverView DEF DeliverIf, Events
  <2>3. CASE ~err /\ new
    BY <1>1, <2>3, DeliverView DEF DeliverIf, Events
  <2> QED
    BY <2>1, <2>2, <2>3
<1>4. rcc_in_abort /\ (state = "INIT" => ~fil_act /\ ~app_paks /\ ~rx_repair)
  BY <1>1, <1>2 DEF JInv, AbortCarried, InitQuiet, AppErr
<1>5. PrimaryCounted'
  BY <1>1, <1>2, <1>3, <1>4 DEF JInv, PrimaryCounted, Queued, NoEvent
<1>6. AbortCarried'
  BY <1>1, <1>2, <1>3, <1>4 DEF JInv, AbortCarried, AppErr, NoEvent
<1>7. InitQuiet' /\ FirstAwaited'
  BY <1>1, <1>2, <1>3, <1>4 DEF JInv, InitQuiet, FirstAwaited, AppErr, NoEvent
<1>8. BurstSeen'
  BY <1>1, <1>2, <1>3, <1>4 DEF JInv, BurstSeen, BurstInOrder, Queued, Streaming, NoEvent
<1>9. Held'
  BY <1>1, <1>2, <1>3, <1>4 DEF JInv, Held, NoEvent
<1>10. OneApp'
  BY <1>1, <1>2, <1>3, <1>4 DEF JInv, OneApp, cp_vars
<1> QED
  BY <1>2, <1>5, <1>6, <1>7, <1>8, <1>9, <1>10 DEF JInv

LEMMA AppErrPrimJInv ==
    ASSUME NEW prim \in BOOLEAN
    PROVE  IInv /\ JInv /\ AppErrPrim(prim) => JInv'
<1> SUFFICES ASSUME IInv, JInv, AppErrPrim(prim) PROVE JInv'
  OBVIOUS
<1> DEFINE new == prim /\ ~rx_primary /\ state # "INIT"
<1>1. /\ ~Busy /\ pc = "app_err_prim" /\ pc' = "app_err_end"
      /\ rx_primary' = (rx_primary \/ new) /\ DeliverIf(new, "PRIMARY")
      /\ UNCHANGED <<state, timer, rx_vars, cp_vars, app_paks, rcc_in_abort, joined, er_en, upcalls>>
  BY DEF AppErrPrim
<1>2. TimersOn' /\ Now = NoEvent /\ Then = NoEvent
  BY <1>1, HandlerTimers
<1>3. Then' = NoEvent /\ (new => Now' = "PRIMARY") /\ (~new => Now' = NoEvent)
  BY <1>1, DeliverView, HandlerKeeps DEF DeliverIf, Events
<1>4. rcc_in_abort
  BY <1>1 DEF JInv, AbortCarried, AppErr
<1>5. PrimaryCounted'
  BY <1>1, <1>2, <1>3, <1>4 DEF JInv, PrimaryCounted, Queued, NoEvent
<1>6. AbortCarried'
  BY <1>1, <1>2, <1>3, <1>4 DEF JInv, AbortCarried, AppErr, NoEvent, rx_vars
<1>7. InitQuiet' /\ FirstAwaited'
  BY <1>1, <1>2, <1>3, <1>4 DEF JInv, InitQuiet, FirstAwaited, AppErr, NoEvent, rx_vars
<1>8. BurstSeen'
  BY <1>1, <1>2, <1>3, <1>4 DEF JInv, BurstSeen, BurstInOrder, Queued, Streaming, NoEvent, rx_vars
<1>9. Held' /\ OneApp'
  BY <1>1, <1>2, <1>3, <1>4 DEF JInv, Held, OneApp, NoEvent, rx_vars, cp_vars
<1> QED
  BY <1>2, <1>5, <1>6, <1>7, <1>8, <1>9 DEF JInv

LEMMA AppErrEndJInv == IInv /\ JInv /\ AppErrEnd => JInv'
<1> SUFFICES ASSUME IInv, JInv, AppErrEnd PROVE JInv'
  OBVIOUS
<1>1. /\ ~Busy /\ pc = "app_err_end" /\ pc' = "idle" /\ er_en' /\ ~fil_act' /\ holdq' = {}
      /\ Deliver("INTERNAL_ERR") /\ "INTERNAL_ERR" \in Events
      /\ UNCHANGED <<state, timer, rx_repair, pcm, app_paks, rx_primary, rcc_in_abort,
                     joined, upcalls, apps, hdr_fits>>
  BY DEF AppErrEnd, Events
<1>2. TimersOn' /\ Now = NoEvent /\ Then = NoEvent
  BY <1>1, HandlerTimers
<1>3. Now' = "INTERNAL_ERR" /\ Then' = NoEvent
  BY <1>1, DeliverView
<1>4. PrimaryCounted'
  BY <1>1, <1>2, <1>3 DEF JInv, PrimaryCounted, Queued, NoEvent
<1>5. AbortCarried'
  BY <1>1, <1>2, <1>3 DEF JInv, AbortCarried, AppErr, NoEvent
<1>6. InitQuiet' /\ FirstAwaited'
  BY <1>1, <1>2, <1>3 DEF JInv, InitQuiet, FirstAwaited, AppErr, NoEvent
<1>7. BurstSeen'
  BY <1>1, <1>2, <1>3 DEF JInv, BurstSeen, BurstInOrder, Queued, Streaming, NoEvent
<1>8. Held' /\ OneApp'
  BY <1>1 DEF JInv, Held, OneApp
<1> QED
  BY <1>2, <1>4, <1>5, <1>6, <1>7, <1>8 DEF JInv

\* vqec_dp_chan_abort_rcc() and vqec_dpchan_destroy() start alike.
LEMMA AbortOrDestroyJInv == IInv /\ JInv /\ (AbortRcc \/ Destroy) => JInv'
<1> SUFFICES ASSUME IInv, JInv, AbortRcc \/ Destroy PROVE JInv'
  OBVIOUS
<1>1. /\ ~Busy /\ pc = "idle" /\ pc' \in {"abort_rcc", "destroy"} /\ rcc_in_abort'
      /\ Deliver("ABORT") /\ "ABORT" \in Events
      /\ UNCHANGED <<state, timer, rx_vars, cp_vars, app_paks, rx_primary, joined, er_en, upcalls>>
  BY DEF AbortRcc, Destroy, Idle, Events
<1>2. TimersOn' /\ Now = NoEvent /\ Then = NoEvent
  BY <1>1, HandlerTimers
<1>3. Now' = "ABORT" /\ Then' = NoEvent
  BY <1>1, DeliverView
<1>4. PrimaryCounted'
  BY <1>1, <1>2, <1>3 DEF JInv, PrimaryCounted, Queued, NoEvent
<1>5. AbortCarried'
  BY <1>1, <1>2, <1>3 DEF JInv, AbortCarried, AppErr, NoEvent
<1>6. InitQuiet' /\ FirstAwaited'
  BY <1>1, <1>2, <1>3 DEF JInv, InitQuiet, FirstAwaited, AppErr, NoEvent, rx_vars
<1>7. BurstSeen'
  BY <1>1, <1>2, <1>3 DEF JInv, BurstSeen, BurstInOrder, Queued, Streaming, NoEvent, rx_vars
<1>8. Held' /\ OneApp'
  BY <1>1, <1>2 DEF JInv, Held, OneApp, NoEvent, rx_vars, cp_vars
<1> QED
  BY <1>2, <1>4, <1>5, <1>6, <1>7, <1>8 DEF JInv

LEMMA AbortActionsJInv ==
    ASSUME NEW rep \in SUBSET Paks, NEW prim \in BOOLEAN
    PROVE  IInv /\ JInv /\ AbortActions(rep, prim) => JInv'
<1> SUFFICES ASSUME IInv, JInv, AbortActions(rep, prim) PROVE JInv'
  OBVIOUS
<1>1. /\ ~Busy /\ pc = "abort_rcc" /\ pc' = "idle" /\ joined' = {"primary", "fec"}
      /\ ErEnNotify(rep, prim) /\ DeliverIf(prim /\ ~rx_primary, "PRIMARY")
      /\ UNCHANGED <<state, timer, cp_vars, app_paks, rcc_in_abort, upcalls>>
  BY DEF AbortActions
<1>2. TimersOn' /\ Now = NoEvent /\ Then = NoEvent
  BY <1>1, HandlerTimers
<1>3. /\ er_en' /\ ~fil_act' /\ holdq' = {} /\ rx_repair' = rx_repair /\ pcm \subseteq pcm'
      /\ rx_primary' = (rx_primary \/ prim)
  BY <1>1, ErEnDoes
<1>4. /\ Then' = NoEvent
      /\ prim /\ ~rx_primary => Now' = "PRIMARY"
      /\ ~(prim /\ ~rx_primary) => Now' = NoEvent
  BY <1>1, DeliverView, HandlerKeeps DEF DeliverIf, Events
<1>5. rcc_in_abort /\ state \in Final
  BY <1>1, <1>2 DEF JInv, AbortCarried, AppErr, NoEvent
<1>6. PrimaryCounted'
  BY <1>1, <1>2, <1>3, <1>4, <1>5 DEF JInv, PrimaryCounted, Queued, NoEvent
<1>7. AbortCarried'
  BY <1>1, <1>2, <1>3, <1>4, <1>5 DEF JInv, AbortCarried, AppErr, NoEvent
<1>8. InitQuiet' /\ FirstAwaited'
  BY <1>1, <1>5 DEF InitQuiet, FirstAwaited, Final
<1>9. BurstSeen'
  BY <1>1, <1>2, <1>3, <1>4, <1>5 DEF JInv, BurstSeen, BurstInOrder, Queued, Streaming, NoEvent
<1>10. Held' /\ OneApp'
  BY <1>1, <1>3, <1>5 DEF JInv, Held, OneApp, cp_vars
<1> QED
  BY <1>2, <1>6, <1>7, <1>8, <1>9, <1>10 DEF JInv

LEMMA DestroyEndJInv == IInv /\ JInv /\ DestroyEnd => JInv'
<1> SUFFICES ASSUME IInv, JInv, DestroyEnd PROVE JInv'
  OBVIOUS
<1>1. /\ ~Busy /\ pc = "destroy" /\ pc' = "destroyed" /\ holdq' = {}
      /\ UNCHANGED <<state, timer, q, rx_repair, fil_act, pcm, ch_vars, cp_vars>>
  BY DEF DestroyEnd, sm_vars
<1>2. TimersOn' /\ Now = NoEvent /\ Then = NoEvent
  BY <1>1, HandlerTimers
<1>3. Now' = NoEvent /\ Then' = NoEvent
  BY <1>1, HandlerKeeps
<1>4. state \in Final
  BY <1>1 DEF IInv, DestroyFinal
<1>5. PrimaryCounted' /\ AbortCarried'
  BY <1>1, <1>2, <1>3, <1>4 DEF JInv, PrimaryCounted, AbortCarried, AppErr, Queued, ch_vars
<1>6. InitQuiet' /\ FirstAwaited' /\ Held' /\ OneApp'
  BY <1>1, <1>4 DEF JInv, InitQuiet, FirstAwaited, Held, OneApp, Final, ch_vars, cp_vars
<1>7. BurstSeen'
  BY <1>1, <1>2, <1>3 DEF JInv, BurstSeen, BurstInOrder, Queued, ch_vars
<1> QED
  BY <1>2, <1>5, <1>6, <1>7 DEF JInv

-----------------------------------------------------------------------------
(***************************************************************************)
(* The theorems.                                                           *)
(***************************************************************************)

LEMMA NextJInv == IInv /\ JInv /\ [Next]_vars => JInv'
<1> SUFFICES ASSUME IInv, JInv, [Next]_vars PROVE JInv'
  OBVIOUS
<1>1. CASE Step
  BY <1>1, IgnoreJInv, SendNcsiJInv, SuccessJInv, StartRccJInv, FirstRepairJInv,
     PrimaryJoinJInv, NotifyErEnJInv, AbortJInv DEF Step
<1>2. CASE Resume
  BY <1>2, RcvRestJInv, SetFirstseqFilJInv, AppErrPollJInv, AppErrPrimJInv,
     AppErrEndJInv, AbortActionsJInv, DestroyEndJInv DEF Resume
<1>3. CASE Packet
  BY <1>3, RcvPrimaryJInv, RcvRepairJInv DEF Packet
<1>4. CASE Call
  BY <1>4, ProcessAppJInv, AbortOrDestroyJInv DEF Call
<1>5. CASE \E t \in Timers : Timeout(t)
  BY <1>5, TimeoutJInv
<1>6. CASE UNCHANGED vars
  <2>1. Now' = Now /\ Then' = Then /\ UNCHANGED <<state, timer, pc, apps>> /\ UNCHANGED <<rx_vars, ch_vars>>
    BY <1>6 DEF vars, sm_vars, cp_vars, Now, Then, At
  <2>2. TimersOn' /\ PrimaryCounted' /\ AbortCarried' /\ InitQuiet'
    BY <2>1 DEF JInv, TimersOn, PrimaryCounted, AbortCarried, InitQuiet, Queued, rx_vars, ch_vars
  <2>3. FirstAwaited' /\ BurstSeen' /\ Held' /\ OneApp'
    BY <2>1 DEF JInv, FirstAwaited, BurstSeen, BurstInOrder, Held, OneApp, Queued, rx_vars, ch_vars
  <2> QED
    BY <2>2, <2>3 DEF JInv
<1> QED
  BY <1>1, <1>2, <1>3, <1>4, <1>5, <1>6 DEF Next

\* The second inductive invariant holds in every reachable state.
THEOREM ChannelInvariance == Spec => [](IInv /\ JInv)
<1>1. IInv /\ JInv /\ [Next]_vars => (IInv /\ JInv)'
  BY NextIInv, NextJInv
<1> QED
  BY <1>1, InitIInv, InitJInv, PTL DEF Spec

\* Between two handlers the queue is empty, and no watched timer has fired or
\* failed to start.
LEMMA IdleView ==
    ASSUME IInv, JInv, Idle
    PROVE  pc = "idle" /\ Now = NoEvent /\ Then = NoEvent /\ \A t \in Watched(state) : timer[t] = "armed"
<1>1. pc = "idle" /\ Now = NoEvent /\ Then = NoEvent
  BY QueueView DEF Idle, Busy, IInv, TypeOK, QueueOf
<1> QED
  BY <1>1 DEF JInv, TimersOn, Queued, NoEvent, TimerEvent, Watched, Timers

\* The machine never waits without the timer that leads it out of its state, and
\* with no other: whatever entry function failed or timer fired before.
THEOREM WaitsWithItsTimer == Spec => []TimersMatchState
<1>1. IInv /\ JInv => TimersMatchState
  <2> SUFFICES ASSUME IInv, JInv, Idle
               PROVE  timer = [t \in Timers |-> IF t \in Watched(state) THEN "armed" ELSE "null"]
    BY DEF TimersMatchState
  <2>1. timer \in [Timers -> {"null", "armed", "fired"}]
    BY DEF IInv, TypeOK
  <2>2. \A t \in Timers : timer[t] = IF t \in Watched(state) THEN "armed" ELSE "null"
    BY IdleView DEF IInv, TimersWatched
  <2> QED
    BY <2>1, <2>2
<1> QED
  BY <1>1, ChannelInvariance, PTL

\* No packet of the burst overtakes the APP packets, none is held that nobody
\* comes back for, and WAIT_FIRST_SEQ has what it waits with.
THEOREM BurstIsHeld == Spec => []BurstHeld
<1>1. IInv /\ JInv => BurstHeld
  <2> SUFFICES ASSUME IInv, JInv PROVE BurstHeld
    OBVIOUS
  <2>1. WaitingForFirst
    BY IdleView DEF WaitingForFirst, JInv, FirstAwaited, Held, NoEvent
  <2>2. BurstInOrder
    BY DEF JInv, BurstSeen
  <2>3. HeldOnlyUntilFirst
    BY DEF HeldOnlyUntilFirst, JInv, OneApp
  <2> QED
    BY <2>1, <2>2, <2>3 DEF BurstHeld
<1> QED
  BY <1>1, ChannelInvariance, PTL

\* The first primary packet and an abort are told to the control plane once each.
THEOREM UpcallsAreSingle == Spec => []ToldOnce
<1>1. IInv /\ JInv => ToldOnce
  <2> SUFFICES ASSUME IInv, JInv PROVE ToldOnce
    OBVIOUS
  <2>1. NcsiOnce
    BY IdleView DEF NcsiOnce, JInv, PrimaryCounted, Queued, NoEvent
  <2>2. AbortToldOnce
    BY DEF AbortToldOnce, JInv, AbortCarried, IInv, TypeOK
  <2> QED
    BY <2>1, <2>2 DEF ToldOnce
<1> QED
  BY <1>1, ChannelInvariance, PTL

\* A channel that has been passed one APP is left joined, repairing, unfiltered
\* and without held packets or APP packets by every end of the machine.
THEOREM EndIsClean == Spec => []EndsClean
<1>1. IInv /\ JInv => EndsClean
  <2> SUFFICES ASSUME IInv, JInv PROVE EndsClean
    OBVIOUS
  <2>1. FinishedCleanOneApp
    <3> SUFFICES ASSUME apps <= 1, Idle, state \in Final
                 PROVE  joined = {"primary", "fec"} /\ er_en /\ ~fil_act /\ holdq = {}
      BY DEF FinishedCleanOneApp, FinishedClean
    <3>1. CASE rcc_in_abort
      BY <3>1, IdleView DEF JInv, AbortCarried, AppErr
    <3>2. CASE ~rcc_in_abort
      <4>1. state = "FIN_SUCCESS"
        BY <3>2 DEF JInv, AbortCarried, Final
      <4>2. joined = {"primary", "fec"} /\ er_en
        BY <4>1 DEF JInv, BurstSeen, Streaming, IInv, TypeOK
      <4>3. ~fil_act /\ holdq = {}
        BY <4>1, IdleView DEF JInv, OneApp
      <4> QED
        BY <4>2, <4>3
    <3> QED
      BY <3>1, <3>2
  <2>2. NoAppPakLeaks
    BY DEF NoAppPakLeaks, JInv, OneApp, IInv, DestroyFinal, Final
  <2> QED
    BY <2>1, <2>2 DEF EndsClean
<1> QED
  BY <1>1, ChannelInvariance, PTL
=============================================================================
