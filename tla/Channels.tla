------------------------------ MODULE Channels ------------------------------
(***************************************************************************)
(* Tuners, the channels they are bound to, the channels' identifiers and   *)
(* the dataplane graphs (vqec_tuner.c, vqec_channel.c, id_manager.c,       *)
(* vqec_dp_graph.c, vqec_dp_output_shim.c).                                *)
(*                                                                         *)
(* A channel exists while tuners are bound to it and, after the last one   *)
(* left, in shutdown, until its BYEs are sent.  Calls of the client        *)
(* interface hold a lock and are atomic; between them the timers of the    *)
(* channels in shutdown expire, rapid channel changes are aborted, and     *)
(* messages that the dataplane sent with the identifier of a channel that  *)
(* may be gone are received.                                               *)
(*                                                                         *)
(* The state of the program is the record "sys", so that a function of the *)
(* code is an operator from such a record to the one after it.             *)
(***************************************************************************)
EXTENDS Integers, Sequences, FiniteSets

CONSTANTS
    Tuners,        \* the indices of the tuner table
    Chans,         \* channels that can be asked for: address and port
    ErChans,       \* those with error repair in their configuration
    RccChans,      \* those with rapid channel change enabled
    MaxChannels,   \* max_channels: the size of the identifier table
    MaxRccs,       \* rcc_max_concurrent, 0 for no limit
    NumByes,       \* num_byes
    SeqMod,        \* 2^8: the range of an identifier's sequence number
    RccMod,        \* 2^32: the range of num_current_rccs
    RccFailures,   \* BOOLEAN: may a bind fail before its rapid change is counted?
    None           \* no channel, no tuner, no identifier, no message

Slots == 1 .. MaxChannels
Ids == Slots \X (0 .. SeqMod - 1)

\* vqec_tuner_t: the identifier of the channel it is bound to.
Tuner == [chanid : Ids \cup {None}]

\* vqec_chan_t.  "sent" is a history: the BYEs sent since the last unbind.
Channel == [id : Ids, tuners : SUBSET Tuners, rcc : BOOLEAN, aborted : BOOLEAN,
            repair : BOOLEAN, byes : -1 .. NumByes, shutdown : BOOLEAN,
            sent : 0 .. NumByes]

\* A message of the dataplane, with the identifier of a channel.  The rest is
\* history: the channel, and whether and how long the identifier is gone.
Message == [id : Ids, chan : Chans, stale : BOOLEAN, age : 0 .. SeqMod - 1]

ASSUME ChannelsAssumption ==
    /\ IsFiniteSet(Tuners) /\ IsFiniteSet(Chans)
    /\ ErChans \subseteq Chans /\ RccChans \subseteq Chans
    /\ MaxChannels \in Nat /\ MaxChannels > Cardinality(Tuners)
    /\ MaxChannels < RccMod
    /\ MaxRccs \in Nat /\ MaxRccs < RccMod
    /\ NumByes \in Nat /\ NumByes >= 2
    /\ RccFailures \in BOOLEAN
    /\ SeqMod \in Nat /\ SeqMod >= 2 /\ RccMod \in Nat
    /\ None \notin Chans \cup Ids
    /\ None \notin Tuner /\ None \notin Channel /\ None \notin Message

VARIABLES
    sys,           \* the control plane and the graphs
    upcall         \* a message of the dataplane under way, or None

vars == <<sys, upcall>>

TypeOK ==
    /\ sys.tuner \in [Tuners -> Tuner \cup {None}]
    /\ sys.chan \in [Chans -> Channel \cup {None}]
    /\ sys.seq \in [Slots -> 0 .. SeqMod - 1]
    /\ sys.ptr \in [Slots -> Chans \cup {None}]
    /\ sys.free \in Seq(Slots) /\ Len(sys.free) <= MaxChannels
    /\ sys.graphs \subseteq Chans
    /\ sys.map \in [Tuners -> Chans \cup {None}]
    /\ sys.poll \in BOOLEAN
    /\ sys.rccs \in 0 .. RccMod - 1
    /\ upcall \in Message \cup {None}

\* The sequence numbers start at random; only their differences matter.
Init ==
    /\ sys = [tuner |-> [t \in Tuners |-> None], chan |-> [c \in Chans |-> None],
              seq |-> [i \in Slots |-> 0], ptr |-> [i \in Slots |-> None],
              free |-> [i \in Slots |-> i], graphs |-> {},
              map |-> [t \in Tuners |-> None], poll |-> FALSE, rccs |-> 0]
    /\ upcall = None

-----------------------------------------------------------------------------
(***************************************************************************)
(* Identifiers: a slot of the table and a sequence number that changes     *)
(* when the identifier is deleted.  Freed slots are used again in turn.    *)
(***************************************************************************)
\* Mutant: the sequence number of the identifier is not looked at.
ChanOfSlot(s, id) ==
    IF id # None THEN s.ptr[id[1]] ELSE None

\* id_to_ptr, vqec_chanid_to_chan
ChanOf(s, id) ==
    IF id # None /\ s.seq[id[1]] = id[2] THEN s.ptr[id[1]] ELSE None

\* id_get of a channel, when the table has room.
IdGet(s, c) ==
    LET i == Head(s.free)
    IN  [s EXCEPT !.free = Tail(@), !.ptr[i] = c,
                  !.chan[c].id = <<i, s.seq[i]>>]

\* Mutant: the slot of a deleted identifier is not used again.
IdDeleteLosesSlot(s, id) ==
    IF ChanOf(s, id) = None THEN s
    ELSE [s EXCEPT !.ptr[id[1]] = None, !.seq[id[1]] = (@ + 1) % SeqMod]

\* id_delete
IdDelete(s, id) ==
    IF ChanOf(s, id) = None THEN s
    ELSE [s EXCEPT !.ptr[id[1]] = None, !.seq[id[1]] = (@ + 1) % SeqMod,
                   !.free = Append(@, id[1])]

-----------------------------------------------------------------------------
(***************************************************************************)
(* The end of a channel.                                                   *)
(***************************************************************************)
\* vqec_dp_graph_destroy: the output shim's stream goes, its tuners are
\* unmapped.
GraphDestroy(s, c) ==
    [s EXCEPT !.graphs = @ \ {c},
              !.map = [t \in Tuners |-> IF @[t] = c THEN None ELSE @[t]]]

\* Mutant: the BYE of the repair session is not counted.
DeinitMultibyeNotCounted(s, c) ==
    [GraphDestroy(s, c) EXCEPT
        !.chan[c].sent = IF s.chan[c].repair THEN 1 ELSE 0,
        !.chan[c].repair = FALSE, !.chan[c].aborted = TRUE]

\* vqec_chan_deinit_multibye: the repair session is deleted, which sends a
\* BYE, and the graph destroyed.
DeinitMultibye(s, c) ==
    [GraphDestroy(s, c) EXCEPT
        !.chan[c].byes = IF s.chan[c].repair THEN @ - 1 ELSE @,
        !.chan[c].sent = IF s.chan[c].repair THEN 1 ELSE 0,
        !.chan[c].repair = FALSE, !.chan[c].aborted = TRUE]

\* vqec_chan_deinit_final
DeinitFinal(s, c) == [s EXCEPT !.chan[c] = None]

\* Mutant: a channel that goes is still counted.
DestroyKeepsCount(s, c, final, timer) ==
    LET ch == s.chan[c]
        d == IdDelete(DeinitMultibye(s, c), ch.id)
    IN  IF ch.shutdown THEN DeinitFinal(s, c)
        ELSE IF /\ ~final /\ timer
                /\ c \in ErChans \/ ch.rcc
                /\ d.chan[c].byes >= 1
             THEN [d EXCEPT !.chan[c].shutdown = TRUE]
             ELSE DeinitFinal(d, c)

\* vqec_chan_destroy.  "timer": the timer for the BYEs could be started.
Destroy(s, c, final, timer) ==
    LET ch == s.chan[c]
        r == IF ch.rcc /\ ~ch.aborted
             THEN [s EXCEPT !.rccs = (@ - 1) % RccMod] ELSE s
        d == IdDelete(DeinitMultibye(r, c), ch.id)
    IN  IF ch.shutdown THEN DeinitFinal(s, c)
        ELSE IF /\ ~final /\ timer
                /\ c \in ErChans \/ ch.rcc
                /\ d.chan[c].byes >= 1
             THEN [d EXCEPT !.chan[c].shutdown = TRUE]
             ELSE DeinitFinal(d, c)

\* vqec_chan_unbind
ChanUnbind(s, id, t, timer) ==
    LET c == ChanOf(s, id)
        u == [s EXCEPT !.chan[c].tuners = @ \ {t}, !.map[t] = None]
    IN  IF c = None \/ t \notin s.chan[c].tuners THEN s
        ELSE IF u.chan[c].tuners = {} THEN Destroy(u, c, FALSE, timer) ELSE u

\* vqec_tuner_unbind_chan_internal
UnbindInternal(s, t, timer) ==
    IF s.tuner[t].chanid = None THEN s
    ELSE [ChanUnbind(s, s.tuner[t].chanid, t, timer) EXCEPT
             !.tuner[t] = [chanid |-> None]]

-----------------------------------------------------------------------------
(***************************************************************************)
(* Binding a tuner to a channel.                                           *)
(***************************************************************************)
NewChan(id) ==
    [id |-> id, tuners |-> {}, rcc |-> FALSE, aborted |-> FALSE,
     repair |-> FALSE, byes |-> 0, shutdown |-> FALSE, sent |-> 0]

\* vqec_chan_get_chanid: a channel in shutdown is destroyed, its BYEs are not
\* awaited.  The poll timer is started with the first channel.
Found(s, c) == s.chan[c] # None /\ ~s.chan[c].shutdown

GetChanid(s, c) ==
    LET d == IF s.chan[c] = None THEN s ELSE Destroy(s, c, TRUE, FALSE)
    IN  IF Found(s, c) THEN s
        ELSE [IdGet([d EXCEPT !.chan[c] = NewChan(None)], c) EXCEPT
                 !.poll = @ \/ \A x \in Chans : d.chan[x] = None]

\* vqec_chan_put_chanid
PutChanid(s, id) ==
    LET c == ChanOf(s, id)
    IN  IF c # None /\ s.chan[c].tuners = {} THEN Destroy(s, c, TRUE, FALSE)
        ELSE s

\* Is a rapid channel change enabled, asked for, and one of not too many?
RccEnabled(s, c, want) ==
    want /\ c \in RccChans /\ (MaxRccs = 0 \/ s.rccs < MaxRccs)

\* vqec_chan_bind, up to the insertion into the tuner list.  It may fail
\*   "entry":   before the channel is looked at, or, in vqec_tuner_bind_chan,
\*              because there is no output socket,
\*   "setup":   afterwards, or when the tuner is added to an existing graph,
\*   "started": when the rapid channel change has been started and counted.
\* A channel without other tuners is destroyed when it fails.
ChanBind(s, c, t, want, fail) ==
    LET first == s.chan[c].tuners = {}
        rcc == RccEnabled(s, c, want)
        ready == [s EXCEPT !.chan[c].rcc = rcc]
        started ==
            [ready EXCEPT !.graphs = @ \cup {c}, !.map[t] = c,
                          !.chan[c].repair = c \in ErChans \/ rcc,
                          !.rccs = IF rcc THEN (@ + 1) % RccMod ELSE @]
    IN  CASE fail = "entry" \/ (fail # "none" /\ ~first) -> s
          [] fail = "setup" /\ first -> Destroy(ready, c, TRUE, FALSE)
          [] fail = "started" /\ first -> Destroy(started, c, TRUE, FALSE)
          [] fail = "none" /\ first ->
                [started EXCEPT !.chan[c].byes = NumByes,
                                !.chan[c].tuners = {t}]
          [] fail = "none" /\ ~first ->
                [s EXCEPT !.map[t] = c, !.chan[c].tuners = @ \cup {t}]

\* Mutant: the tuner is not unbound from its channel.
TunerBindNoUnbind(s, c, t, want, fail, timer) ==
    LET id == s.chan[c].id
        b == ChanBind(s, c, t, want, fail)
    IN  IF fail = "none" THEN [b EXCEPT !.tuner[t].chanid = id]
        ELSE PutChanid(b, id)

\* vqec_tuner_bind_chan after vqec_chan_get_chanid, and
\* vqec_chan_put_chanid when it failed.  Only a bind that succeeds records the
\* channel in the tuner.
TunerBind(s, c, t, want, fail, timer) ==
    LET id == s.chan[c].id
        b == ChanBind(UnbindInternal(s, t, timer), c, t, want, fail)
    IN  IF fail = "none" THEN [b EXCEPT !.tuner[t].chanid = id]
        ELSE PutChanid(b, id)

-----------------------------------------------------------------------------
\* After a step: the message under way has become stale when its channel has
\* lost its identifier; "age" counts the identifiers deleted since then, that
\* one included.  It is received before SeqMod of them are.
Deleted == Cardinality({i \in Slots : sys'.seq[i] # sys.seq[i]})
Aged ==
    LET stale == \/ upcall.stale
                 \/ sys'.chan[upcall.chan] = None
                 \/ sys'.chan[upcall.chan].shutdown
        age == IF stale THEN upcall.age + Deleted ELSE 0
    IN  IF upcall = None \/ age >= SeqMod THEN None
        ELSE [upcall EXCEPT !.stale = stale, !.age = age]
Becomes(s) == sys' = s /\ upcall' = Aged

\* Is the tuner the only one of its channel, which it would end by leaving?
IsLast(t) ==
    LET c == ChanOf(sys, sys.tuner[t].chanid)
    IN  c # None /\ sys.chan[c].tuners = {t}

\* vqec_tuner_create, vqec_dp_output_shim_create_dptuner
CreateTuner(t) ==
    /\ sys.tuner[t] = None
    /\ Becomes([sys EXCEPT !.tuner[t] = [chanid |-> None]])

\* vqec_tuner_destroy.  The dataplane keeps a tuner that is mapped.
DestroyTuner(t, timer) ==
    /\ sys.tuner[t] # None
    /\ ~timer => IsLast(t)
    /\ Becomes([UnbindInternal(sys, t, timer) EXCEPT !.tuner[t] = None])

\* vqec_ifclient_tuner_bind_chan_cfg_internal: a bind to the channel that the
\* tuner is bound to already is refused.  The parameters vary only where they
\* make a difference: whether the client wants a rapid change when the channel
\* is new and can have one, the BYE timer when the tuner is its channel's last.
Bind(t, c, want, fail, timer) ==
    /\ sys.tuner[t] # None
    /\ ~Found(sys, c) => sys.free # <<>>
    /\ ~timer => IsLast(t)
    /\ want => c \in RccChans /\ fail # "entry"
    /\ LET g == GetChanid(sys, c)
           u == UnbindInternal(g, t, timer)
           first == u.chan[c].tuners = {}
           rcc == first /\ RccEnabled(u, c, want)
       IN  /\ sys.tuner[t].chanid # g.chan[c].id
           /\ want => first
           /\ fail = "setup" => first /\ (rcc => RccFailures)
           /\ fail = "started" => rcc
           /\ Becomes(TunerBind(g, c, t, want, fail, timer))

\* The same for a tuner that does not exist: only a channel in shutdown is
\* gone afterwards.
BindNoTuner(c) ==
    LET g == GetChanid(sys, c)
    IN  /\ ~Found(sys, c) => sys.free # <<>>
        /\ Becomes(PutChanid(g, g.chan[c].id))

\* vqec_tuner_unbind_chan
Unbind(t, timer) ==
    /\ sys.tuner[t] # None /\ sys.tuner[t].chanid # None
    /\ ~timer => IsLast(t)
    /\ Becomes(UnbindInternal(sys, t, timer))

\* Mutant: every expiry sends one more BYE.
ByeEventForever(c) ==
    /\ sys.chan[c] # None /\ sys.chan[c].shutdown
    /\ Becomes(sys)

\* Mutant: the poll timer stops with any channel that goes.
ByeEventStopsPoll(c) ==
    /\ sys.chan[c] # None /\ sys.chan[c].shutdown
    /\ Becomes(IF sys.chan[c].byes > 1
               THEN [sys EXCEPT !.chan[c].byes = @ - 1, !.chan[c].sent = @ + 1]
               ELSE [DeinitFinal(sys, c) EXCEPT !.poll = FALSE])

\* vqec_chan_bye_event_handler: the last BYE is the one sent when the primary
\* session is deleted; the poll timer stops with the last channel.
ByeEvent(c) ==
    /\ sys.chan[c] # None /\ sys.chan[c].shutdown
    /\ Becomes(IF sys.chan[c].byes # 1
               THEN [sys EXCEPT !.chan[c].byes = @ - 1, !.chan[c].sent = @ + 1]
               ELSE [DeinitFinal(sys, c) EXCEPT
                       !.poll = @ /\ \E x \in Chans \ {c} : sys.chan[x] # None])

\* vqec_chan_rcc_abort_notify of a rapid channel change that is under way.
RccAbort(c) ==
    /\ sys.chan[c] # None /\ sys.chan[c].rcc /\ ~sys.chan[c].aborted
    /\ Becomes([sys EXCEPT !.chan[c].aborted = TRUE,
                           !.rccs = (@ - 1) % RccMod])

\* The dataplane sends a message about a channel: cp_handle is its identifier
\* at the time the graph was created.
DpSend(c) ==
    /\ c \in sys.graphs /\ upcall = None
    /\ upcall' = [id |-> sys.chan[c].id, chan |-> c, stale |-> FALSE, age |-> 0]
    /\ UNCHANGED sys

\* The control plane looks the identifier up.
Receive ==
    /\ upcall # None /\ upcall' = None
    /\ UNCHANGED sys

BindFails == {"none", "entry", "setup", "started"}

Next ==
    \/ \E t \in Tuners : CreateTuner(t)
    \/ \E t \in Tuners, timer \in BOOLEAN : DestroyTuner(t, timer)
    \/ \E t \in Tuners, c \in Chans, want \in BOOLEAN, fail \in BindFails,
          timer \in BOOLEAN : Bind(t, c, want, fail, timer)
    \/ \E c \in Chans : BindNoTuner(c)
    \/ \E t \in Tuners, timer \in BOOLEAN : Unbind(t, timer)
    \/ \E c \in Chans : ByeEvent(c)
    \/ \E c \in Chans : RccAbort(c)
    \/ \E c \in Chans : DpSend(c)
    \/ Receive

\* The timer of a channel in shutdown recurs.
Spec == Init /\ [][Next]_vars /\ \A c \in Chans : WF_vars(ByeEvent(c))

-----------------------------------------------------------------------------
Exists(c) == sys.chan[c] # None
ChanOfTuner(t) ==
    IF sys.tuner[t] = None THEN None ELSE ChanOf(sys, sys.tuner[t].chanid)

\* The tuner's and the channel's record of a binding agree, after channel
\* changes, failed binds and reused identifiers: the identifier that a tuner
\* keeps leads to the channel whose list has the tuner, and no other list has.
BindingsAgree ==
    /\ \A t \in Tuners : sys.tuner[t] # None /\ sys.tuner[t].chanid # None =>
          ChanOfTuner(t) # None
    /\ \A t \in Tuners, c \in Chans :
          (Exists(c) /\ t \in sys.chan[c].tuners) <=> ChanOfTuner(t) = c

\* The dataplane follows: every bound channel has its graph and no other
\* channel has one, and packets go to exactly the tuners that are bound.  A
\* tuner can therefore always be destroyed in the dataplane, which refuses to
\* destroy a mapped one (vqec_dp_output_shim_destroy_dptuner).
DpFollows ==
    /\ sys.graphs = {c \in Chans : Exists(c) /\ sys.chan[c].tuners # {}}
    /\ \A t \in Tuners : sys.map[t] = ChanOfTuner(t)

\* No call leaves a channel behind that neither has a tuner nor waits for its
\* BYEs, in particular none that fails on the way.
NoIdleChannel ==
    \A c \in Chans : Exists(c) => (sys.chan[c].shutdown <=> sys.chan[c].tuners = {})

\* After every call, a failed one included, tuners, channels, identifiers and
\* dataplane tell the same story.
TablesAgree == TypeOK /\ BindingsAgree /\ DpFollows /\ NoIdleChannel

\* max_channels leaves room for the channel that is allocated while every
\* tuner is bound to another one (vqec_chan_module_init).
IdsSuffice == sys.free # <<>>

\* A message sent with the identifier of a channel that is gone leads to no
\* channel, although the slot may be in use again, as long as fewer
\* identifiers were deleted than there are sequence numbers.
StaleIdDead ==
    upcall # None /\ upcall.stale =>
        ChanOf(sys, upcall.id) = None

\* A channel in shutdown still has to send what is missing to num_byes BYEs,
\* those of the repair session included.
ByesComplete ==
    \A c \in Chans : Exists(c) /\ sys.chan[c].shutdown =>
        sys.chan[c].sent + sys.chan[c].byes = NumByes

\* The poll timer, which reports gaps, runs as long as there is a channel.
PollRuns == (\E c \in Chans : Exists(c)) => sys.poll

CurrentRccs == {c \in Chans : Exists(c) /\ sys.chan[c].rcc /\ ~sys.chan[c].aborted}

\* num_current_rccs is the number of channels with a rapid channel change that
\* was not aborted, whichever way they end.
RccsCounted == sys.rccs = Cardinality(CurrentRccs)

\* rcc_max_concurrent: "max concurrent RCCs for the pakpool to be allocated
\* for" (vqec_syscfg.h).
RccLimit == MaxRccs # 0 => Cardinality(CurrentRccs) <= MaxRccs

\* A channel in shutdown is freed or used again.
ShutdownEnds ==
    \A c \in Chans : (Exists(c) /\ sys.chan[c].shutdown)
                        ~> ~(Exists(c) /\ sys.chan[c].shutdown)
=============================================================================
