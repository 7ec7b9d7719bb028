# VQE-C in TLA+

VQE-C is the client half of a video quality system: it receives a multicast
television channel, repairs lost packets (error repair, ER, by retransmission;
FEC), and makes channel changes fast (rapid channel change, RCC: the server
sends a unicast burst from the last random access point, which the client plays
until the multicast has caught up).  The code has a **control plane**
(`src/eva/*.c`, one libevent loop) and a **dataplane** (`src/eva/vqec-dp/`,
either in the same process or in the kernel) that exchange synchronous calls
and asynchronous "upcall interrupts".

This directory models the core of the client.  For the RCC: both state machines,
the channel routines around them, the repair stream's filter, the upcall
interrupts, and what all of it promises as an abstract specification.  For the
stream: the packet cache, the reports of its gaps, and the scheduler that plays
it out.  For the client as a whole: tuners, channels, their identifiers and
graphs.

## Inventory

| part | state | operations | what is hard |
|---|---|---|---|
| dataplane RCC machine, `vqec_dp_sm.c` | state, event ring of 4, 5 timers | `deliver_event`, timeouts | events delivered from within actions; timers that fail or fire late |
| dataplane channel, `vqec_dpchan.c` | APP packets, abort mark, joins, ER flag, IRQ descriptors | process APP, abort, destroy, notifications | abort from three sides; packets polled inside a state change |
| repair input stream, `vqec_dp_rtp_input_stream.c` | first-sequence filter, hold queue | receive one, filter and process the hold queue | burst before the APP, reordering, duplicate APP |
| control-plane RCC machine, `vqec_sm.c` | state, event ring, APP timer | `deliver_event`, timeout | NAK-PLI and timer failures, NAT delay |
| channel manager, `vqec_channel.c` | table of channels; per channel features, timers, NAT flags, ER poll, RCC count | bind, unbind, destroy with delayed BYEs, APP, NAT update, upcalls | races of abort, upcall, destroy; failure half-way through a bind |
| upcall interrupts, `vqec_upcall_event.c`, `vqec_dpchan.c` | pending flag and cause register by device, generation numbers | send, acknowledge, poll, generation sync | lost messages, wrap-around, stale messages |
| packet cache, `vqec_pcm.c`, `vqec_pak_seq.c` | packets by sequence number, gaps | insert, get gaps, read | wrap-around, late and duplicate packets |
| gap reporter, `vqec_gap_reporter.c`, `vqe_token_bucket.c` | tokens, gap map | report, refill | bucket limits, stale channel id |
| output scheduler and NLL, `vqec_oscheduler.c`, `vqec_nll.c` | clock lock, last packet time | run, adjust | discontinuities |
| FEC, `vqec_fec.c` | window of blocks | insert, decode, slide | reordering at the edge of the window |
| RTP receiver and sessions | source table, RTCP timers | receive, failover, reports | failover, SSRC collision |
| NAT, `vqec_nat_*.c`, `src/stunclient` | bindings, transactions | open, refresh, retry | retry against late answer |
| tuners, `vqec_tuner.c` | tuner to channel map | bind, unbind | stale ids |
| graph, shims, sinks, `vqec-dp/*shim` | streams, bounded queues | connect, read, drop | queue at its limit |
| ids, `id_manager.c` | table with generation counts | get, delete | stale ids |
| updater, `vqec_updater.c` | pending update, timers | schedule, retry | retry against a running update |
| SDP, RTSP, configuration, CLI, vendored libraries | - | parsing, display | not modelled |

What makes the RCC parts correct: no assertion fails; no timer refers to freed
memory; a channel change always ends, and after an abort of either half both
halves carry on as a slow channel change with error repair on; burst packets
reach the cache in order behind the APP packets; the server and the client are
told once of what happens; no upcall is lost.  What makes the stream correct: the
views the cache has of its packets agree, packets are output in order and once, a
missing packet is asked for once and while it is of use, predictions go forward
and stay near the arrivals.  What makes the tables correct: tuner, channel,
identifier and graph agree after every call, also one that fails half-way; a
stale identifier leads nowhere; counters count; a channel in shutdown goes.

## Modules

| module | models |
|---|---|
| `EventQ` | the ring of event slots that both state machines use |
| `DpRcc` | dataplane half: machine, notifications, repair stream filter |
| `CpRcc` | control-plane half: machine, bind, destroy, APP, NAT, timers, upcalls |
| `Rcc` | `DpRcc` and `CpRcc` composed (extends both): calls and upcalls |
| `RccAbs` | what a channel change promises; `Rcc` implements it |
| `UpcallIrq` | interrupt messages, generation numbers, acknowledge and poll |
| `SeqNum` | numbers of packets, made from RTP numbers, modulo a power of two |
| `Pcm` | packet cache: ring, bitmap, insertion, output, gaps (extends `SeqNum`) |
| `GapReporter` | gap reports, token bucket, generic NACK (extends `Pcm`) |
| `Nll` | clock recovery, as operators |
| `Osched` | output scheduler and fast fill (extends `Nll`) |
| `Channels` | tuners, table of channels, identifiers, graphs, BYEs, RCC limit |
| `EventQProofs` | lemmas on the ring |
| `DpRccProofs` | theorems on `DpRcc`: queue and timers; burst, upcalls, end |
| `CpRccProofs` | theorems on `CpRcc` |
| `RccProofs` | theorems on `Rcc`, its refinement of `RccAbs` included |
| `UpcallIrqProofs`, `OschedProofs`, `ChannelsProofs`, `GapReporterProofs` | theorems on these modules |
| `MC...` | TLC instances |

**How a handler is modelled.**  Both planes run a handler to completion.
`deliver_event()` leases a slot of the ring; the outermost call then works the
ring off.  In the model a handler is the action that starts it (`RcvRepair`,
`Timeout`, `ProcessApp`, `RcvApp`, `Unbind`, ...), one `Step...` action for each
round of the loop of `deliver_event()` (guard, action, exit, transition, entry,
release), and actions for the code that follows the call; the variable `pc`
(`cpc`) says which of these is due.  A handler starts only when the ring is
empty and `pc` is `"idle"`, so that the intermediate states are those of one
call stack and no other handler can see them; they are there because the
routines of a round depend on each other and because the control plane waits
in a dataplane call in the middle of one.

**DpRcc.**  `Transition` is the table; `StateTimer` the timer of a state;
`Enter` may fail to start it, and then `INTERNAL_ERR` is queued.  A repair
packet is `"first"` (it carries the sequence number of the APP) or `"other"`.
`pcm` is the set of kinds handed to the cache, `holdq` the kinds held.
`hdr_fits` is whether RTP headers can be put on APP packets; it is fixed by the
configuration and the pool.  `ErEnNotify` polls both sockets in the middle of a
state change, as the code does.  Activity of the repair stream is not measured:
the periodic activity timer may find it silent or not.

**CpRcc.**  `cfg` is the set of features the channel is bound with.  `ipc` names
the dataplane call in progress; what it returns, and which upcalls come, is
left open.  An APP is taken by any channel with a repair session, also one that
does not change rapidly: its machine is in `FIN_SUCCESS` and absorbs the event.
`rccs` is this channel's contribution to `num_current_rccs`.
`orphans` counts running timers to which no pointer is left.

**Rcc.**  It extends both halves, so that what is proved of each can be used of the
whole; its own names begin with `R` where a half has the same, as those of `CpRcc`
begin with `C`.  The call in `ipc` starts the dataplane's handler when the dataplane is
idle, and the control plane goes on when that handler has ended.  Upcalls are
read some time after they are posted, all at once.  The upcalls for the end of
the fast fill and of the burst come from the output scheduler, which is not
modelled: they may come at any time after the start.  The channel has RCC
(`RInit`): the dataplane of one without is created as one that has aborted, and an
APP does nothing to it.

**RccAbs.**  Three variables: what the control plane believes, what the dataplane
does, which streams are on.  The mapping in `Rcc` (`AbsCp`, `AbsDp`) forgets
queues, timers, calls in progress and packets: a control plane in `FIN_SUCCESS`
has *started*, one in `ABORT` *gave up*; a dataplane is *aborted* from the moment
`rcc_in_abort` is set, wherever its machine is.  Every step of a handler is a
stutter or one abstract step.  That the streams come on is stated as the leads-to
`Progress` and checked under the fairness of `Rcc`, instead of fairness conditions
on the abstract steps, whose ENABLED under the mapping says nothing about the
code's scheduling.

**UpcallIrq.**  A device sends only if nothing is pending; a number is used up
also if the send fails.  Numbers have `Width` bits.  A step of the control
plane is the reading of a message or a call to the dataplane.

**Pcm.**  The state of the cache and of the part of the scheduler that takes
packets out is one record, so that a function of the code is an operator from
record to record and a handler (`RxPrimary`, `RxRepair`, `OschedRun`, ...) applies
them in the order of the code.  A packet is its number, stream, receive time and
whether it came out of order.  A packet that came in order waits for
`ReorderDelay`; when a packet is due beyond that is left open (`MaxPasses`).
`pcm.abort` is how far an abort of the rapid change has got: the cache is flushed,
the sockets are polled, error repair is enabled, and the channel is marked before or
after that, according to who aborts.  A channel without a rapid change is created as
an aborted one, so that it drops repairs until its first primary packet has been
handed on.  Two checks before the cache are left out, that of the RTP session
(`rtp_update_seq()`, which drops packets far from the one before) and the state
machine's whether primary packets are accepted yet: any packet may be lost, and so
the model has more behaviours than the code.

**GapReporter.**  `Report` is one poll: pages of gaps from the cache, tokens, one
NACK.  `asked`, `again` and `drained` are histories.

**Nll, Osched.**  Constants are scaled: where the code keeps 19/20 of the old average
and counts microseconds, the instance keeps a half and counts units.  `Osched` gets its packets from the environment (`Paks`): those the
cache can hand out, which excludes APP packets after the burst and packets in
order that are older than the one before.  `prevTime` is the static variable of
`vqec_dp_oscheduler_run()`; `RunOther` is another channel's scheduler.

**Channels.**  Calls of the client hold a lock, so each is one step, a bind with
the point at which it fails (`fail`) and whether the BYE timer of the channel that
is left starts (`timer`).  The channel change of each channel is abstracted from
`CpRcc` to: counted, aborted, gone.  An upcall under way carries the identifier
that its channel had, and counts the identifiers deleted since, that of its own
channel included.  Poll timer start failures and the end of the module are
not modelled.

## Runs

| run | instance | shows |
|---|---|---|
| `dp_rcc` | 2 APPs, 2572 states | the properties at the end of `DpRcc`, liveness included |
| `cp_rcc` | 24 configurations, 2 APPs, 66536 states | the properties at the end of `CpRcc` |
| `dup_app_timer` | the 16 configurations with RCC, 2 APPs, violated | a second APP orphans the transition timer |
| `rcc` | 2 APPs, 2 configurations, 192626 states | the two halves agree, implement `RccAbs`, and all streams come on |
| `upcall_irq` | 2 devices, socket of 3, 5 bits, 2 losses, 28992 states | causes are never forgotten; every event is delivered |
| `pcm` | ring of 8, RTP numbers modulo 16, 3 receptions, 1.75 M states | ring, bitmap, head, tail and list agree; output in order |
| `pcm_spread` | ring of 8, 4 receptions, the last a late repair, violated | a repair below the head spreads the cache over more than the ring |
| `gap_reporter` | the cache of `pcm`, bucket of 1, NACKs of 2 fields, 395153 states | reports are complete, useful, not repeated, policed and encoded right |
| `osched` | 3 timestamps modulo 4, 3 time units, 186414 states | predictions go forward and track the arrivals |
| `clock_back_shared` | the same and another channel, violated | only one scheduler notices that the clock went back |
| `channels` | 2 tuners, 2 channels, 3 identifiers of 3 sequence numbers, 238788 states | the tables agree, stale identifiers lead nowhere, channels in shutdown go |
| `rcc_limit` | 3 tuners, 3 channels, limit 2, violated | a failed bind takes another channel's place in the count |

Related invariants are checked as one named conjunction: `QueueSafe`
(`TypeOK`, `QueueInOrder`, `NoAssertFails`), `BurstHeld` (`WaitingForFirst`,
`BurstInOrder`, `HeldOnlyUntilFirst`), `ToldOnce` (`NcsiOnce`, `AbortToldOnce`),
`EndsClean` (`FinishedCleanOneApp`, `NoAppPakLeaks`), `ChangeEnds` (`RccEnds`,
`AbortEnds`), `CQueueSafe` and `CWaitsEnd` in the same way for the control plane,
`HalvesAgree` (`CpAbortAbortsDp`, `SuccessMeansStarted`, `DpAbortIsKnownOneApp`,
`FreedWithDp`), `SocketSound` (`QueueBoundedNoDrops`), `ViewsAgree`
(`HeadTailExact`, `GapmapExact`, `InorderExact`), `Tracks` (`TracksArrivals`,
`TracksWithoutFill`), `TablesAgree` (`BindingsAgree`, `DpFollows`,
`NoIdleChannel`); the type invariants are conjuncts of these (of
`AskedOnce` in `GapReporter`; that of `Osched` stands alone).

Properties with `OneApp` or `NoDrops` in their name, `HeldOnlyUntilFirst`,
`NoAppPakLeaks` and `AbortLeadsToEr` hold until a second APP (a loss) and are
stated so; what happens then is under the findings or, for `NoAppPakLeaks` (the
APP packets of a second APP accepted late are not freed by a later destroy), left
as it is.  `OutputIncreasing`, `AskedOnce`, `AskedIsUseful` and `ReportComplete`
speak of channels that do not change rapidly: before the primary stream of a
burst an empty cache accepts any number, and the end of the burst starts the
requests anew.  `AskedOnce`, `AskedIsUseful` and `ReportComplete` also speak of a clock
that is not set back.  `TracksWithoutFill` ends with a fast fill (observation 5).

**The findings** have a violated run each.

1. `dup_app_timer`: the server repeats its APP, and nothing between the repair
   session and the dataplane filters a repeated one out, so `MaxApps = 2` is the
   normal case.  A second APP overwrites the pointer to the running transition
   timer, which later fires with a pointer to a freed channel.
2. `pcm_spread`: `vqec_pcm_insert_packet_check_range()` keeps head and tail within
   the ring only for packets above the head.  A packet up to `MaxGap` below it is
   accepted whatever the tail, a bit then stands for two numbers, and the
   assertion in `vqec_pcm_remove_packet()` fails.  In the run a few packets are lost
   behind the last one handed on, the stream runs on to the end of the ring, and the
   repair of the first of those lost arrives.
3. `clock_back_shared`: `prev_time` is shared by all channels.  The first
   scheduler that runs after the clock went back resets itself; the others hold
   their packet until the old time comes again.
4. `rcc_limit`: a bind that fails after `rcc_enabled` is set and before
   `num_current_rccs` is incremented decrements it all the same; then more
   channels change rapidly than `rcc_max_concurrent`, or, from 0, the unsigned
   counter wraps and none does.

**Observations** made while modelling, without a run of their own:

1. A second APP in `WAIT_JOIN` or later sets the repair filter again, so that the
   machine may be in success with the filter on; in `WAIT_FIRST_SEQ` it makes the
   dataplane abort without telling anyone, while the control plane, in
   `FIN_SUCCESS`, absorbs the error (hence the `OneApp` properties; in `RccAbs` a
   control plane that has started says nothing of a later abort).
2. An APP after an abort of the control plane is answered OK, and
   `fastfill_start` follows `fastfill_abort`.
3. One lost interrupt message ends the bound of one message for each device.
4. After a failover the mark that keeps the old source's gaps from the new one is
   cleared by the first poll, whether or not that poll got as far.
5. The end of a fast fill resets the clock recovery; a session that is already
   normal does not switch it to tracking again.
6. A tuner's output socket stays open when the bind fails after its creation.
7. `s_graph_cache` is used as a stack although graphs are destroyed in any order.

**Bounds.**  `MaxApps` bounds the APPs passed to the dataplane and `MaxRcvApps` those
received; two are enough to meet the machine in
every state, and a third meets only states that a second has met.  Everything
else in `DpRcc`, `CpRcc` and `Rcc` is finite.  In `Rcc` the features that do not
touch the dataplane are left to `cp_rcc`.  `UpcallIrq`: `Width` keeps the
distance of two numbers that can meet below half of their range, as 32 bits do
(`IrqAssumption`), and lets the numbers wrap many times in a behaviour;
`SockMax` is one more than the devices, so that `QueueBoundedNoDrops` can fail.
A send that finds the socket full is a loss, so a behaviour that would need more
than `MaxDrops` losses is cut off.

`Pcm`: `MaxRx` vectors or repairs, `MaxTime` runs of the scheduler, one clock jump,
one failover.  The vectors (`MCVectors`) are chosen so that a gap, a reordered pair,
a late and a duplicate packet, a wrap of the RTP number, an under-run, and an
overflow by a vector of four all occur.  They lie within seven numbers, so that the
spread of finding 2 does not occur in `pcm`; `MCFarVectors` are the ones for which
it does.  `GapReporter` has the smallest page, bucket, mask and NACK, so that each
is at its limit.  `Osched`: three timestamps modulo four give all of forward,
backward, wrapped and discontinuous, and `MaxTime = 3` is enough for a fill, its end
and a clock that goes back.  `Channels`: two tuners on two channels give shared
channels, swaps and a channel in shutdown next to a live one; one channel has error
repair and may change rapidly, the other has neither and is freed at once.  A message
is received before `SeqMod` identifiers are deleted, which in the code are 256.
`SeqMod = 3` lets a message wait while its channel's identifier and another are deleted
and its slot, which goes round the queue of free slots, is given to the other channel;
with two sequence numbers the message would have to be read before that.  `NumByes = 3`
is the least with which the BYE timer expires twice.
`RccFailures = FALSE` in `channels` leaves
out the failures of finding 4, which `rcc_limit` adds; all other failures of a bind
are in both.

**Fairness.**  A handler that has started ends and a dataplane call returns
(straight-line code).  libevent fires a timer that is armed, except that nothing
makes the activity timer find the stream silent.  An upcall that is posted is
read (what `EventsDelivered` shows for finitely many losses); the GEN_NUM_SYNC
goes out every 10 seconds.  The BYE timer of a channel in shutdown is periodic, and
libevent fires it (`Channels`).  `Pcm`, `GapReporter` and `Osched` are checked for
safety only.  No fairness is assumed for packets, APPs, NAT
updates or unbinds.

**Deadlock** is not checked where the system may stop, in a freed channel, nor where
the bounds on time and packets end the behaviours (`Pcm`, `GapReporter`, `Osched`).
It is checked in `upcall_irq`, `channels` and `rcc_limit`.

## Proofs

Every theorem holds for all values of the constants that the assumptions named below
allow; each of these is evaluated by the runs too.  In each module an inductive
invariant is proved of the initial states and of every action, and the properties
follow from it.

`EventQProofs`: what `Lease` and `Release` do to a consistent ring: the type,
that a ring with depth below four has a free slot at `idx`, that consistency is
kept, and which event is current afterwards.

`DpRccProofs`, for every `MaxApps`: `TypeCorrect`, `QueueCorrect`,
`AssertionsHold`, their conjunction `QueueIsSafe`, and `NoDanglingTimer`, all from
one inductive invariant,

    IInv == TypeOK /\ QueueBound /\ TimersWatched /\ DestroyFinal /\ ~fatal

`NoAssertFails` is not inductive: that a round finds room depends on how many
events are queued, and that in turn on the state.  `QueueBound` says that two
events are queued only in a state whose routines deliver at most one more.
`TimersWatched` strengthens `TimersMatchState` in one direction to all moments:
a timer exists only in a state that watches it, hence none when the state is
left, hence `timer_start()` finds its pointer NULL, and none in a final state.
`DestroyFinal` says that `vqec_dpchan_destroy()` cannot get past the queue
without a final state, because `ABORT` leads there from every state.  The only
assumption is `MaxApps \in Nat`.

`CpRccProofs`, for every `MaxApps` and every set of configurations, also those
with features the code configures only together: every safety invariant of the
run `cp_rcc`, as `CTypeCorrect`, `CAssertionsHold`, `CQueueCorrect`,
`CQueueIsSafe` (the conjunction of the three), `WaitIsTimed`, `NakpliIsLate`,
`AbortDegrades`, `CountBalances` and `OneAppLeavesNoTimer`, from the inductive invariant

    CIInv == CTypeOK /\ CNoAssertFails /\ CQueueInOrder /\ Phases /\ AppTimer
             /\ Counting /\ TimersAccounted /\ BindingsKnown /\ SlowAfterAbort

None of the properties is inductive: each speaks of the moments between
handlers, or of the end, and the parts say what holds within a handler.
`Phases`: the queue is empty before the machine is initialized, during a call to
`process_app`, and until `vqec_sm_deinit()`, which marks the channel aborted
before it delivers `CHAN_DEINIT`.  `AppTimer`: in `WAIT_APP` the timer runs or
the event that ends the wait is being worked on.  `Counting`: a channel counts
one from the end of a good bind until it is aborted or destroyed; the abort
cannot come between the start of the machine and the count unless the bind
fails, which is the case in which `rcc_limit` finds the count wrong.
`TimersAccounted`: `orphans < napps` once there is a transition timer, so one
APP cannot lose one.  `BindingsKnown` and `SlowAfterAbort` carry `NakpliAfterNat`
and `AbortIsSlowChange` through the rounds of the loop.  The only assumption is
`CpAssumption`.

`DpRccProofs` again, on top of its first invariant: what the machine does for the
channel, from a second one, `JInv`, in the order of the code: `TimersOn`, `PrimaryCounted`,
`AbortCarried`, `InitQuiet`, `FirstAwaited`, `BurstSeen`, `Held`, `OneApp`.  It proves
`WaitsWithItsTimer` (`TimersMatchState`), `BurstIsHeld` (`BurstHeld`),
`UpcallsAreSingle` (`ToldOnce`) and `EndIsClean` (`EndsClean`).  These say what holds
between handlers; within one, the parts speak of the event being worked on and of
the one behind it (`Now`, `Then`, `Queued`), which is how they name the cleaning up
that is still to come.  `TimersOn`: the timer of the state is armed, or its event is
being worked on, or a failure to start it is queued.  `AbortCarried`: a channel
marked aborted is clean or has the handler running that cleans it.  `PrimaryCounted`
turns "at most one NCSI" into "sent or queued, never both".

`RccProofs`, for every number of APPs and every configuration with RCC: `RInvariance`
and from it `HalvesAlwaysAgree` (`HalvesAgree`) and `RccImplements` (`ImplementsAbs`).

    RInv == IInv /\ JInv /\ DInv /\ CIInv /\ KInv /\ Coupled /\ ...

The two halves' invariants are carried over, since each step of the whole is a step
of one half or of both.  `DInv` and `KInv` add what the other half relies on: that
the answer to an APP tells the truth about the machine, that a channel without an
APP does nothing unless aborted, which handler waits for which call.  `Coupled` says
which dataplane handler runs on behalf of which call (`CallInDataplane`), that a
dataplane is aborted with its control plane or is about to be, and then has no APP
(`AbortPassedOn`), what success rests on (`SuccessHasApp`), what the dataplane may
have done while the control plane waits (`Waiting`), through which of answer, upcall
or own decision an abort gets known (`AbortKnown`), and that a dataplane goes first
(`DataplaneGoes`).  The proof is split along the interface: `DpEffect` is all that a
step of the dataplane does to what the coupling speaks of, and for the refinement
`DpMoves` and `CpMoves` name the abstract step that each half takes while the other
stands still.  What makes the refinement true is in three places: a burst starts only
while the control plane waits in its call (`Start`); a machine that runs to success
has not been given up, because an abort of the control plane reaches a dataplane with
an APP as a mark already set (`Finish`); and the control plane leaves `WAIT_APP` by an
error only if the dataplane has no APP or has aborted (`GiveUp`).

`UpcallIrqProofs`: `NoCauseForgotten` (`CauseNotForgotten`) and `SocketIsBounded`
(`SocketSound`), for any finite set of devices, socket size and number width, from

    IInv == TypeOK /\ NothingLost /\ Near /\ OneEach

`NothingLost`: while the numbers the control plane has yet to read have no gap, every
device with a pending mark or a cause has a message under way, and a gap leads to a
poll.  `Near`: the newest of these numbers is behind the sender's by no more than the
losses.  With `IrqAssumption`, which in the code rests on 32 bits, a gap can
therefore never be mistaken for none after the numbers have wrapped.  `OneEach`:
until something is lost, a device that is pending has exactly one message.

`OschedProofs`: `TypeCorrect`, `PredictionGoesForward` (`PredForward`), `OutputTracks`
(`Tracks`) and `NothingHeldForOldTime` (`NotHeldForOldTime`), for every threshold,
weight, slew rate and set of timestamps that `NllAssumption` and `OschedAssumption`
allow.  The invariant is `Typed`, `FillOnce`, `Recovering`, `Predicting`,
`TracksArrivals`, `Seen` and `PendNear`.  The heart is a lemma on the moving average:
the decay leaves room for one more error below the maximum, with the rounding of the
division, so the average error stays bounded for ever and with it the distance of
prediction and arrival.  `NotHeldForOldTime` assumes `OtherFirst = FALSE`, that no
other scheduler has been the first to notice that the clock went back; finding 3 is
what happens otherwise.

`ChannelsProofs`, for any number of tuners and channels, any size of the identifier
table and any number of BYEs: `TablesTellTheSame` (`TablesAgree`), `TableHasRoom`
(`IdsSuffice`), `LateMessageIsDead` (`StaleIdDead`), `ByesAddUp` (`ByesComplete`),
`PollGoesOn` (`PollRuns`), and, if no bind fails between the decision for a rapid
change and its start (`RccFailures = FALSE`), `RccsAreCounted` (`RccsCounted`) and
`RccsAreLimited` (`RccLimit`).  The last says that the failures of finding 4 are the
only way past the limit.  The invariant is

    IInv == Good(sys, {}) /\ MessageMatches

An action of `Channels` is a chain of functions of the code, and between two of them
a channel may be allocated and not yet bound; `Good(s, X)` is therefore stated of any
record `s` and the set `X` of channels that are just being set up, and each function
has a lemma that takes `Good` to `Good`.  `Moves(s, r, D)` says in the same way which
slots of the identifier table a function has freed.  `MessageMatches`: the identifier
in a message is `j` sequence numbers behind its slot, for some `j` no larger than the
message's age, which is less than `SeqMod`.  `IdsSuffice` is a pigeonhole: every
slot in use belongs to a channel that has a tuner, no tuner has two channels, and
there are more slots than tuners.

`GapReporterProofs`, for any packets and any sizes of ring, page, mask, NACK and
bucket that the assumptions allow.  Of the cache, `PcmTypeCorrect` (`PcmTypeOK`),
`CacheViewsAgree` (`ViewsAgree`), `NextPacketIsFound` (`NextPakFound`) and
`OutputInOrder` (`OutputIncreasing`), from

    PcmInv /\ Views(pcm)     with  Views(p) == PcmType(p) /\ Ends(p) /\ Bits(p)
                                               /\ Apart(p) /\ Listed(p)

and, for the last, `OutOrder`.  `Ends`, `Bits` and `Listed` are the three conjuncts of
`ViewsAgree`, `Ends` in the stronger form that the packets lie within half the space
from the head, where `SeqLe` is an order; they are not inductive without `Apart`, that
no two packets share a bit.  Only then does clearing the bit of the packet handed on
leave those of the others alone, and only then is the first bit after the head that of
the next packet.  `OutOrder` relates the history to the cache: as long as the scheduler
remembers the last packet handed on, everything in the cache and the pending packet
come after it; and when it forgets, at an under-run or an overflow, the numbers that
follow are bumped past it.

Two hypotheses are stated in the theorems because the code does not enforce them.
`[]WithinRing`: what the cache accepts lies within one ring, head to tail; this is what
finding `pcm_spread` breaks, and `CacheViewsAgree` says that nothing else can break the
views.  `[]RxNear`: the number last received is ahead of the last one handed on by less
than almost half the space, and behind it by no more than two generations of RTP
numbers; 32-bit comparisons mean nothing beyond.  Both hold in every state of run `pcm`,
whose `SeqSpace` is 512 for the sake of the second; a wider input breaks the first.  Of
the constants the proofs use what the code has by a wide margin: the ring divides the RTP numbers and is no more than half of them (8192
and 65536), a vector is shorter than the ring (64), and the space is at least four
squares of the ring (2^32 and 2^28).

Of the reporter, `RepairsArePoliced` (`PolicerBounds`), from

    IInv == PcmInv /\ tb \in Bucket /\ ... /\ (tb.on /\ jumps = 0 =>
              /\ tb.last <= now
              /\ drained + tb.tokens <= TokenBurst + tb.last \div TokenPeriod)

`PolicerBounds` is not inductive: what the bucket still holds must be counted with
what was asked for, and against the time of the last credit, since a credit leaves
the unfinished period for the next one (`CreditBounds`).  That the NACK costs no more
than there is (`NackWithinTokens`) rests on the gaps being a finite set, and so on
every number of the cache being a sequence number, whatever is inserted, taken out,
flushed or timed out (`PcmInv`).  The loops are folds.  The library's induction
theorems take an operator as a parameter, which the provers cannot instantiate;
`BoundedInduction` is about membership in a set instead, and is proved from the
well-foundedness of the proper subsets of a finite set.  Each `...Fold` lemma turns a
fold into the sequence of values that the loop goes through.  The assumptions are
`SeqNumAssumption`, `PcmAssumption` and `GapReporterAssumption`.

Of what a report lists, `NothingAskedTwice` (`AskedOnce`), `RepairsAreUseful`
(`AskedIsUseful`) and `ReportsAreComplete` (`ReportComplete`), from

    ReportInv == Views(pcm) /\ OrderInv /\ ...
                   /\ ~pcm.rcc /\ jumps = 0 =>
                        ~again /\ \A s \in asked : Pos(s) <= Pos(pcm.lastReq)

`Pos(s)` is the place of a number counted from one ring before the first.  Comparing
sequence numbers is an order only within half the space, and the history of what was
asked for grows without bound; counting places from a fixed number makes it one order
for everything the reporter looks at.  `OrderInv` says that in this order come, each no
later than the next, the last number requested, the last that may be requested
(`highest_er`), the candidates that wait for reordering, in their list's order, and the
tail.  None of this follows from the cache's own invariant, and all of it is disturbed
by the operations of the cache: an insertion appends a candidate, a time-out takes the
first ones off, an under-run or a flush takes the rest.  `PagesExact` then says what a
report of any number of pages lists: exactly the numbers between `GapStart` and the new
`highest_er` whose bits are clear.  Each page but the last ends at least one number after
the one before, and the cache is no longer than the number of pages; that nothing is
lost between two pages rests on `InternalExact`, which says where the scan of the bitmap
stops when the buffer of gaps is full.

These theorems have the hypothesis `[]Young` besides: while the clock has not been set
back, less than half the space has been used, and a packet is numbered neither almost
half the space after the tail nor more than two RTP generations before it; and no
repair comes before the first packet, which would move the number that the first one is
given.  (2^31 packets are several weeks of a channel, and repairs are answers to
requests.)  In the code nothing starts the numbers anew when they
wrap; that reports stay right across the wrap needs the same proof with a base that
moves along, and is not claimed.  TLC finds `WithinRing`, `RxNear` and, up to
the last clause, `Young` true in every state of run `gap_reporter`, whose `SeqSpace` is
512 for that.  In the run a repair may also come first, and the properties hold then too.

Of the NACK, `NackIsExact` (`NackExact`): a NACK names the first missing numbers that
there are tokens for.  The numbers before `s` are counted (`Rank`), and within half the
space the ranks of a set's members are one to one with `1 .. Cardinality` (`InOrderLists`),
so that the model's loop over `InOrder` meets each number once, in order.  Along it
(`EncodeAllNames`) the fields written so far name exactly the numbers paid for, for as
long as there are fields left: a number within the bitmask's reach of the field's first
number sets one more bit, any other begins a field, and reading `pid + 1 + bit` modulo
2^16 gives the number back (`FieldDecodes`).  The hypothesis `[]GapsNear`, that what is
missing spans less than half the space, is proved of channels as above
(`MissingStaysNear`).

Proving changed the models in seven places.  Messages in `Channels` did not count the
deletion of their own channel's identifier as part of their age, without which
`StaleIdDead` holds for the instance and not in general.  `NotHeldForOldTime` left out
by how much a burst may put the predictions ahead of the arrivals (`Lead`).  Two arms
of `NextState` in `Osched` overlapped.  `Rcc` used to instantiate the two halves, whose
theorems cannot be cited through an instance.  `PcmAssumption` did not say how the
sizes of ring, vector and spaces compare, which the cache depends on.  `AskedOnce`
and `ReportComplete` did not except a clock that is set back: the flush then forgets the
last packet handed on without starting the numbers anew, so they may go back below what
was requested.  And `GapReporterAssumption` did not say that the `None` of a NACK that
has no field yet is not itself a field.

Only model-checked: liveness (`ChangeEnds`, `CWaitsEnd`, `AbortLeadsToEr`,
`AllStreamsOn`, `EventsDelivered`, `ShutdownEnds`), since fairness is beyond the
prover.  Every safety property of the passing runs is stated by a theorem; those of
the packet cache and of the reporter under the hypotheses just named.

## Not modelled

Logging, counters, histograms, statistics; the fast-fill and backfill
arithmetic; RTP header and MPEG contents; real time in the RCC (a timer fires at
any time after it is started); memory contents, packet reference counts, file
descriptors.

FEC decoding, the RTP receiver's source table, NAT bindings, the configuration
updater and the sink queues hold state of their own and are the parts that could
still be modelled; in the present modules each is an environment that may do
anything its interface allows.  Most of the repository cannot: of its 277
thousand lines the vendored libraries, the SDP, RTSP, STUN and configuration
parsers, the command line, the display routines and the unit tests are the bulk,
and they have no state worth checking.  `PROJECT.json` lists each part.

## Plan

1. Done: the RCC (`EventQ`, `DpRcc`, `CpRcc`, `Rcc`, `UpcallIrq`) with its abstract
   specification, the stream (`Pcm`, `GapReporter`, `Nll`, `Osched`), the tables
   (`Channels`), and proofs of every safety property of all of these and of the
   refinement of `RccAbs`.
2. Proofs: the reports across the wrap of the 32-bit numbers, with places counted from
   a base that moves with the head.
3. Modules for the FEC window, the source table, NAT bindings and sink queues.
