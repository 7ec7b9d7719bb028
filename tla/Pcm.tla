-------------------------------- MODULE Pcm --------------------------------
(***************************************************************************)
(* The packet cache of one channel (vqec_pcm.c) with the packet ring       *)
(* (vqec_pak_seq.c), the gap bitmap (vqe_bitmap.c) and the output          *)
(* scheduler that takes packets out of it (vqec_oscheduler.c).             *)
(*                                                                         *)
(* Packets of the primary and of the repair stream come in any order, any  *)
(* number of times, or never.  The cache numbers them, refuses duplicates  *)
(* and packets that are late or out of range, and hands them on in order.  *)
(* A second view of the same packets, one bit for each, tells which ones   *)
(* are missing; "candidates" remember how far the stream had come at some  *)
(* recent times, so that a gap is left to FEC and to reordering for a      *)
(* while before it is reported.                                            *)
(*                                                                         *)
(* Times are in units of the scheduler's period.  When a pending packet is *)
(* due is the clock recovery's affair (module Nll) and is free here.       *)
(***************************************************************************)
EXTENDS SeqNum, FiniteSets, Sequences, SequencesExt

CONSTANTS
    None,          \* no sequence number
    RingSize,      \* slots of the ring and bits of the bitmap (8192)
    MaxGap,        \* VQEC_PCM_MAX_GAP_SIZE (6000)
    MaxCand,       \* VQEC_PCM_MAX_CANDIDATES (10)
    GapBufMax,     \* VQEC_DP_GAP_BUFFER_MAX_GAPS (32)
    HoldTime,      \* gap_hold_time the channel starts with
    FecHoldTime,   \* gap_hold_time once the stream's FEC is known
    ReorderDelay,  \* REORDER_DELAY
    RccEnabled,    \* may the channel change rapidly: a set of BOOLEANs
    Vectors,       \* RTP numbers that can arrive in one read of the primary
                   \* (up to VQEC_DP_STREAM_PUSH_VECTOR_PAKS_MAX = 64)
    Repairs,       \* original numbers that can arrive as repairs
    MaxRx,         \* bound: vectors and repairs received
    MaxPasses,     \* bound: packets taken out in one run of the scheduler
    MaxTime,       \* bound: the clock
    MaxJumps       \* bound: times the clock is set back

ASSUME PcmAssumption ==
    /\ None \notin SeqNumber
    /\ RingSize \in Nat \ {0, 1}
    /\ RtpMod % RingSize = 0 /\ 2 * RingSize <= RtpMod
    /\ MaxGap \in 1 .. RingSize /\ MaxCand \in Nat \ {0, 1}
    /\ GapBufMax \in Nat \ {0}
    /\ HoldTime \in Nat /\ FecHoldTime \in 0 .. HoldTime - 1
    /\ ReorderDelay \in Nat
    /\ RccEnabled \subseteq BOOLEAN /\ RccEnabled # {}
    /\ Vectors \subseteq Seq(RtpNumber) /\ <<>> \notin Vectors
    /\ \A v \in Vectors : Len(v) < RingSize
    /\ Repairs \subseteq RtpNumber
    /\ MaxTime \in Nat
    /\ SeqSpace >= 4 * RingSize * RingSize

VARIABLES
    pcm,           \* the cache and its scheduler, a record (see TypeOK)
    now,           \* the system time
    rx,            \* packets received so far
    jumps,         \* times the clock was set back
    back,          \* it was, since the last run of the scheduler
    lastOut,       \* history: the last packet handed on, None before the first
    newSrc         \* history: where the latest source took over, None before

pcmVars == <<pcm, now, rx, jumps, back, lastOut, newSrc>>

Pak == [type : {"PRIMARY", "REPAIR"}, ts : 0 .. MaxTime, reordered : BOOLEAN]
Cand == [seq : SeqNumber, ts : 0 .. MaxTime]

PcmTypeOK ==
    /\ DOMAIN pcm.paks \subseteq SeqNumber
    /\ \A s \in DOMAIN pcm.paks : pcm.paks[s] \in Pak
    /\ pcm.gapmap \subseteq 0 .. RingSize - 1
    /\ {pcm.head, pcm.tail, pcm.lastRx, pcm.highestEr, pcm.lastReq,
        pcm.firstPrim, pcm.lastPak} \subseteq SeqNumber
    /\ pcm.cands \in Seq(Cand) /\ Len(pcm.cands) <= MaxCand
    /\ pcm.inorder \in Seq(SeqNumber)
    /\ {pcm.checked, pcm.polled, pcm.rcc, pcm.erEnable, pcm.underrunDis,
        pcm.primRcvd, pcm.notified, pcm.lastValid, pcm.burstDone,
        pcm.postAbort} \subseteq BOOLEAN
    /\ pcm.abort \in {"no", "actions", "done"}
    /\ pcm.srcStart \in SeqNumber \cup {None}
    /\ pcm.pend \in SeqNumber \cup {None}
    /\ pcm.hold \in 0 .. HoldTime
    /\ now \in 0 .. MaxTime /\ back \in BOOLEAN

\* vqec_pcm_init.  A channel without a rapid change is created as one whose
\* change was aborted (vqec_dpchan_create, vqec_dpchan_set_rcc_aborted).
PcmInit ==
    /\ \E rcc \in RccEnabled :
          pcm = [paks |-> <<>>, gapmap |-> {}, head |-> 0, tail |-> 0,
                 lastRx |-> RtpMod \div 2, highestEr |-> 0, lastReq |-> 0,
                 cands |-> <<>>, checked |-> FALSE, polled |-> FALSE,
                 inorder |-> <<>>, hold |-> HoldTime, srcStart |-> None,
                 rcc |-> rcc, erEnable |-> ~rcc, underrunDis |-> rcc,
                 primRcvd |-> FALSE, firstPrim |-> 0, notified |-> FALSE,
                 pend |-> None, lastPak |-> 0, lastValid |-> FALSE,
                 burstDone |-> FALSE, postAbort |-> ~rcc,
                 abort |-> IF rcc THEN "no" ELSE "done"]
    /\ now = 0 /\ rx = 0 /\ jumps = 0 /\ back = FALSE
    /\ lastOut = None /\ newSrc = None

-----------------------------------------------------------------------------
(***************************************************************************)
(* Candidates: the last packets of the primary stream at certain times,    *)
(* the oldest first; a new one pushes out the oldest of a full ring.       *)
(***************************************************************************)
AddCandidate(c, s, t) ==
    Append(IF Len(c) = MaxCand THEN Tail(c) ELSE c, [seq |-> s, ts |-> t])

\* vqec_pcm_timeout_old_candidates: candidates are dropped up to the first
\* that is not old enough; gaps may be reported up to that one.
TimeoutCandidates(p, t) ==
    LET old == Cardinality({i \in DOMAIN p.cands :
                  \A j \in 1 .. i : t > p.cands[j].ts + p.hold})
    IN  [p EXCEPT !.cands = SubSeq(@, old + 1, Len(@)),
                  !.highestEr = IF p.cands = <<>> THEN @
                                ELSE IF old < Len(p.cands)
                                     THEN p.cands[old + 1].seq
                                     ELSE p.cands[old].seq]

\* vqec_pcm_update_candidates: a candidate every bucket width.
UpdateCandidates(p, s, t) ==
    LET q == IF p.cands = <<>>
             THEN [p EXCEPT !.cands = AddCandidate(@, s, t)]
             ELSE IF t > Last(p.cands).ts + p.hold \div MaxCand
             THEN [TimeoutCandidates(p, t)
                     EXCEPT !.cands = AddCandidate(@, s, t)]
             ELSE p
    IN  [q EXCEPT !.checked = TRUE]

-----------------------------------------------------------------------------
(***************************************************************************)
(* Insertion.                                                              *)
(***************************************************************************)
NumPaks(p) == Cardinality(DOMAIN p.paks)
Slot(s) == s % RingSize

\* vqec_dp_oscheduler_outp_reset
OutpReset(p, freePend) ==
    [p EXCEPT !.pend = IF freePend THEN None ELSE @,
              !.lastPak = 0, !.lastValid = FALSE]

\* vqec_pcm_flush.  Head, tail, candidates and what was requested stay.
Flush(p) ==
    [OutpReset(p, TRUE) EXCEPT !.gapmap = {}, !.inorder = <<>>,
                               !.paks = <<>>, !.primRcvd = FALSE]

\* vqec_pcm_insert_packet_check_range: may numbers low to high go in: all of
\* them ("OK"), some, or none because all are out of range or late ("ALL").
CheckRange(p, low, high) ==
    IF NumPaks(p) = 0 THEN "OK"
    ELSE IF SeqLe(SeqAdd(p.head, RingSize), high)
         THEN IF SeqLe(SeqAdd(p.head, RingSize), low) THEN "ALL" ELSE "SOME"
    ELSE IF \/ SeqLe(SeqAdd(p.tail, MaxGap), low)
            \/ SeqLe(high, SeqAdd(p.head, -MaxGap)) THEN "ALL"
    ELSE IF p.lastValid /\ SeqLe(low, p.lastPak)
         THEN IF SeqLe(high, p.lastPak) THEN "ALL" ELSE "SOME"
    ELSE "OK"

\* Mutant: the head moves only for the first packet.
PlaceHeadStays(p, s, type, t) ==
    LET prim  == type = "PRIMARY"
        first == NumPaks(p) = 0
        high  == ~first /\ SeqLt(p.tail, s)
        order == prim /\ (first \/ high)
        q == [p EXCEPT
                !.paks = [x \in DOMAIN @ \cup {s} |->
                            IF x = s THEN [type |-> type, ts |-> t,
                                           reordered |-> ~order]
                            ELSE @[x]],
                !.gapmap = @ \cup {Slot(s)},
                !.head = IF first THEN s ELSE @,
                !.tail = IF first \/ high THEN s ELSE @,
                !.inorder = IF order THEN Append(@, s) ELSE @,
                !.lastRx = s]
    IN  IF order THEN UpdateCandidates(q, s, t) ELSE q

\* The part of vqec_pcm_insert_packets that puts one packet in its place.
Place(p, s, type, t) ==
    LET prim  == type = "PRIMARY"
        first == NumPaks(p) = 0
        low   == ~first /\ SeqLt(s, p.head)
        high  == ~first /\ SeqLt(p.tail, s)
        order == prim /\ (first \/ high)
        q == [p EXCEPT
                !.paks = [x \in DOMAIN @ \cup {s} |->
                            IF x = s THEN [type |-> type, ts |-> t,
                                           reordered |-> ~order]
                            ELSE @[x]],
                !.gapmap = @ \cup {Slot(s)},
                !.head = IF first \/ low THEN s ELSE @,
                !.tail = IF first \/ high THEN s ELSE @,
                !.inorder = IF order THEN Append(@, s) ELSE @,
                !.lastRx = s]
    IN  IF order THEN UpdateCandidates(q, s, t) ELSE q

\* One pass of the loop of vqec_pcm_insert_packets over a vector.
InsertOne(p, s, type, check, t) ==
    IF \/ s \in DOMAIN p.paks
       \/ check /\ CheckRange(p, s, s) # "OK" THEN p
    ELSE LET q == IF type = "PRIMARY" /\ ~p.primRcvd
                  THEN [p EXCEPT !.primRcvd = TRUE, !.firstPrim = s] ELSE p
         IN  IF \E x \in DOMAIN q.paks : Slot(x) = Slot(s) THEN q
             ELSE Place(q, s, type, t)

\* The loop over the vector, whose numbers start anew after a reset.
InsertAll(p, seqs, type, check, bump, t) ==
    FoldLeft(LAMBDA q, s : InsertOne(q, IF bump THEN BumpSeq(s) ELSE s,
                                     type, check, t),
             p, seqs)

\* The packet before the first primary one is there: the burst is complete.
BurstCheck(p) ==
    IF p.primRcvd /\ ~p.notified /\ PreSeq(p.firstPrim) \in DOMAIN p.paks
    THEN [p EXCEPT !.notified = TRUE, !.burstDone = TRUE] ELSE p

\* Mutant: numbers are not bumped after a reset.
InsertNoBump(p, seqs, type, contig, t) ==
    LET over  == NumPaks(p) + Len(seqs) >= RingSize
        p1    == IF over THEN Flush(p) ELSE p
        under == NumPaks(p) = 0 /\ p1.lastValid /\ ~p.underrunDis
        p2    == IF under THEN OutpReset(p1, FALSE) ELSE p1
        range == IF contig THEN CheckRange(p2, seqs[1], seqs[Len(seqs)])
                 ELSE "SOME"
    IN  IF range = "ALL" THEN p2
        ELSE BurstCheck(InsertAll(p2, seqs, type, range = "SOME", FALSE, t))

\* vqec_pcm_insert_packets: a full cache is flushed, an empty one that has
\* handed on packets has run dry; after either the numbers start anew.
InsertPackets(p, seqs, type, contig, t) ==
    LET over  == NumPaks(p) + Len(seqs) >= RingSize
        p1    == IF over THEN Flush(p) ELSE p
        under == NumPaks(p) = 0 /\ p1.lastValid /\ ~p.underrunDis
        p2    == IF under THEN OutpReset(p1, FALSE) ELSE p1
        range == IF contig THEN CheckRange(p2, seqs[1], seqs[Len(seqs)])
                 ELSE "SOME"
    IN  IF range = "ALL" THEN p2
        ELSE BurstCheck(InsertAll(p2, seqs, type, range = "SOME",
                                  over \/ under, t))

-----------------------------------------------------------------------------
(***************************************************************************)
(* Output.                                                                 *)
(***************************************************************************)
\* vqec_pcm_find_next_packet_internal for the head: the next number if it is
\* there, otherwise the first later one up to the tail whose bit is set, which
\* is looked up in the ring.  None where the code's assertion fails.
FindNext(p) ==
    LET n == NextSeq(p.head)
        set == {s \in SeqRange(SeqAdd(p.head, 2), p.tail) :
                    Slot(s) \in p.gapmap}
        s == IF n \in DOMAIN p.paks THEN n
             ELSE IF set = {} THEN None ELSE SeqMin(set)
    IN  IF s \in DOMAIN p.paks THEN s ELSE None

\* Mutant: the bit of a packet that is handed on stays set.
RemoveHeadKeepsBit(p) ==
    [p EXCEPT
        !.head = IF p.tail = p.head \/ FindNext(p) = None THEN @
                 ELSE FindNext(p),
        !.paks = [x \in DOMAIN @ \ {p.head} |-> @[x]],
        !.inorder = RemoveFirst(@, p.head)]

\* vqec_pcm_remove_packet, always of the head.
RemoveHead(p) ==
    [p EXCEPT
        !.head = IF p.tail = p.head \/ FindNext(p) = None THEN @
                 ELSE FindNext(p),
        !.paks = [x \in DOMAIN @ \ {p.head} |-> @[x]],
        !.gapmap = @ \ {Slot(p.head)},
        !.inorder = RemoveFirst(@, p.head)]

\* A receive time that lies in the future is set to the present.
HeadNotInFuture(p, t) ==
    IF DOMAIN p.paks # {} /\ p.paks[p.head].ts > t
    THEN [p EXCEPT !.paks[p.head].ts = t] ELSE p

\* A packet that came in order waits for others that may belong before it.
Ready(p, t) ==
    /\ DOMAIN p.paks # {}
    /\ p.paks[p.head].reordered \/ p.paks[p.head].ts + ReorderDelay <= t

\* One pass of the loop of vqec_dp_oscheduler_run: the pending packet goes
\* out and the first packet of the cache, if it may, becomes the pending one.
Pass(p, t) ==
    LET q == [HeadNotInFuture(p, t) EXCEPT !.pend = None]
        s == q.head
    IN  IF ~Ready(q, t) THEN q
        ELSE [RemoveHead(q) EXCEPT
                 !.pend = s, !.lastPak = s, !.lastValid = TRUE,
                 !.postAbort = @ /\ ~(q.primRcvd /\ SeqLe(q.firstPrim, s))]

\* n passes: how many depends on when each packet is due.
Passes(p, n, t) ==
    FoldLeft(LAMBDA q, i : Pass(q, t), p, [i \in 1 .. n |-> i])

\* vqec_dpchan_set_rcc_aborted and, of vqec_dpchan_abort_rcc_doactions, what
\* precedes the polls of the sockets: vqec_pcm_notify_rcc_abort.  An abort that
\* the state machine decides on marks the channel only after the actions.
RccAbortPcm(p, marked) ==
    [Flush(p) EXCEPT !.burstDone = TRUE, !.postAbort = marked,
                     !.abort = "actions"]

\* vqec_dp_oscheduler_run, one period after the run before; after a clock that
\* was set back it only starts anew.
OschedRun(n) ==
    LET p == IF pcm.checked THEN [pcm EXCEPT !.checked = FALSE]
             ELSE TimeoutCandidates(pcm, now + 1)
        q == Passes(p, n, now + 1)
    IN  /\ ~back /\ pcm.abort # "actions"
        /\ now < MaxTime /\ now' = now + 1
        /\ pcm' = q
        /\ lastOut' = IF q.lastValid THEN q.lastPak ELSE lastOut
        /\ UNCHANGED <<rx, jumps, back, newSrc>>

\* The cache is flushed, and vqec_dp_chan_abort_rcc aborts the change, also one
\* that has succeeded, unless it was aborted before.
OschedClockBack ==
    /\ back /\ back' = FALSE /\ pcm.abort # "actions"
    /\ now < MaxTime /\ now' = now + 1
    /\ pcm' = IF pcm.abort = "no" THEN RccAbortPcm(pcm, TRUE) ELSE Flush(pcm)
    /\ lastOut' = None
    /\ UNCHANGED <<rx, jumps, newSrc>>

-----------------------------------------------------------------------------
(***************************************************************************)
(* Input.                                                                  *)
(***************************************************************************)
\* vqec_dp_chan_rtp_process_primary_paks_and_insert_to_pcm: each packet gets
\* the number nearest to the one before it.
NumberPaks(last, v) ==
    FoldLeft(LAMBDA seqs, r :
                Append(seqs, NearestToRtp(IF seqs = <<>> THEN last
                                          ELSE Last(seqs), r)),
             <<>>, v)

\* The whole vector goes on: the sequence check of the RTP session
\* (rtp_update_seq) and, in a rapid change, the state machine's check whether
\* primary packets are accepted yet, drop packets in the code.  It is then as if
\* they had not come.
RxPrimary(v) ==
    LET seqs == NumberPaks(pcm.lastRx, v)
        contig == \A i \in 2 .. Len(seqs) : seqs[i] = NextSeq(seqs[i - 1])
        q == InsertPackets([pcm EXCEPT !.lastRx = Last(seqs)],
                           seqs, "PRIMARY", contig, now)
    IN  /\ rx < MaxRx /\ rx' = rx + 1
        /\ pcm' = q
        /\ UNCHANGED <<now, jumps, back, lastOut, newSrc>>

\* vqec_dp_chan_rtp_repair_input_stream_rcv_one, from the numbering of the
\* packet on; after an abort repairs before the first primary are dropped.
RxRepair(osn) ==
    LET s == NearestToRtp(pcm.lastRx, osn)
        p == [pcm EXCEPT !.lastRx = s]
        q == IF p.postAbort /\ (~p.primRcvd \/ SeqLe(s, p.firstPrim)) THEN p
             ELSE InsertPackets(p, <<s>>, "REPAIR", TRUE, now)
    IN  /\ rx < MaxRx /\ rx' = rx + 1
        /\ pcm' = q
        /\ UNCHANGED <<now, jumps, back, lastOut, newSrc>>

-----------------------------------------------------------------------------
(***************************************************************************)
(* What the rest of the channel tells the cache.                           *)
(***************************************************************************)
\* vqec_dpchan_rcc_er_en_notify, vqec_pcm_notify_rcc_en_er: the burst is over, or
\* it was given up and the sockets have been polled, which is all that comes
\* between an abort and this.
RccEnableEr ==
    /\ pcm.rcc /\ (pcm.underrunDis \/ pcm.abort = "actions")
    /\ LET ends == pcm.abort = "actions"
       IN  pcm' = [pcm EXCEPT !.underrunDis = FALSE, !.erEnable = TRUE,
                              !.lastReq = pcm.head, !.highestEr = pcm.tail,
                              !.postAbort = @ \/ ends,
                              !.abort = IF ends THEN "done" ELSE @]
    /\ UNCHANGED <<now, rx, jumps, back, lastOut, newSrc>>

\* The rapid channel change is aborted, by the control plane or for a bad APP
\* (marked first), or by the state machine (marked last); a second APP may
\* abort it after its success.
RccAbort(marked) ==
    /\ pcm.rcc /\ pcm.abort = "no"
    /\ pcm' = RccAbortPcm(pcm, marked)
    /\ UNCHANGED <<now, rx, jumps, back, lastOut, newSrc>>

\* vqec_pcm_update_fec_delay: FEC turns out to need less time.
UpdateFecDelay ==
    /\ pcm.hold = HoldTime
    /\ LET p == [pcm EXCEPT !.hold = FecHoldTime]
       IN  pcm' = IF p.cands = <<>> THEN p
                  ELSE TimeoutCandidates(p, Last(p.cands).ts)
    /\ UNCHANGED <<now, rx, jumps, back, lastOut, newSrc>>

\* vqec_pcm_set_pktflow_src_seq_num_start: another source takes over
\* (bound: once).
FailoverSource ==
    /\ newSrc = None /\ ~pcm.rcc /\ DOMAIN pcm.paks # {}
    /\ pcm' = [pcm EXCEPT !.srcStart = NextSeq(pcm.tail)]
    /\ newSrc' = NextSeq(pcm.tail)
    /\ UNCHANGED <<now, rx, jumps, back, lastOut>>

ClockBack ==
    /\ jumps < MaxJumps /\ now > 0
    /\ now' = 0 /\ jumps' = jumps + 1 /\ back' = TRUE
    /\ UNCHANGED <<pcm, rx, lastOut, newSrc>>

PcmNext ==
    \/ \E v \in Vectors : RxPrimary(v)
    \/ \E r \in Repairs : RxRepair(r)
    \/ OschedClockBack
    \/ \E n \in 0 .. MaxPasses : OschedRun(n)
    \/ RccEnableEr
    \/ \E marked \in BOOLEAN : RccAbort(marked)
    \/ UpdateFecDelay
    \/ FailoverSource
    \/ ClockBack

PcmSpec == PcmInit /\ [][PcmNext]_pcmVars

-----------------------------------------------------------------------------
(***************************************************************************)
(* Gap reports.                                                            *)
(***************************************************************************)
\* Mutant: the last number requested is requested again.
GapStartAgain(p) ==
    LET s == IF SeqLt(p.head, p.lastReq) THEN p.lastReq ELSE p.head
    IN  IF p.srcStart # None /\ SeqLt(s, p.srcStart) THEN p.srcStart ELSE s

\* Mutant: a report begins after what was requested, wherever the head is.
GapStartNoHead(p) ==
    IF p.srcStart # None /\ SeqLt(NextSeq(p.lastReq), p.srcStart)
    THEN p.srcStart ELSE NextSeq(p.lastReq)

\* Where a report begins: after what was requested, not before the head, not
\* before the first packet of a new source.
GapStart(p) ==
    LET s == IF SeqLt(p.head, p.lastReq) THEN NextSeq(p.lastReq) ELSE p.head
    IN  IF p.srcStart # None /\ SeqLt(s, p.srcStart) THEN p.srcStart ELSE s

\* Mutant: when the buffer is full the next report begins after the range.
GetGapsInternalSkips(p, s1, s2) ==
    LET miss == {s \in SeqRange(s1, s2) : Slot(s) \notin p.gapmap}
        ends == {s \in miss : s # s2 /\ NextSeq(s) \notin miss}
        full == {e \in ends : Cardinality({x \in ends : SeqLe(x, e)})
                                  = GapBufMax}
    IN  IF full = {} THEN [gaps |-> miss, more |-> FALSE, high |-> s2]
        ELSE [gaps |-> {s \in miss : SeqLe(s, SeqMin(full))},
              more |-> TRUE, high |-> s2]

\* vqec_pcm_gap_get_gaps_internal: the missing numbers of a range, as far as
\* the gaps fit the buffer, and whether the buffer was the limit.  A gap that
\* fills the buffer counts once a packet ends it.
GetGapsInternal(p, s1, s2) ==
    LET miss == {s \in SeqRange(s1, s2) : Slot(s) \notin p.gapmap}
        ends == {s \in miss : s # s2 /\ NextSeq(s) \notin miss}
        upto(e) == {s \in miss : SeqLe(s, e)}
        full == {e \in ends : Cardinality({x \in ends : SeqLe(x, e)})
                                  = GapBufMax}
    IN  IF full = {} THEN [gaps |-> miss, more |-> FALSE, high |-> s2]
        ELSE LET e == SeqMin(full)
             IN  [gaps |-> upto(e), more |-> TRUE, high |-> e]

\* vqec_pcm_gap_get_gaps
GetGaps(p, t) ==
    LET q == IF p.polled THEN p
             ELSE [TimeoutCandidates(p, t) EXCEPT !.polled = TRUE]
        g == GetGapsInternal(q, GapStart(q), q.highestEr)
    IN  IF DOMAIN p.paks = {} THEN [pcm |-> p, gaps |-> {}, more |-> FALSE]
        ELSE [pcm  |-> [q EXCEPT !.srcStart = None, !.lastReq = g.high],
              gaps |-> g.gaps, more |-> g.more]

-----------------------------------------------------------------------------
(***************************************************************************)
(* Properties.                                                             *)
(***************************************************************************)
\* Head and tail are the first and the last packet of the cache, whatever
\* order the packets came in and were refused (vqec_pcm_insert_packets,
\* vqec_pcm_remove_packet, and the assertions there).
HeadTailExact ==
    DOMAIN pcm.paks # {} =>
        /\ pcm.head \in DOMAIN pcm.paks /\ pcm.tail \in DOMAIN pcm.paks
        /\ \A s \in DOMAIN pcm.paks :
              SeqLe(pcm.head, s) /\ SeqLe(s, pcm.tail)

\* The bitmap, from which gaps are reported, agrees with the ring, from which
\* packets are handed on: a bit is set exactly for a packet that is there,
\* also after flushes and resets and when numbers wrap around the bitmap.
GapmapExact == pcm.gapmap = {Slot(s) : s \in DOMAIN pcm.paks}

\* The packet after the head is found: VQEC_DP_ASSERT_FATAL(next_pak) in
\* vqec_pcm_remove_packet.
NextPakFound ==
    Cardinality(DOMAIN pcm.paks) > 1 => FindNext(pcm) # None

\* vqec_pcm_inorder_pak_list_*: the list holds the packets that came in order
\* and are still in the cache, the oldest first.
InorderExact ==
    /\ ToSet(pcm.inorder) =
          {s \in DOMAIN pcm.paks : ~pcm.paks[s].reordered}
    /\ \A i \in 1 .. Len(pcm.inorder) - 1 :
          SeqLt(pcm.inorder[i], pcm.inorder[i + 1])

\* The cache's views of its packets agree: the ring, the bitmap, head and tail,
\* and the list of packets in order, each updated on its own by insertion,
\* removal and flush.
ViewsAgree == PcmTypeOK /\ HeadTailExact /\ GapmapExact /\ InorderExact

\* Packets are handed on in the order of their numbers, also across under-runs
\* and overflows, where the numbers start anew; a packet that was handed on is
\* never handed on again.  (Not so before the primary stream of a rapid channel
\* change: with under-run resets disabled an empty cache accepts any number.)
OutputIncreasing ==
    [][ (~pcm.rcc /\ lastOut # None /\ lastOut' # lastOut /\ lastOut' # None)
            => SeqLt(lastOut, lastOut') ]_pcmVars
=============================================================================
