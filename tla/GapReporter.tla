----------------------------- MODULE GapReporter -----------------------------
(***************************************************************************)
(* The gap reporter (vqec_gap_reporter.c) on top of the packet cache: the  *)
(* control plane polls the cache for gaps, a token bucket                  *)
(* (vqe_token_bucket.c) limits how many repairs it may ask for, and those  *)
(* asked for are encoded in one generic NACK.                              *)
(*                                                                         *)
(* A NACK that cannot be sent, and how many repairs were asked for or not, *)
(* only shows in statistics and is left out.                               *)
(***************************************************************************)
EXTENDS Pcm

CONSTANTS
    BlpMax,        \* bits of the mask of one NACK field (16)
    FciMax,        \* VQEC_GAP_REPORTER_FCI_MAX, fields of one NACK (256)
    Policed,       \* is the policer on: a set of BOOLEANs
    TokenBurst,    \* tokens the bucket holds
    TokenPeriod    \* replenish_period: the time one token takes

ASSUME GapReporterAssumption ==
    /\ BlpMax \in Nat \ {0} /\ FciMax \in Nat \ {0}
    /\ None \notin [pid : SeqNumber, blp : SUBSET Int]
    /\ Policed \subseteq BOOLEAN /\ Policed # {}
    /\ TokenBurst \in Nat \ {0} /\ TokenPeriod \in Nat \ {0}

VARIABLES
    tb,            \* the token bucket: on, tokens, time of the last credit
    asked,         \* history: numbers the cache has reported missing
    again,         \* history: one of them was reported before
    drained        \* history: repairs asked for

grVars == <<pcm, now, rx, jumps, back, lastOut, newSrc, tb, asked, again, drained>>

TypeOK ==
    /\ PcmTypeOK
    /\ tb \in [on : BOOLEAN, tokens : 0 .. TokenBurst, last : 0 .. MaxTime]
    /\ asked \subseteq SeqNumber /\ again \in BOOLEAN /\ drained \in Nat

\* tb_init_simple, vqec_chan_init
Init ==
    /\ PcmInit
    /\ \E on \in Policed : tb = [on |-> on, tokens |-> TokenBurst, last |-> 0]
    /\ asked = {} /\ again = FALSE /\ drained = 0

-----------------------------------------------------------------------------
\* tb_credit_tokens_internal: whole periods earn tokens up to the burst.  A
\* clock set back makes the unsigned time difference huge: the bucket fills.
Credit(b, t) ==
    LET n == (t - b.last) \div TokenPeriod
    IN  IF t < b.last \/ n + b.tokens > TokenBurst
        THEN [b EXCEPT !.tokens = TokenBurst, !.last = t]
        ELSE [b EXCEPT !.tokens = @ + n, !.last = @ + n * TokenPeriod]

\* The reporter asks the cache again as long as it has more.
Pages(p, t) ==
    FoldLeft(LAMBDA a, i :
                IF ~a.more THEN a
                ELSE LET g == GetGaps(a.pcm, t)
                     IN  [pcm |-> g.pcm, gaps |-> a.gaps \cup g.gaps,
                          more |-> g.more],
             [pcm |-> p, gaps |-> {}, more |-> TRUE],
             [i \in 1 .. RingSize |-> i])

\* Mutant: a number exactly BlpMax after the first of a field is lost.
EncodeBlpShort(a, s, on, starts) ==
    LET b == [a EXCEPT !.count = @ + 1, !.tokens = IF on THEN @ - 1 ELSE @,
                       !.broken = FALSE]
    IN  IF a.broken /\ ~starts THEN a
        ELSE IF on /\ a.tokens = 0 THEN [a EXCEPT !.broken = FALSE]
        ELSE IF Len(a.fci) >= FciMax THEN [b EXCEPT !.broken = TRUE]
        ELSE IF a.cur = None THEN [b EXCEPT !.cur = [pid |-> s, blp |-> {}]]
        ELSE IF SeqLe(SeqAdd(a.cur.pid, BlpMax), s)
             THEN [b EXCEPT !.fci = Append(@, a.cur),
                            !.cur = [pid |-> SeqAdd(s, 1), blp |-> {}]]
        ELSE [b EXCEPT !.cur.blp = @ \cup {SeqDist(a.cur.pid, s) - 1}]

\* Mutant: an empty bucket is not looked at.
EncodeNoPolice(a, s, on, starts) ==
    LET b == [a EXCEPT !.count = @ + 1, !.broken = FALSE]
    IN  IF a.broken /\ ~starts THEN a
        ELSE IF Len(a.fci) >= FciMax THEN [b EXCEPT !.broken = TRUE]
        ELSE IF a.cur = None THEN [b EXCEPT !.cur = [pid |-> s, blp |-> {}]]
        ELSE IF SeqLt(SeqAdd(a.cur.pid, BlpMax), s)
             THEN [b EXCEPT !.fci = Append(@, a.cur),
                            !.cur = [pid |-> s, blp |-> {}]]
        ELSE [b EXCEPT !.cur.blp = @ \cup {SeqDist(a.cur.pid, s) - 1}]

\* One missing number in vqec_gap_reporter_construct_generic_nack: policed,
\* or counted; when the fields are full the rest of its gap is skipped;
\* otherwise it starts a field or sets a bit of the last one.
EncodeOne(a, s, on, starts) ==
    LET b == [a EXCEPT !.count = @ + 1, !.tokens = IF on THEN @ - 1 ELSE @,
                       !.broken = FALSE]
    IN  IF a.broken /\ ~starts THEN a
        ELSE IF on /\ a.tokens = 0 THEN [a EXCEPT !.broken = FALSE]
        ELSE IF Len(a.fci) >= FciMax THEN [b EXCEPT !.broken = TRUE]
        ELSE IF a.cur = None THEN [b EXCEPT !.cur = [pid |-> s, blp |-> {}]]
        ELSE IF \/ SeqLt(s, a.cur.pid)
                \/ SeqLt(SeqAdd(a.cur.pid, BlpMax), s)
             THEN [b EXCEPT !.fci = Append(@, a.cur),
                            !.cur = [pid |-> s, blp |-> {}]]
        ELSE [b EXCEPT !.cur.blp = @ \cup {SeqDist(a.cur.pid, s) - 1}]

\* The numbers of a set that spans less than half the space, in their order.
InOrder(S) ==
    [i \in 1 .. Cardinality(S) |->
        CHOOSE s \in S : Cardinality({x \in S : SeqLe(x, s)}) = i]

\* All missing numbers, in their order.
EncodeAll(gaps, b) ==
    FoldLeft(LAMBDA x, s : EncodeOne(x, s, b.on, PreSeq(s) \notin gaps),
             [fci |-> <<>>, cur |-> None, count |-> 0,
              tokens |-> b.tokens, broken |-> FALSE],
             InOrder(gaps))

\* The whole of it: the fields, none if they are too many, and the tokens
\* spent in either case.
ConstructNack(gaps, b) ==
    LET a == EncodeAll(gaps, b)
        all == IF a.cur = None THEN <<>> ELSE Append(a.fci, a.cur)
        Field(f) == [f EXCEPT !.pid = @ % RtpMod]
    IN  [count |-> a.count,
         fields |-> IF Len(all) > FciMax THEN <<>>
                    ELSE [i \in DOMAIN all |-> Field(all[i])]]

\* vqec_gap_reporter_report, called by the channel's poll and once when error
\* repair starts.  When the polls come is left open, and so is whether they are
\* suppressed while a new source is not yet the configured one.
Report ==
    /\ pcm.abort # "actions"
    /\ LET b == IF tb.on THEN Credit(tb, now) ELSE tb
           g == Pages(pcm, now)
           c == ConstructNack(g.gaps, b)
       IN  /\ pcm' = g.pcm
           /\ tb' = IF tb.on THEN [b EXCEPT !.tokens = @ - c.count] ELSE b
           /\ asked' = asked \cup g.gaps
           /\ again' = (again \/ g.gaps \cap asked # {})
           /\ drained' = drained + c.count
    /\ UNCHANGED <<now, rx, jumps, back, lastOut, newSrc>>

Next ==
    \/ PcmNext /\ UNCHANGED <<tb, asked, again, drained>>
    \/ Report

Spec == Init /\ [][Next]_grVars

-----------------------------------------------------------------------------
(***************************************************************************)
(* Properties.                                                             *)
(***************************************************************************)
NewlyAsked == asked' \ asked

\* vqec_pcm_gap_get_gaps: the next report begins after the last number "so we
\* don't request the same seq_num twice".  Polls, candidates that time out,
\* under-runs, overflows and a change of source never make it go back.  (Not so
\* when the clock is set back: the flush forgets the last packet handed on, and
\* the numbers may then go back.  And every variable has its type.)
AskedOnce == TypeOK /\ (jumps = 0 /\ ~pcm.rcc => ~again)

\* What is asked for is missing from the cache, and comes before a packet that
\* the cache holds and after all that were handed on: its repair is of use.
AskedIsUseful ==
    [][ (jumps = 0 /\ ~pcm.rcc) =>
          \A s \in NewlyAsked :
            /\ s \notin DOMAIN pcm.paks
            /\ SeqLt(pcm.head, s) /\ SeqLt(s, pcm.tail)
            /\ lastOut # None => SeqLt(lastOut, s) ]_grVars

\* However many pages the report takes, no gap between where it begins and
\* the last number that may be reported is left out.  (When the clock has been
\* set back it is the flush that moves the last number reported.)
ReportComplete ==
    [][ (jumps = 0 /\ ~pcm.rcc /\ pcm'.lastReq # pcm.lastReq) =>
            \A s \in SeqRange(GapStart(pcm), pcm'.highestEr) :
                s \in DOMAIN pcm.paks \/ s \in asked' ]_grVars

\* The numbers a receiver of the NACK reads from its fields.
Decoded(fields) ==
    UNION {{(f.pid + i) % RtpMod : i \in {0} \cup {b + 1 : b \in f.blp}} :
              f \in ToSet(fields)}

\* vqec_gap_reporter_construct_generic_nack: the NACK names exactly the first
\* missing numbers that there are tokens for, or nothing when those need more
\* fields than a NACK has.
NackExact ==
    [][ drained' # drained =>
          LET all == Pages(pcm, now).gaps
              b == IF tb.on THEN Credit(tb, now) ELSE tb
              first == {s \in all : tb.on =>
                           Cardinality({x \in all : SeqLe(x, s)}) <= b.tokens}
              f == ConstructNack(all, b).fields
          IN  f # <<>> => Decoded(f) = {s % RtpMod : s \in first}
      ]_grVars

\* The policer: the bucket is never overdrawn or overfull; and as long as the
\* clock is not set back, no more repairs are asked for than the burst and what
\* the bucket earned since the start.
PolicerBounds ==
    tb.on =>
        /\ tb.tokens \in 0 .. TokenBurst
        /\ jumps = 0 => drained <= TokenBurst + now \div TokenPeriod
=============================================================================
