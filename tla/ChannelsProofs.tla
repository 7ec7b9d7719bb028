--------------------------- MODULE ChannelsProofs ---------------------------
(***************************************************************************)
(* Proofs about tuners, channels, identifiers and graphs (Channels), for   *)
(* any number of tuners and channels, any size of the identifier table and *)
(* any number of BYEs.                                                     *)
(***************************************************************************)
EXTENDS Channels, FiniteSetTheorems, FunctionTheorems, SequenceTheorems,
        TLAPS

-----------------------------------------------------------------------------
(***************************************************************************)
(* What each function does to the fields of the state.                     *)
(***************************************************************************)
Fields == {"tuner", "chan", "seq", "ptr", "free", "graphs", "map", "poll", "rccs"}
Rec(s) == DOMAIN s = Fields

Is(s, tuner, chan, seq, ptr, free, graphs, map, poll, rccs) ==
    /\ Rec(s)
    /\ s.tuner = tuner /\ s.chan = chan /\ s.seq = seq /\ s.ptr = ptr
    /\ s.free = free /\ s.graphs = graphs /\ s.map = map /\ s.poll = poll
    /\ s.rccs = rccs

\* A channel, also one whose setup is not complete.
AnyChannel ==
    [id : Ids, tuners : SUBSET Tuners, rcc : BOOLEAN, aborted : BOOLEAN,
     repair : BOOLEAN, byes : Int, shutdown : BOOLEAN, sent : Int]
Chanful(s) == Rec(s) /\ s.chan \in [Chans -> AnyChannel \cup {None}]

Unmapped(s, c) == [t \in Tuners |-> IF s.map[t] = c THEN None ELSE s.map[t]]
NextSeq(q) == (q + 1) % SeqMod
Counts(ch) == ch.rcc = TRUE /\ ch.aborted = FALSE
OneLess(ch, n) == IF Counts(ch) THEN (n - 1) % RccMod ELSE n

\* What is left of a channel when its graph and identifier are gone.
Ended(ch) ==
    [ch EXCEPT !.byes = IF ch.repair THEN ch.byes - 1 ELSE ch.byes,
               !.sent = IF ch.repair THEN 1 ELSE 0,
               !.repair = FALSE, !.aborted = TRUE]

\* The identifier of channel c is deleted and its graph destroyed; v is what is
\* left of it.
IsDeletion(r, s, c, v) ==
    LET i == s.chan[c].id[1]
    IN  Is(r, s.tuner, [s.chan EXCEPT ![c] = v],
           [s.seq EXCEPT ![i] = NextSeq(s.seq[i])], [s.ptr EXCEPT ![i] = None],
           Append(s.free, i), s.graphs \ {c}, Unmapped(s, c), s.poll,
           OneLess(s.chan[c], s.rccs))

LEMMA DeinitMultibyeIs ==
    ASSUME NEW s, Rec(s), NEW c
    PROVE  Is(DeinitMultibye(s, c), s.tuner,
              [s.chan EXCEPT
                ![c].byes = IF s.chan[c].repair THEN s.chan[c].byes - 1
                            ELSE s.chan[c].byes,
                ![c].sent = IF s.chan[c].repair THEN 1 ELSE 0,
                ![c].repair = FALSE, ![c].aborted = TRUE],
              s.seq, s.ptr, s.free, s.graphs \ {c}, Unmapped(s, c), s.poll,
              s.rccs)
<1> DEFINE g == GraphDestroy(s, c)
<1>1. Is(g, s.tuner, s.chan, s.seq, s.ptr, s.free, s.graphs \ {c},
         Unmapped(s, c), s.poll, s.rccs)
  BY DEF GraphDestroy, Is, Rec, Fields, Unmapped
<1>2. DeinitMultibye(s, c) =
        [g EXCEPT
           !.chan[c].byes = IF s.chan[c].repair THEN @ - 1 ELSE @,
           !.chan[c].sent = IF s.chan[c].repair THEN 1 ELSE 0,
           !.chan[c].repair = FALSE, !.chan[c].aborted = TRUE]
  BY DEF DeinitMultibye
<1> HIDE DEF g
<1> QED
  BY <1>1, <1>2 DEF Is, Rec, Fields

LEMMA DeinitMultibyeEnds ==
    ASSUME NEW s, Rec(s), NEW c \in Chans, s.chan = [d \in Chans |-> s.chan[d]]
    PROVE  Is(DeinitMultibye(s, c), s.tuner,
              [s.chan EXCEPT ![c] = Ended(s.chan[c])],
              s.seq, s.ptr, s.free, s.graphs \ {c}, Unmapped(s, c), s.poll,
              s.rccs)
<1> DEFINE b == IF s.chan[c].repair THEN s.chan[c].byes - 1 ELSE s.chan[c].byes
           n == IF s.chan[c].repair THEN 1 ELSE 0
<1>1. [s.chan EXCEPT ![c].byes = b, ![c].sent = n, ![c].repair = FALSE,
                     ![c].aborted = TRUE]
      = [s.chan EXCEPT ![c] = [s.chan[c] EXCEPT !.byes = b, !.sent = n,
                                   !.repair = FALSE, !.aborted = TRUE]]
  OBVIOUS
<1>2. Ended(s.chan[c]) = [s.chan[c] EXCEPT !.byes = b, !.sent = n,
                                   !.repair = FALSE, !.aborted = TRUE]
  BY DEF Ended
<1> QED
  BY DeinitMultibyeIs, <1>1, <1>2 DEF Is

LEMMA IdDeleteIs ==
    ASSUME NEW s, Rec(s), NEW id, id # None, ChanOf(s, id) # None
    PROVE  Is(IdDelete(s, id), s.tuner, s.chan,
              [s.seq EXCEPT ![id[1]] = NextSeq(s.seq[id[1]])],
              [s.ptr EXCEPT ![id[1]] = None], Append(s.free, id[1]),
              s.graphs, s.map, s.poll, s.rccs)
  BY DEF IdDelete, Is, Rec, Fields, NextSeq

LEMMA EndedIs ==
    ASSUME NEW ch \in AnyChannel
    PROVE  /\ Ended(ch) \in AnyChannel
           /\ Ended(ch).id = ch.id /\ Ended(ch).tuners = ch.tuners
           /\ Ended(ch).rcc = ch.rcc /\ Ended(ch).aborted = TRUE
           /\ Ended(ch).shutdown = ch.shutdown
           /\ Ended(ch).byes \in {ch.byes, ch.byes - 1}
           /\ Ended(ch).sent \in {0, 1}
           /\ Ended(ch).sent + Ended(ch).byes = ch.byes
<1> DEFINE b == IF ch.repair THEN ch.byes - 1 ELSE ch.byes
           n == IF ch.repair THEN 1 ELSE 0
<1>1. Ended(ch) = [ch EXCEPT !.byes = b, !.sent = n, !.repair = FALSE,
                             !.aborted = TRUE]
  BY DEF Ended
<1>2. ch.byes \in Int /\ ch.repair \in BOOLEAN
  BY DEF AnyChannel
<1>3. b \in {ch.byes, ch.byes - 1} /\ n \in {0, 1} /\ n + b = ch.byes
      /\ b \in Int /\ n \in Int
  BY <1>2
<1> HIDE DEF b, n
<1>4. /\ Ended(ch).byes = b /\ Ended(ch).sent = n
      /\ Ended(ch).id = ch.id /\ Ended(ch).tuners = ch.tuners
      /\ Ended(ch).rcc = ch.rcc /\ Ended(ch).aborted = TRUE
      /\ Ended(ch).shutdown = ch.shutdown
  BY <1>1 DEF AnyChannel
<1>5. Ended(ch) \in AnyChannel
  BY <1>1, <1>3 DEF AnyChannel
<1> QED
  BY <1>3, <1>4, <1>5

\* The channel is gone or, unless that is final, in shutdown.
IsDestroyed(r, s, c, final) ==
    \E v \in {None, [Ended(s.chan[c]) EXCEPT !.shutdown = TRUE]} :
        IsDeletion(r, s, c, v) /\ (final = TRUE => v = None)

\* vqec_chan_destroy of a channel that is not in shutdown.
LEMMA DestroyIs ==
    ASSUME NEW s, Chanful(s), NEW c \in Chans, s.chan[c] # None,
           ~s.chan[c].shutdown, ChanOf(s, s.chan[c].id) = c,
           NEW final, NEW timer
    PROVE  IsDestroyed(Destroy(s, c, final, timer), s, c, final)
<1> DEFINE ch == s.chan[c]
           r == IF ch.rcc /\ ~ch.aborted
                THEN [s EXCEPT !.rccs = (@ - 1) % RccMod] ELSE s
           m == DeinitMultibye(r, c)
           d == IdDelete(m, ch.id)
           e == Ended(ch)
<1>1. ch \in AnyChannel /\ None \notin Chans
  BY ChannelsAssumption DEF Chanful
<1>2. Is(r, s.tuner, s.chan, s.seq, s.ptr, s.free, s.graphs, s.map, s.poll,
         OneLess(ch, s.rccs))
  BY <1>1 DEF Is, Rec, Fields, OneLess, Counts, Chanful, AnyChannel
<1>3. s.chan = [x \in Chans |-> s.chan[x]]
  BY DEF Chanful
<1>4. Is(m, s.tuner, [s.chan EXCEPT ![c] = e], s.seq, s.ptr, s.free,
         s.graphs \ {c}, Unmapped(s, c), s.poll, OneLess(ch, s.rccs))
  <2> HIDE DEF r
  <2> QED
    BY <1>2, <1>3, DeinitMultibyeEnds DEF Is, Unmapped
<1>5. ch.id # None /\ ChanOf(m, ch.id) # None
  <2>1. ch.id \in Ids /\ None \notin Ids
    BY <1>1, ChannelsAssumption DEF AnyChannel
  <2>2. m.seq = s.seq /\ m.ptr = s.ptr
    BY <1>4 DEF Is
  <2> HIDE DEF m
  <2>3. ChanOf(m, ch.id) = ChanOf(s, ch.id)
    BY <2>2 DEF ChanOf
  <2> QED
    BY <1>1, <2>1, <2>3
<1>6. Is(d, s.tuner, [s.chan EXCEPT ![c] = e],
         [s.seq EXCEPT ![ch.id[1]] = NextSeq(s.seq[ch.id[1]])],
         [s.ptr EXCEPT ![ch.id[1]] = None], Append(s.free, ch.id[1]),
         s.graphs \ {c}, Unmapped(s, c), s.poll, OneLess(ch, s.rccs))
  <2> HIDE DEF m, ch, e
  <2>1. Rec(m)
    BY <1>4 DEF Is
  <2>2. Is(d, m.tuner, m.chan,
           [m.seq EXCEPT ![ch.id[1]] = NextSeq(m.seq[ch.id[1]])],
           [m.ptr EXCEPT ![ch.id[1]] = None], Append(m.free, ch.id[1]),
           m.graphs, m.map, m.poll, m.rccs)
    BY <2>1, <1>5, IdDeleteIs
  <2> HIDE DEF d
  <2> QED
    BY <1>4, <2>2 DEF Is
<1>7. d.chan[c] = e
  BY <1>3, <1>6 DEF Is
<1>8. Destroy(s, c, final, timer) =
        IF /\ ~final /\ timer /\ (c \in ErChans \/ ch.rcc)
           /\ d.chan[c].byes >= 1
        THEN [d EXCEPT !.chan[c].shutdown = TRUE]
        ELSE DeinitFinal(d, c)
  BY DEF Destroy
<1>9. IsDeletion(DeinitFinal(d, c), s, c, None)
  <2> HIDE DEF d, e
  <2>1. [[s.chan EXCEPT ![c] = e] EXCEPT ![c] = None]
          = [s.chan EXCEPT ![c] = None]
    BY <1>3
  <2> QED
    BY <1>6, <2>1 DEF IsDeletion, Is, Rec, Fields, DeinitFinal
<1>10. IsDeletion([d EXCEPT !.chan[c].shutdown = TRUE], s, c,
                  [e EXCEPT !.shutdown = TRUE])
  <2> HIDE DEF d, e
  <2>1. [[s.chan EXCEPT ![c] = e] EXCEPT ![c].shutdown = TRUE]
          = [s.chan EXCEPT ![c] = [e EXCEPT !.shutdown = TRUE]]
    BY <1>3
  <2> QED
    BY <1>6, <2>1 DEF IsDeletion, Is, Rec, Fields
<1> HIDE DEF d
<1>11. CASE /\ ~final /\ timer /\ (c \in ErChans \/ ch.rcc)
            /\ d.chan[c].byes >= 1
  <2>1. IsDeletion(Destroy(s, c, final, timer), s, c, [e EXCEPT !.shutdown = TRUE])
    BY <1>8, <1>10, <1>11
  <2> QED
    BY <2>1, <1>11 DEF IsDestroyed
<1>12. CASE ~(/\ ~final /\ timer /\ (c \in ErChans \/ ch.rcc)
              /\ d.chan[c].byes >= 1)
  BY <1>8, <1>9, <1>12 DEF IsDestroyed
<1> QED
  BY <1>11, <1>12

-----------------------------------------------------------------------------
(***************************************************************************)
(* The invariant: of the state before and after every call and, with the   *)
(* channel in X, between the functions of one call.  The channel in X was  *)
(* allocated by vqec_chan_get_chanid and not yet bound.                    *)
(***************************************************************************)
\* A channel that has its identifier.
Live(s, c) == s.chan[c] # None /\ s.chan[c].shutdown = FALSE
BoundTo(s, t, c) == s.chan[c] # None /\ t \in s.chan[c].tuners

Typed(s) ==
    /\ Rec(s)
    /\ s.tuner \in [Tuners -> Tuner \cup {None}]
    /\ s.chan \in [Chans -> Channel \cup {None}]
    /\ s.seq \in [Slots -> 0 .. SeqMod - 1]
    /\ s.ptr \in [Slots -> Chans \cup {None}]
    /\ s.free \in Seq(Slots)
    /\ s.graphs \subseteq Chans
    /\ s.map \in [Tuners -> Chans \cup {None}]
    /\ s.poll \in BOOLEAN
    /\ s.rccs \in 0 .. RccMod - 1

\* A live channel and its slot point at each other.
IdsMatch(s) ==
    /\ \A c \in Chans : Live(s, c) =>
          LET id == s.chan[c].id IN s.ptr[id[1]] = c /\ s.seq[id[1]] = id[2]
    /\ \A i \in Slots : s.ptr[i] # None =>
          Live(s, s.ptr[i]) /\ s.chan[s.ptr[i]].id[1] = i

\* The queue of free slots has each slot without a channel once.
In(i, f) == \E j \in 1 .. Len(f) : f[j] = i
Distinct(f) == \A j, k \in 1 .. Len(f) : f[j] = f[k] => j = k
FreeMatches(s) ==
    /\ Distinct(s.free)
    /\ \A i \in Slots : In(i, s.free) <=> s.ptr[i] = None

\* A tuner and its channel agree.
TunersMatch(s) ==
    /\ \A t \in Tuners : s.tuner[t] # None /\ s.tuner[t].chanid # None =>
          \E c \in Chans : BoundTo(s, t, c)
    /\ \A t \in Tuners, c \in Chans : BoundTo(s, t, c) =>
          /\ s.chan[c].shutdown = FALSE
          /\ s.tuner[t] # None /\ s.tuner[t].chanid = s.chan[c].id

\* A channel has tuners or is in shutdown; only the one in X has neither.
NotIdle(s, X) ==
    /\ X \subseteq Chans
    /\ \A c \in Chans \ X : s.chan[c] # None =>
          (s.chan[c].shutdown = TRUE <=> s.chan[c].tuners = {})
    /\ \A c \in X : /\ Live(s, c) /\ s.chan[c].tuners = {}
                    /\ s.chan[c].rcc = FALSE /\ s.chan[c].repair = FALSE
                    /\ s.chan[c].aborted = FALSE /\ s.chan[c].byes = 0
                    /\ s.chan[c].sent = 0

\* The BYEs that are missing and those that were sent are num_byes.
ByesMatch(s, X) ==
    \A c \in Chans \ X : s.chan[c] # None =>
        IF s.chan[c].shutdown = TRUE
        THEN /\ s.chan[c].byes >= 1 /\ s.chan[c].aborted = TRUE
             /\ s.chan[c].sent + s.chan[c].byes = NumByes
        ELSE s.chan[c].byes = NumByes

\* The dataplane has the graph of every channel with tuners, and their map.
GraphsMatch(s) ==
    /\ \A c \in Chans : c \in s.graphs <=> s.chan[c] # None /\ s.chan[c].tuners # {}
    /\ \A t \in Tuners, c \in Chans : s.map[t] = c <=> BoundTo(s, t, c)

Polled(s) == \A c \in Chans : s.chan[c] # None => s.poll = TRUE

Rccs(s) == {c \in Chans : s.chan[c] # None /\ Counts(s.chan[c])}

\* Unless a bind may fail before its rapid change is counted.
RccsMatch(s) ==
    RccFailures = FALSE => /\ s.rccs = Cardinality(Rccs(s))
                           /\ MaxRccs # 0 => s.rccs <= MaxRccs

Good(s, X) ==
    /\ Typed(s) /\ IdsMatch(s) /\ FreeMatches(s) /\ TunersMatch(s)
    /\ NotIdle(s, X) /\ ByesMatch(s, X) /\ GraphsMatch(s) /\ Polled(s)
    /\ RccsMatch(s)

-----------------------------------------------------------------------------
(***************************************************************************)
(* The queue of free slots.                                                *)
(***************************************************************************)
LEMMA TailLosesHead ==
    ASSUME NEW f \in Seq(Slots), Distinct(f), f # <<>>
    PROVE  /\ Head(f) \in Slots /\ In(Head(f), f)
           /\ Tail(f) \in Seq(Slots) /\ Distinct(Tail(f))
           /\ \A i \in Slots : In(i, Tail(f)) <=> In(i, f) /\ i # Head(f)
<1>1. /\ Len(f) \in Nat /\ Len(f) >= 1 /\ Head(f) = f[1]
      /\ \A j \in 1 .. Len(f) : f[j] \in Slots
  BY ElementOfSeq, LenProperties, EmptySeq
<1>2. /\ Tail(f) \in Seq(Slots) /\ Len(Tail(f)) = Len(f) - 1
      /\ \A j \in 1 .. Len(f) - 1 : Tail(f)[j] = f[j + 1]
  BY HeadTailProperties
<1>3. Distinct(Tail(f))
  BY <1>1, <1>2 DEF Distinct
<1>4. ASSUME NEW i \in Slots, In(i, Tail(f))
      PROVE  In(i, f) /\ i # Head(f)
  <2>1. PICK j \in 1 .. Len(f) - 1 : f[j + 1] = i
    BY <1>2, <1>4 DEF In
  <2>2. j + 1 \in 1 .. Len(f) /\ j + 1 # 1 /\ 1 \in 1 .. Len(f)
    BY <1>1
  <2> QED
    BY <1>1, <2>1, <2>2 DEF In, Distinct
<1>5. ASSUME NEW i \in Slots, In(i, f), i # Head(f)
      PROVE  In(i, Tail(f))
  <2>1. PICK j \in 1 .. Len(f) : f[j] = i
    BY <1>5 DEF In
  <2>2. j - 1 \in 1 .. Len(f) - 1 /\ (j - 1) + 1 = j
    BY <1>1, <1>5, <2>1
  <2>3. Tail(f)[j - 1] = i
    BY <1>2, <2>1, <2>2
  <2> QED
    BY <1>2, <2>2, <2>3 DEF In
<1> QED
  BY <1>1, <1>2, <1>3, <1>4, <1>5 DEF In

LEMMA AppendAddsSlot ==
    ASSUME NEW f \in Seq(Slots), Distinct(f), NEW i \in Slots, ~In(i, f)
    PROVE  /\ Append(f, i) \in Seq(Slots) /\ Distinct(Append(f, i))
           /\ Append(f, i) # <<>>
           /\ \A k \in Slots : In(k, Append(f, i)) <=> In(k, f) \/ k = i
<1>1. /\ Append(f, i) \in Seq(Slots) /\ Len(Append(f, i)) = Len(f) + 1
      /\ Append(f, i)[Len(f) + 1] = i /\ Len(f) \in Nat
      /\ \A j \in 1 .. Len(f) : Append(f, i)[j] = f[j]
  BY AppendProperties, LenProperties
<1>2. Distinct(Append(f, i))
  BY <1>1 DEF Distinct, In
<1>3. Append(f, i) # <<>>
  BY <1>1, EmptySeq, LenProperties
<1>4. \A k \in Slots : In(k, Append(f, i)) <=> In(k, f) \/ k = i
  BY <1>1 DEF In
<1> QED
  BY <1>1, <1>2, <1>3, <1>4

-----------------------------------------------------------------------------
(***************************************************************************)
(* An identifier is deleted, or allocated.                                 *)
(***************************************************************************)
LEMMA ChannelsConstants ==
    /\ None \notin Chans /\ None \notin Ids /\ None \notin Tuner
    /\ None \notin Channel /\ None \notin Message
    /\ SeqMod \in Nat /\ SeqMod >= 2 /\ RccMod \in Nat /\ NumByes \in Nat
    /\ NumByes >= 2 /\ MaxChannels \in Nat /\ MaxChannels < RccMod
    /\ Cardinality(Tuners) < MaxChannels /\ IsFiniteSet(Tuners)
    /\ IsFiniteSet(Chans) /\ MaxRccs \in Nat /\ MaxRccs < RccMod
  BY ChannelsAssumption

LEMMA SlotOf ==
    ASSUME NEW id \in Ids
    PROVE  id[1] \in Slots /\ id[2] \in 0 .. SeqMod - 1 /\ id = <<id[1], id[2]>>
  BY DEF Ids

LEMMA NextSeqType ==
    ASSUME NEW q \in 0 .. SeqMod - 1
    PROVE  NextSeq(q) \in 0 .. SeqMod - 1 /\ NextSeq(q) # q
<1>1. SeqMod \in Nat /\ SeqMod >= 2
  BY ChannelsConstants
<1>2. (q + 1) % SeqMod = IF q + 1 = SeqMod THEN 0 ELSE q + 1
  BY <1>1
<1> QED
  BY <1>1, <1>2 DEF NextSeq

LEMMA LiveId ==
    ASSUME NEW s, Typed(s), IdsMatch(s), NEW c \in Chans, Live(s, c)
    PROVE  /\ s.chan[c] \in Channel
           /\ s.chan[c].id \in Ids /\ s.chan[c].id # None
           /\ s.chan[c].id[1] \in Slots
           /\ s.ptr[s.chan[c].id[1]] = c
           /\ s.seq[s.chan[c].id[1]] = s.chan[c].id[2]
           /\ s.chan[c].id = <<s.chan[c].id[1], s.seq[s.chan[c].id[1]]>>
           /\ ChanOf(s, s.chan[c].id) = c
<1>1. s.chan[c] \in Channel
  BY DEF Typed, Live
<1>2. s.chan[c].id \in Ids
  BY <1>1 DEF Channel
<1>3. s.chan[c].id # None
  BY <1>2, ChannelsConstants
<1>4. /\ s.ptr[s.chan[c].id[1]] = c
      /\ s.seq[s.chan[c].id[1]] = s.chan[c].id[2]
  BY DEF IdsMatch
<1>5. ChanOf(s, s.chan[c].id) = c
  BY <1>3, <1>4 DEF ChanOf
<1> HIDE DEF Live
<1> QED
  BY <1>1, <1>2, <1>3, <1>4, <1>5, SlotOf

\* After id_delete of the channel's identifier.
LEMMA IdDeleted ==
    ASSUME NEW s, Typed(s), IdsMatch(s), FreeMatches(s), NEW c \in Chans,
           Live(s, c), NEW v, v = None \/ v.shutdown = TRUE,
           NEW i, i = s.chan[c].id[1],
           NEW r, r.chan = [s.chan EXCEPT ![c] = v],
           r.seq = [s.seq EXCEPT ![i] = NextSeq(s.seq[i])],
           r.ptr = [s.ptr EXCEPT ![i] = None], r.free = Append(s.free, i)
    PROVE  /\ IdsMatch(r) /\ FreeMatches(r)
           /\ r.seq \in [Slots -> 0 .. SeqMod - 1]
           /\ r.ptr \in [Slots -> Chans \cup {None}]
           /\ r.free \in Seq(Slots)
<1>1. /\ i \in Slots /\ s.ptr[i] = c /\ c # None
      /\ s.seq \in [Slots -> 0 .. SeqMod - 1]
      /\ s.ptr \in [Slots -> Chans \cup {None}]
      /\ s.free \in Seq(Slots) /\ s.chan \in [Chans -> Channel \cup {None}]
  <2>1. i \in Slots /\ s.ptr[i] = c
    BY LiveId
  <2>2. c # None
    BY ChannelsConstants
  <2> QED
    BY <2>1, <2>2 DEF Typed
<1>2. \A d \in Chans : Live(s, d) /\ d # c => s.chan[d].id[1] # i
  <2>1. \A d \in Chans : Live(s, d) => s.ptr[s.chan[d].id[1]] = d
    BY DEF IdsMatch
  <2> QED
    BY <1>1, <2>1
<1>3. \A d \in Chans : Live(r, d) <=> Live(s, d) /\ d # c
  BY <1>1 DEF Live
<1>4. IdsMatch(r)
  <2>1. ASSUME NEW d \in Chans, Live(r, d)
        PROVE  LET id == r.chan[d].id
               IN  r.ptr[id[1]] = d /\ r.seq[id[1]] = id[2]
    <3>1. Live(s, d) /\ d # c /\ r.chan[d] = s.chan[d]
      BY <1>1, <1>3, <2>1
    <3>2. s.chan[d].id[1] \in Slots /\ s.chan[d].id[1] # i
      BY <1>2, <3>1, LiveId
    <3> QED
      BY <1>1, <3>1, <3>2 DEF IdsMatch
  <2>2. ASSUME NEW k \in Slots, r.ptr[k] # None
        PROVE  Live(r, r.ptr[k]) /\ r.chan[r.ptr[k]].id[1] = k
    <3>1. k # i /\ r.ptr[k] = s.ptr[k] /\ s.ptr[k] \in Chans
      BY <1>1, <2>2
    <3>2. Live(s, s.ptr[k]) /\ s.chan[s.ptr[k]].id[1] = k
      BY <3>1, <2>2 DEF IdsMatch
    <3>3. s.ptr[k] # c
      BY <3>1, <3>2
    <3> QED
      BY <1>1, <1>3, <3>1, <3>2, <3>3
  <2> QED
    BY <2>1, <2>2 DEF IdsMatch
<1>5. ~In(i, s.free) /\ Distinct(s.free)
  BY <1>1 DEF FreeMatches
<1>6. /\ r.free \in Seq(Slots) /\ Distinct(r.free)
      /\ \A k \in Slots : In(k, r.free) <=> In(k, s.free) \/ k = i
  BY <1>1, <1>5, AppendAddsSlot
<1>7. FreeMatches(r)
  BY <1>1, <1>6 DEF FreeMatches
<1>8. NextSeq(s.seq[i]) \in 0 .. SeqMod - 1
  BY <1>1, NextSeqType
<1>9. r.seq \in [Slots -> 0 .. SeqMod - 1]
  BY <1>1, <1>8
<1>10. r.ptr \in [Slots -> Chans \cup {None}]
  BY <1>1
<1> QED
  BY ONLY <1>4, <1>6, <1>7, <1>9, <1>10

\* id_get for a channel that was not there.
Allocates(s, r, c, v) ==
    LET i == Head(s.free)
    IN  /\ s.free # <<>> /\ ~Live(s, c)
        /\ v \in Channel /\ v.shutdown = FALSE /\ v.id = <<i, s.seq[i]>>
        /\ r.chan = [s.chan EXCEPT ![c] = v] /\ r.seq = s.seq
        /\ r.ptr = [s.ptr EXCEPT ![i] = c] /\ r.free = Tail(s.free)

LEMMA IdAllocated ==
    ASSUME NEW s, Typed(s), IdsMatch(s), FreeMatches(s), NEW c \in Chans,
           NEW r, NEW v, Allocates(s, r, c, v)
    PROVE  /\ IdsMatch(r) /\ FreeMatches(r)
           /\ r.ptr \in [Slots -> Chans \cup {None}]
           /\ r.free \in Seq(Slots)
<1> DEFINE i == Head(s.free)
<1>0. /\ s.free # <<>> /\ ~Live(s, c)
      /\ v \in Channel /\ v.shutdown = FALSE /\ v.id = <<i, s.seq[i]>>
      /\ r.chan = [s.chan EXCEPT ![c] = v] /\ r.seq = s.seq
      /\ r.ptr = [s.ptr EXCEPT ![i] = c] /\ r.free = Tail(s.free)
  BY DEF Allocates
<1>1. /\ s.seq \in [Slots -> 0 .. SeqMod - 1] /\ c # None /\ None \notin Channel
      /\ s.ptr \in [Slots -> Chans \cup {None}]
      /\ s.free \in Seq(Slots) /\ s.chan \in [Chans -> Channel \cup {None}]
  BY ChannelsConstants DEF Typed
<1>2. /\ i \in Slots /\ In(i, s.free) /\ r.free \in Seq(Slots) /\ Distinct(r.free)
      /\ \A k \in Slots : In(k, r.free) <=> In(k, s.free) /\ k # i
  BY <1>0, <1>1, TailLosesHead DEF FreeMatches
<1> HIDE DEF i
<1>3. s.ptr[i] = None
  BY <1>2 DEF FreeMatches
<1>4. FreeMatches(r)
  BY <1>0, <1>1, <1>2 DEF FreeMatches
<1>5. v # None /\ v.id[1] = i /\ v.id[2] = s.seq[i] /\ r.chan[c] = v
  BY <1>0, <1>1
<1>6. \A d \in Chans : Live(r, d) <=> Live(s, d) \/ d = c
  BY <1>0, <1>1, <1>5 DEF Live
<1>7. IdsMatch(r)
  <2>1. ASSUME NEW d \in Chans, Live(r, d)
        PROVE  LET id == r.chan[d].id
               IN  r.ptr[id[1]] = d /\ r.seq[id[1]] = id[2]
    <3>1. CASE d = c
      BY <1>0, <1>1, <1>2, <1>5, <3>1
    <3>2. CASE d # c
      <4>1. Live(s, d) /\ r.chan[d] = s.chan[d]
        BY <1>0, <1>1, <1>6, <2>1, <3>2
      <4>2. s.chan[d].id[1] \in Slots /\ s.ptr[s.chan[d].id[1]] = d /\ d # None
        BY <4>1, LiveId, ChannelsConstants
      <4>3. s.chan[d].id[1] # i
        BY <1>3, <4>2
      <4> QED
        BY <1>0, <1>1, <4>1, <4>2, <4>3 DEF IdsMatch
    <3> QED
      BY <3>1, <3>2
  <2>2. ASSUME NEW k \in Slots, r.ptr[k] # None
        PROVE  Live(r, r.ptr[k]) /\ r.chan[r.ptr[k]].id[1] = k
    <3>1. CASE k = i
      BY <1>0, <1>1, <1>2, <1>5, <1>6, <3>1
    <3>2. CASE k # i
      <4>1. r.ptr[k] = s.ptr[k] /\ s.ptr[k] \in Chans
        BY <1>0, <1>1, <2>2, <3>2
      <4>2. Live(s, s.ptr[k]) /\ s.chan[s.ptr[k]].id[1] = k
        BY <4>1, <2>2 DEF IdsMatch
      <4>3. s.ptr[k] # c
        BY <1>0, <4>2
      <4> QED
        BY <1>0, <1>1, <1>6, <4>1, <4>2, <4>3
    <3> QED
      BY <3>1, <3>2
  <2> QED
    BY <2>1, <2>2 DEF IdsMatch
<1> QED
  BY <1>0, <1>1, <1>2, <1>4, <1>7

-----------------------------------------------------------------------------
(***************************************************************************)
(* The number of rapid channel changes.                                    *)
(***************************************************************************)
LiveChans(s) == {c \in Chans : Live(s, c)}

\* No two channels have the same slot.
LEMMA LiveChansBound ==
    ASSUME NEW s, Typed(s), IdsMatch(s)
    PROVE  /\ IsFiniteSet(LiveChans(s))
           /\ Cardinality(LiveChans(s)) \in Nat
           /\ Cardinality(LiveChans(s)) <= MaxChannels
<1> DEFINE f == [c \in LiveChans(s) |-> s.chan[c].id[1]]
<1>1. IsFiniteSet(Slots) /\ Cardinality(Slots) = MaxChannels
  BY FS_Interval, ChannelsConstants DEF Slots
<1>2. f \in [LiveChans(s) -> Slots]
  BY LiveId DEF LiveChans
<1>3. ASSUME NEW c \in LiveChans(s), NEW d \in LiveChans(s), f[c] = f[d]
      PROVE  c = d
  <2>1. s.ptr[s.chan[c].id[1]] = c /\ s.ptr[s.chan[d].id[1]] = d
    BY DEF IdsMatch, LiveChans
  <2> QED
    BY <1>3, <2>1
<1>4. f \in Injection(LiveChans(s), Slots)
  BY <1>2, <1>3, Fun_IsInj
<1> QED
  BY <1>1, <1>4, FS_Injection, FS_CardinalityType

LEMMA RccsAreFinite ==
    ASSUME NEW s
    PROVE  IsFiniteSet(Rccs(s)) /\ Cardinality(Rccs(s)) \in Nat
  BY ChannelsConstants, FS_Subset, FS_CardinalityType DEF Rccs

\* A rapid change was aborted, or its channel is gone.
LEMMA OneRccLess ==
    ASSUME NEW s, RccsMatch(s), s.rccs \in 0 .. RccMod - 1, NEW c \in Chans,
           s.chan[c] # None,
           NEW r, r.rccs = OneLess(s.chan[c], s.rccs), Rccs(r) = Rccs(s) \ {c}
    PROVE  RccsMatch(r) /\ r.rccs \in 0 .. RccMod - 1
<1>1. RccMod \in Nat /\ RccMod > 0 /\ MaxRccs \in Nat
  BY ChannelsConstants
<1>2. Cardinality(Rccs(r)) = IF c \in Rccs(s) THEN Cardinality(Rccs(s)) - 1
                             ELSE Cardinality(Rccs(s))
  BY RccsAreFinite, FS_RemoveElement
<1>3. c \in Rccs(s) <=> Counts(s.chan[c])
  BY DEF Rccs
<1>4. Cardinality(Rccs(s)) \in Nat /\ Cardinality(Rccs(r)) \in Nat
  BY RccsAreFinite
<1>5. CASE Counts(s.chan[c])
  <2>1. r.rccs = (s.rccs - 1) % RccMod
    BY <1>5 DEF OneLess
  <2>2. r.rccs \in 0 .. RccMod - 1
    BY <1>1, <2>1
  <2>3. s.rccs >= 1 => r.rccs = s.rccs - 1
    BY <1>1, <2>1
  <2> QED
    BY <1>1, <1>2, <1>3, <1>4, <1>5, <2>2, <2>3 DEF RccsMatch
<1>6. CASE ~Counts(s.chan[c])
  BY <1>2, <1>3, <1>6 DEF RccsMatch, OneLess
<1> QED
  BY <1>5, <1>6

\* A rapid change is started.
LEMMA OneRccMore ==
    ASSUME NEW s, Typed(s), IdsMatch(s), RccsMatch(s),
           \A d \in Rccs(s) : Live(s, d),
           NEW c \in Chans, Live(s, c), ~Counts(s.chan[c]),
           MaxRccs = 0 \/ s.rccs < MaxRccs,
           NEW r, r.rccs = (s.rccs + 1) % RccMod, Rccs(r) = Rccs(s) \cup {c}
    PROVE  RccsMatch(r) /\ r.rccs \in 0 .. RccMod - 1
<1>1. /\ RccMod \in Nat /\ RccMod > MaxChannels /\ MaxRccs \in Nat
      /\ MaxChannels \in Nat /\ s.rccs \in 0 .. RccMod - 1
  BY ChannelsConstants DEF Typed
<1>2. r.rccs \in 0 .. RccMod - 1
  BY <1>1
<1>3. c \notin Rccs(s)
  BY DEF Rccs
<1>4. Cardinality(Rccs(r)) = Cardinality(Rccs(s)) + 1
  BY <1>3, RccsAreFinite, FS_AddElement
<1>5. Rccs(r) \subseteq LiveChans(s)
  BY DEF LiveChans, Rccs
<1>6. Cardinality(Rccs(r)) <= MaxChannels
  <2>1. /\ IsFiniteSet(LiveChans(s)) /\ Cardinality(LiveChans(s)) \in Nat
        /\ Cardinality(LiveChans(s)) <= MaxChannels
    BY LiveChansBound
  <2>2. Rccs(r) \in SUBSET LiveChans(s)
    BY <1>5
  <2>3. Cardinality(Rccs(r)) <= Cardinality(LiveChans(s))
    BY <2>1, <2>2, FS_Subset
  <2>4. Cardinality(Rccs(r)) \in Nat /\ MaxChannels \in Nat
    BY <1>1, RccsAreFinite
  <2> QED
    BY <2>1, <2>3, <2>4
<1>7. s.rccs + 1 < RccMod => r.rccs = s.rccs + 1
  BY <1>1
<1> QED
  BY <1>1, <1>2, <1>4, <1>6, <1>7, RccsAreFinite DEF RccsMatch

LEMMA SameRccs ==
    ASSUME NEW s, RccsMatch(s), NEW r, r.rccs = s.rccs, Rccs(r) = Rccs(s)
    PROVE  RccsMatch(r)
  BY DEF RccsMatch

\* A channel in shutdown has no rapid change, nor has one that is set up.
LEMMA RccsAreLive ==
    ASSUME NEW s, NEW X, Typed(s), NotIdle(s, X), ByesMatch(s, X)
    PROVE  \A d \in Rccs(s) : Live(s, d) /\ d \notin X
<1> SUFFICES ASSUME NEW d \in Rccs(s)
             PROVE  Live(s, d) /\ d \notin X
  OBVIOUS
<1>1. d \in Chans /\ s.chan[d] # None /\ Counts(s.chan[d])
  BY DEF Rccs
<1>2. d \notin X
  BY <1>1 DEF NotIdle, Counts
<1>3. s.chan[d].shutdown \in BOOLEAN
  BY <1>1 DEF Typed, Channel
<1> QED
  BY <1>1, <1>2, <1>3 DEF ByesMatch, Counts, Live

-----------------------------------------------------------------------------
(***************************************************************************)
(* A tuner leaves a channel.                                               *)
(***************************************************************************)
Unbound == [chanid |-> None]

LEMMA UnboundIsTuner == Unbound \in Tuner /\ Unbound # None
  BY ChannelsConstants DEF Unbound, Tuner

\* A tuner is bound to one channel.
LEMMA BoundOnce ==
    ASSUME NEW s, Typed(s), IdsMatch(s), TunersMatch(s), NEW t \in Tuners,
           NEW c \in Chans, NEW d \in Chans, BoundTo(s, t, c), BoundTo(s, t, d)
    PROVE  c = d
<1>1. Live(s, c) /\ Live(s, d) /\ s.chan[c].id = s.chan[d].id
  BY DEF TunersMatch, BoundTo, Live
<1>2. s.ptr[s.chan[c].id[1]] = c /\ s.ptr[s.chan[d].id[1]] = d
  BY <1>1 DEF IdsMatch
<1> QED
  BY <1>1, <1>2

\* The parts that identifiers and slots have in the invariant depend on which
\* channels are live, and on their identifiers, alone.
LEMMA IdsStay ==
    ASSUME NEW s, Typed(s), IdsMatch(s), FreeMatches(s),
           NEW r, r.seq = s.seq, r.ptr = s.ptr, r.free = s.free,
           \A c \in Chans : Live(r, c) <=> Live(s, c),
           \A c \in Chans : Live(s, c) => r.chan[c].id = s.chan[c].id
    PROVE  IdsMatch(r) /\ FreeMatches(r)
<1>1. FreeMatches(r)
  BY DEF FreeMatches
<1>2. s.ptr \in [Slots -> Chans \cup {None}]
  BY DEF Typed
<1>3. \A c \in Chans : Live(r, c) =>
          LET id == r.chan[c].id IN r.ptr[id[1]] = c /\ r.seq[id[1]] = id[2]
  BY DEF IdsMatch
<1>4. \A i \in Slots : r.ptr[i] # None =>
          Live(r, r.ptr[i]) /\ r.chan[r.ptr[i]].id[1] = i
  BY <1>2 DEF IdsMatch
<1> QED
  BY <1>1, <1>3, <1>4 DEF IdsMatch

\* One of several tuners leaves.
LEMMA LeaveIsGood ==
    ASSUME NEW s, NEW X, Good(s, X), NEW t \in Tuners, NEW c \in Chans,
           BoundTo(s, t, c), s.chan[c].tuners # {t},
           NEW r, Is(r, [s.tuner EXCEPT ![t] = Unbound],
                     [s.chan EXCEPT ![c].tuners = s.chan[c].tuners \ {t}],
                     s.seq, s.ptr, s.free, s.graphs, [s.map EXCEPT ![t] = None],
                     s.poll, s.rccs)
    PROVE  Good(r, X)
<1> DEFINE v == [s.chan[c] EXCEPT !.tuners = s.chan[c].tuners \ {t}]
<1>1. /\ Typed(s) /\ IdsMatch(s) /\ FreeMatches(s) /\ TunersMatch(s)
      /\ NotIdle(s, X) /\ ByesMatch(s, X) /\ GraphsMatch(s) /\ Polled(s)
      /\ RccsMatch(s)
  BY DEF Good
<1>2. /\ s.chan \in [Chans -> Channel \cup {None}] /\ s.chan[c] \in Channel
      /\ s.chan[c] # None /\ None \notin Channel /\ None \notin Chans
  BY <1>1, ChannelsConstants DEF Typed, BoundTo
<1>3. /\ v \in Channel /\ v # None /\ v.tuners = s.chan[c].tuners \ {t}
      /\ v.id = s.chan[c].id /\ v.rcc = s.chan[c].rcc
      /\ v.aborted = s.chan[c].aborted /\ v.repair = s.chan[c].repair
      /\ v.byes = s.chan[c].byes /\ v.shutdown = s.chan[c].shutdown
      /\ v.sent = s.chan[c].sent
  BY <1>2 DEF Channel
<1>4. v.tuners # {}
  BY <1>3 DEF BoundTo
<1>5. r.chan = [s.chan EXCEPT ![c] = v]
  BY <1>2 DEF Is
<1> HIDE DEF v
<1>6. r.chan[c] = v /\ \A d \in Chans : d # c => r.chan[d] = s.chan[d]
  BY <1>2, <1>5
<1>7. /\ s.tuner \in [Tuners -> Tuner \cup {None}]
      /\ s.map \in [Tuners -> Chans \cup {None}]
      /\ Unbound \in Tuner /\ Unbound # None /\ Unbound.chanid = None
  BY <1>1, UnboundIsTuner DEF Typed, Unbound
<1>8. /\ r.tuner[t] = Unbound /\ \A u \in Tuners : u # t => r.tuner[u] = s.tuner[u]
      /\ r.map[t] = None /\ \A u \in Tuners : u # t => r.map[u] = s.map[u]
      /\ r.seq = s.seq /\ r.ptr = s.ptr /\ r.free = s.free
      /\ r.graphs = s.graphs /\ r.poll = s.poll /\ r.rccs = s.rccs /\ Rec(r)
  BY <1>7 DEF Is
<1>9. c \notin X
  BY <1>1 DEF NotIdle, BoundTo
<1>10. Typed(r)
  <2>1. r.tuner \in [Tuners -> Tuner \cup {None}]
    BY <1>7 DEF Is
  <2>2. r.chan \in [Chans -> Channel \cup {None}]
    BY <1>2, <1>3, <1>5
  <2>3. r.map \in [Tuners -> Chans \cup {None}]
    BY <1>7 DEF Is
  <2> QED
    BY <1>1, <1>8, <2>1, <2>2, <2>3 DEF Typed
<1>11. \A d \in Chans : Live(r, d) <=> Live(s, d)
  BY <1>2, <1>3, <1>6 DEF Live
<1>12. \A d \in Chans : Live(s, d) => r.chan[d].id = s.chan[d].id
  BY <1>3, <1>6
<1>13. IdsMatch(r) /\ FreeMatches(r)
  BY <1>1, <1>8, <1>11, <1>12, IdsStay
<1>14. \A u \in Tuners, d \in Chans : BoundTo(r, u, d) <=> BoundTo(s, u, d) /\ u # t
  <2>1. \A d \in Chans : BoundTo(s, t, d) => d = c
    BY <1>1, BoundOnce
  <2> QED
    BY <1>2, <1>3, <1>6, <2>1 DEF BoundTo
<1>15. TunersMatch(r)
  BY <1>1, <1>3, <1>6, <1>7, <1>8, <1>14 DEF TunersMatch
<1>16. NotIdle(r, X)
  <2>1. s.chan[c].tuners # {}
    BY DEF BoundTo
  <2>2. \A d \in Chans \ X : r.chan[d] # None =>
          (r.chan[d].shutdown = TRUE <=> r.chan[d].tuners = {})
    BY <1>1, <1>2, <1>3, <1>4, <1>6, <1>9, <2>1 DEF NotIdle
  <2>3. X \subseteq Chans
    BY <1>1 DEF NotIdle
  <2> QED
    BY <1>1, <1>6, <1>9, <1>11, <2>2, <2>3 DEF NotIdle
<1>17. ByesMatch(r, X)
  BY <1>1, <1>2, <1>3, <1>6 DEF ByesMatch
<1>18. GraphsMatch(r)
  BY <1>1, <1>2, <1>3, <1>4, <1>6, <1>8, <1>14 DEF GraphsMatch, BoundTo
<1>19. Polled(r)
  BY <1>1, <1>2, <1>6, <1>8 DEF Polled
<1>20. Rccs(r) = Rccs(s)
  BY <1>2, <1>3, <1>6 DEF Rccs, Counts
<1>21. RccsMatch(r)
  BY <1>1, <1>8, <1>20, SameRccs
<1> QED
  BY <1>10, <1>13, <1>15, <1>16, <1>17, <1>18, <1>19, <1>21 DEF Good

\* What the last tuner may leave: nothing, or a channel in shutdown.
Remains(v) ==
    \/ v = None
    \/ /\ v \in Channel /\ v.shutdown = TRUE /\ v.tuners = {}
       /\ v.aborted = TRUE /\ v.byes >= 1 /\ v.sent + v.byes = NumByes

\* The last tuner leaves.
LEMMA LastIsGood ==
    ASSUME NEW s, NEW X, Good(s, X), NEW t \in Tuners, NEW c \in Chans,
           BoundTo(s, t, c), s.chan[c].tuners = {t},
           NEW v, Remains(v), NEW i, i = s.chan[c].id[1],
           NEW r, Is(r, [s.tuner EXCEPT ![t] = Unbound],
                     [s.chan EXCEPT ![c] = v],
                     [s.seq EXCEPT ![i] = NextSeq(s.seq[i])],
                     [s.ptr EXCEPT ![i] = None], Append(s.free, i),
                     s.graphs \ {c}, [s.map EXCEPT ![t] = None], s.poll,
                     OneLess(s.chan[c], s.rccs))
    PROVE  Good(r, X)
<1>1. /\ Typed(s) /\ IdsMatch(s) /\ FreeMatches(s) /\ TunersMatch(s)
      /\ NotIdle(s, X) /\ ByesMatch(s, X) /\ GraphsMatch(s) /\ Polled(s)
      /\ RccsMatch(s)
  BY DEF Good
<1>2. /\ s.chan \in [Chans -> Channel \cup {None}] /\ s.chan[c] \in Channel
      /\ s.chan[c] # None /\ None \notin Channel /\ None \notin Chans
  BY <1>1, ChannelsConstants DEF Typed, BoundTo
<1>3. Live(s, c)
  BY <1>1 DEF TunersMatch, BoundTo, Live
<1>4. r.chan[c] = v /\ \A d \in Chans : d # c => r.chan[d] = s.chan[d]
  BY <1>2 DEF Is
<1>5. /\ s.tuner \in [Tuners -> Tuner \cup {None}]
      /\ s.map \in [Tuners -> Chans \cup {None}]
      /\ Unbound \in Tuner /\ Unbound # None /\ Unbound.chanid = None
  BY <1>1, UnboundIsTuner DEF Typed, Unbound
<1>6. /\ r.tuner[t] = Unbound /\ \A u \in Tuners : u # t => r.tuner[u] = s.tuner[u]
      /\ r.map[t] = None /\ \A u \in Tuners : u # t => r.map[u] = s.map[u]
      /\ r.graphs = s.graphs \ {c} /\ r.poll = s.poll /\ Rec(r)
      /\ r.rccs = OneLess(s.chan[c], s.rccs)
  BY <1>5 DEF Is
<1>7. c \notin X
  BY <1>1 DEF NotIdle, BoundTo
<1>8. v = None \/ v.shutdown = TRUE
  BY DEF Remains
<1>9. /\ IdsMatch(r) /\ FreeMatches(r)
      /\ r.seq \in [Slots -> 0 .. SeqMod - 1]
      /\ r.ptr \in [Slots -> Chans \cup {None}]
      /\ r.free \in Seq(Slots)
  <2>1. /\ r.chan = [s.chan EXCEPT ![c] = v] /\ r.free = Append(s.free, i)
        /\ r.seq = [s.seq EXCEPT ![i] = NextSeq(s.seq[i])]
        /\ r.ptr = [s.ptr EXCEPT ![i] = None]
    BY DEF Is
  <2> QED
    BY <1>1, <1>3, <1>8, <2>1, IdDeleted
<1>10. \A u \in Tuners, d \in Chans : BoundTo(r, u, d) <=> BoundTo(s, u, d) /\ u # t
  <2>1. \A d \in Chans : BoundTo(s, t, d) => d = c
    BY <1>1, BoundOnce
  <2>2. v # None => v.tuners = {}
    BY DEF Remains
  <2> QED
    BY <1>2, <1>4, <2>1, <2>2 DEF BoundTo
<1>11. Rccs(r) = Rccs(s) \ {c}
  BY <1>4 DEF Rccs, Counts, Remains
<1>12. RccsMatch(r) /\ r.rccs \in 0 .. RccMod - 1
  <2>1. s.rccs \in 0 .. RccMod - 1
    BY <1>1 DEF Typed
  <2> QED
    BY <1>1, <1>2, <1>6, <1>11, <2>1, OneRccLess
<1>13. Typed(r)
  <2>1. r.tuner \in [Tuners -> Tuner \cup {None}]
    BY <1>5 DEF Is
  <2>2. r.chan \in [Chans -> Channel \cup {None}]
    BY <1>2 DEF Is, Remains
  <2>3. r.map \in [Tuners -> Chans \cup {None}]
    BY <1>5 DEF Is
  <2> QED
    BY <1>1, <1>6, <1>9, <1>12, <2>1, <2>2, <2>3 DEF Typed
<1>14. TunersMatch(r)
  <2>1. \A u \in Tuners : r.tuner[u] # None /\ r.tuner[u].chanid # None =>
          \E d \in Chans : BoundTo(r, u, d)
    BY <1>1, <1>5, <1>6, <1>10 DEF TunersMatch
  <2>2. \A u \in Tuners, d \in Chans : BoundTo(r, u, d) => d # c
    BY <1>10 DEF BoundTo
  <2>3. \A u \in Tuners, d \in Chans : BoundTo(r, u, d) =>
          /\ r.chan[d].shutdown = FALSE
          /\ r.tuner[u] # None /\ r.tuner[u].chanid = r.chan[d].id
    BY <1>1, <1>4, <1>6, <1>10, <2>2 DEF TunersMatch
  <2> QED
    BY <2>1, <2>3 DEF TunersMatch
<1>15. NotIdle(r, X)
  <2>1. \A d \in Chans \ X : r.chan[d] # None =>
          (r.chan[d].shutdown = TRUE <=> r.chan[d].tuners = {})
    BY <1>1, <1>4 DEF NotIdle, Remains
  <2> QED
    BY <1>1, <1>4, <1>7, <2>1 DEF NotIdle, Live
<1>16. ByesMatch(r, X)
  BY <1>1, <1>4 DEF ByesMatch, Remains
<1>17. GraphsMatch(r)
  <2>1. \A d \in Chans : d \in r.graphs <=> r.chan[d] # None /\ r.chan[d].tuners # {}
    BY <1>1, <1>4, <1>6 DEF GraphsMatch, Remains
  <2>2. \A u \in Tuners, d \in Chans : r.map[u] = d <=> BoundTo(r, u, d)
    BY <1>1, <1>2, <1>6, <1>10 DEF GraphsMatch
  <2> QED
    BY <2>1, <2>2 DEF GraphsMatch
<1>18. Polled(r)
  BY <1>1, <1>2, <1>4, <1>6 DEF Polled
<1> QED
  BY <1>9, <1>12, <1>13, <1>14, <1>15, <1>16, <1>17, <1>18 DEF Good

-----------------------------------------------------------------------------
(***************************************************************************)
(* How a call moves the sequence numbers: those of the slots in D, whose   *)
(* channels lose their identifiers, go up by one.                          *)
(***************************************************************************)
Moves(s, r, D) ==
    /\ D \subseteq Slots
    /\ \A i \in Slots : r.seq[i] = IF i \in D THEN NextSeq(s.seq[i]) ELSE s.seq[i]
    /\ \A c \in Chans : Live(s, c) =>
          IF s.chan[c].id[1] \in D THEN ~Live(r, c)
          ELSE Live(r, c) /\ r.chan[c].id = s.chan[c].id

\* What was bound to others, or is being set up, is not touched.
Spares(s, r, t, D) ==
    \A c \in Chans : Live(s, c) /\ ~BoundTo(s, t, c) =>
        r.chan[c] = s.chan[c] /\ s.chan[c].id[1] \notin D

\* vqec_tuner_unbind_chan_internal
IsUnbind(s, X, t, r, D) ==
    /\ Good(r, X) /\ Moves(s, r, D) /\ Spares(s, r, t, D)
    /\ r.tuner = [s.tuner EXCEPT ![t] = Unbound]
    /\ \A c \in Chans : Live(r, c) => Live(s, c)

LEMMA ChannelIsAny ==
    ASSUME NEW ch \in Channel
    PROVE  ch \in AnyChannel
<1>1. NumByes \in Nat
  BY ChannelsConstants
<1>2. -1 .. NumByes \subseteq Int /\ 0 .. NumByes \subseteq Int
  BY <1>1
<1> QED
  BY <1>2 DEF Channel, AnyChannel

\* A channel that has all its BYEs before it, when it goes into shutdown.
LEMMA ShutdownRemains ==
    ASSUME NEW ch \in Channel, ch.byes = NumByes, ch.tuners = {}
    PROVE  Remains([Ended(ch) EXCEPT !.shutdown = TRUE])
<1> DEFINE e == Ended(ch)
           v == [e EXCEPT !.shutdown = TRUE]
<1>1. /\ e \in AnyChannel /\ e.id = ch.id /\ e.tuners = ch.tuners
      /\ e.rcc = ch.rcc /\ e.aborted = TRUE
      /\ e.byes \in {ch.byes, ch.byes - 1} /\ e.sent \in {0, 1}
      /\ e.sent + e.byes = ch.byes
  BY ChannelIsAny, EndedIs
<1>2. NumByes \in Nat /\ NumByes >= 2
  BY ChannelsConstants
<1> HIDE DEF e
<1>3. /\ v.id = e.id /\ v.tuners = e.tuners /\ v.rcc = e.rcc
      /\ v.aborted = e.aborted /\ v.byes = e.byes /\ v.sent = e.sent
      /\ v.shutdown = TRUE
  BY <1>1 DEF AnyChannel
<1>4. e.byes \in -1 .. NumByes /\ e.sent \in 0 .. NumByes /\ e.byes >= 1
  BY <1>1, <1>2
<1>5. v \in Channel
  BY <1>1, <1>4 DEF Channel, AnyChannel
<1> HIDE DEF v
<1>6. Remains(v)
  BY <1>1, <1>3, <1>4, <1>5 DEF Remains
<1> QED
  BY <1>6 DEF v, e

Left(s, t, c) == [s EXCEPT !.chan[c].tuners = @ \ {t}, !.map[t] = None]

IsLeft(r, s, t, c, timer) ==
    r = IF Left(s, t, c).chan[c].tuners = {}
        THEN Destroy(Left(s, t, c), c, FALSE, timer) ELSE Left(s, t, c)

\* vqec_chan_unbind
LEMMA ChanUnbindIs ==
    ASSUME NEW s, NEW id, NEW t, NEW timer, NEW c, ChanOf(s, id) = c, c # None,
           t \in s.chan[c].tuners
    PROVE  IsLeft(ChanUnbind(s, id, t, timer), s, t, c, timer)
<1> DEFINE d == ChanOf(s, id)
           w == Left(s, t, d)
<1>1. ChanUnbind(s, id, t, timer) =
        IF d = None \/ t \notin s.chan[d].tuners THEN s
        ELSE IF w.chan[d].tuners = {} THEN Destroy(w, d, FALSE, timer) ELSE w
  BY Zenon DEF ChanUnbind, Left
<1>2. d = c
  OBVIOUS
<1> HIDE DEF d
<1> QED
  BY <1>1, <1>2 DEF IsLeft

\* The last tuner of a channel leaves: vqec_chan_unbind destroys the channel.
LEMMA LastUnbind ==
    ASSUME NEW s, NEW X, Good(s, X), NEW t \in Tuners, NEW c \in Chans,
           BoundTo(s, t, c), s.chan[c].tuners = {t}, NEW timer
    PROVE  \E v : /\ Remains(v)
                  /\ LET i == s.chan[c].id[1]
                     IN  Is(UnbindInternal(s, t, timer),
                            [s.tuner EXCEPT ![t] = Unbound],
                            [s.chan EXCEPT ![c] = v],
                            [s.seq EXCEPT ![i] = NextSeq(s.seq[i])],
                            [s.ptr EXCEPT ![i] = None], Append(s.free, i),
                            s.graphs \ {c}, [s.map EXCEPT ![t] = None], s.poll,
                            OneLess(s.chan[c], s.rccs))
<1> DEFINE i == s.chan[c].id[1]
           w == [s.chan[c] EXCEPT !.tuners = {}]
           u == Left(s, t, c)
<1>1. /\ Typed(s) /\ IdsMatch(s) /\ FreeMatches(s) /\ TunersMatch(s)
      /\ NotIdle(s, X) /\ ByesMatch(s, X) /\ GraphsMatch(s) /\ Rec(s)
  BY DEF Good, Typed
<1>2. /\ s.chan \in [Chans -> Channel \cup {None}] /\ s.chan[c] \in Channel
      /\ s.chan[c] # None /\ None \notin Channel /\ None \notin Chans /\ c # None
      /\ s.map \in [Tuners -> Chans \cup {None}]
  BY <1>1, ChannelsConstants DEF Typed, BoundTo
<1>3. /\ Live(s, c) /\ s.tuner[t] # None /\ s.tuner[t].chanid = s.chan[c].id
      /\ c \notin X
  BY <1>1 DEF TunersMatch, BoundTo, Live, NotIdle
<1>4. /\ ChanOf(s, s.chan[c].id) = c /\ s.chan[c].id # None
      /\ s.ptr[i] = c /\ s.seq[i] = s.chan[c].id[2]
  BY <1>1, <1>3, LiveId
<1>5. /\ w \in Channel /\ w.tuners = {} /\ w.id = s.chan[c].id
      /\ w.byes = s.chan[c].byes /\ w.shutdown = s.chan[c].shutdown
      /\ w.rcc = s.chan[c].rcc /\ w.aborted = s.chan[c].aborted
      /\ w.repair = s.chan[c].repair
  BY <1>2 DEF Channel
<1>6. w.byes = NumByes /\ w.shutdown = FALSE /\ w # None
  BY <1>1, <1>2, <1>3, <1>5 DEF ByesMatch, Live
<1>7. Is(u, s.tuner, [s.chan EXCEPT ![c] = w], s.seq, s.ptr, s.free, s.graphs,
         [s.map EXCEPT ![t] = None], s.poll, s.rccs)
  <2>1. s.chan[c].tuners \ {t} = {}
    OBVIOUS
  <2>2. Is(u, s.tuner, [s.chan EXCEPT ![c].tuners = s.chan[c].tuners \ {t}],
           s.seq, s.ptr, s.free, s.graphs,
           [s.map EXCEPT ![t] = None], s.poll, s.rccs)
    BY <1>1 DEF Left, Is, Rec, Fields
  <2>3. [s.chan EXCEPT ![c].tuners = {}] = [s.chan EXCEPT ![c] = w]
    BY <1>2
  <2> HIDE DEF u, w
  <2> QED
    BY <2>1, <2>2, <2>3 DEF Is
<1>8. ChanUnbind(s, s.tuner[t].chanid, t, timer) =
        IF u.chan[c].tuners = {} THEN Destroy(u, c, FALSE, timer) ELSE u
  <2>1. t \in s.chan[c].tuners
    BY DEF BoundTo
  <2>2. ChanOf(s, s.tuner[t].chanid) = c
    BY <1>3, <1>4
  <2>3. IsLeft(ChanUnbind(s, s.tuner[t].chanid, t, timer), s, t, c, timer)
    BY <1>2, <2>1, <2>2, ChanUnbindIs
  <2> QED
    BY <2>3 DEF IsLeft
<1> HIDE DEF u, w
<1>9. u.chan[c] = w /\ u.chan = [s.chan EXCEPT ![c] = w]
  BY <1>2, <1>7 DEF Is
<1>10. ChanUnbind(s, s.tuner[t].chanid, t, timer) = Destroy(u, c, FALSE, timer)
  BY <1>5, <1>8, <1>9
<1>11. Chanful(u)
  <2>1. \A d \in Chans : u.chan[d] \in AnyChannel \cup {None}
    BY <1>2, <1>5, <1>9, ChannelIsAny
  <2> QED
    BY <1>2, <1>7, <1>9, <2>1 DEF Chanful, Is
<1>12. ChanOf(u, u.chan[c].id) = c
  BY <1>4, <1>5, <1>7, <1>9 DEF ChanOf, Is
<1>13. PICK v \in {None, [Ended(w) EXCEPT !.shutdown = TRUE]} :
           IsDeletion(Destroy(u, c, FALSE, timer), u, c, v)
  <2>1. u.chan[c] # None /\ ~u.chan[c].shutdown
    BY <1>6, <1>9
  <2>2. IsDestroyed(Destroy(u, c, FALSE, timer), u, c, FALSE)
    BY <2>1, <1>11, <1>12, DestroyIs
  <2> QED
    BY <2>2, <1>9 DEF IsDestroyed
<1>14. Remains(v)
  BY <1>5, <1>6, <1>13, ShutdownRemains DEF Remains
<1>15. Unmapped(u, c) = [s.map EXCEPT ![t] = None]
  <2>1. u.map = [s.map EXCEPT ![t] = None]
    BY <1>7 DEF Is
  <2>2. \A x \in Tuners : u.map[x] # c
    BY <1>1, <1>2, <2>1 DEF GraphsMatch, BoundTo
  <2>3. u.map \in [Tuners -> Chans \cup {None}]
    BY <1>2, <2>1
  <2>4. Unmapped(u, c) = u.map
    BY <2>2, <2>3 DEF Unmapped
  <2> QED
    BY <2>1, <2>4
<1>16. OneLess(w, s.rccs) = OneLess(s.chan[c], s.rccs)
  BY <1>5 DEF OneLess, Counts
<1>17. [u.chan EXCEPT ![c] = v] = [s.chan EXCEPT ![c] = v]
  BY <1>2, <1>9
<1> DEFINE d == Destroy(u, c, FALSE, timer)
<1>18. Is(d, s.tuner, [s.chan EXCEPT ![c] = v],
          [s.seq EXCEPT ![i] = NextSeq(s.seq[i])], [s.ptr EXCEPT ![i] = None],
          Append(s.free, i), s.graphs \ {c}, [s.map EXCEPT ![t] = None],
          s.poll, OneLess(s.chan[c], s.rccs))
  <2>1. u.chan[c].id[1] = i
    BY <1>5, <1>9
  <2>2. /\ u.tuner = s.tuner /\ u.seq = s.seq /\ u.ptr = s.ptr
        /\ u.free = s.free /\ u.graphs = s.graphs /\ u.poll = s.poll
        /\ u.rccs = s.rccs
    BY <1>7 DEF Is
  <2>3. IsDeletion(d, u, c, v)
    BY <1>13
  <2> HIDE DEF i, d
  <2>4. Is(d, u.tuner, [u.chan EXCEPT ![c] = v],
           [u.seq EXCEPT ![i] = NextSeq(u.seq[i])], [u.ptr EXCEPT ![i] = None],
           Append(u.free, i), u.graphs \ {c}, Unmapped(u, c), u.poll,
           OneLess(u.chan[c], u.rccs))
    BY <2>1, <2>3 DEF IsDeletion
  <2> QED
    BY <1>9, <1>15, <1>16, <1>17, <2>2, <2>4
<1>19. UnbindInternal(s, t, timer) = [d EXCEPT !.tuner[t] = Unbound]
  BY <1>3, <1>4, <1>10 DEF UnbindInternal, Unbound
<1> HIDE DEF d, i
<1>20. Is([d EXCEPT !.tuner[t] = Unbound], [s.tuner EXCEPT ![t] = Unbound],
          [s.chan EXCEPT ![c] = v],
          [s.seq EXCEPT ![i] = NextSeq(s.seq[i])], [s.ptr EXCEPT ![i] = None],
          Append(s.free, i), s.graphs \ {c}, [s.map EXCEPT ![t] = None],
          s.poll, OneLess(s.chan[c], s.rccs))
  BY <1>18 DEF Is, Rec, Fields
<1>21. Is(UnbindInternal(s, t, timer), [s.tuner EXCEPT ![t] = Unbound],
          [s.chan EXCEPT ![c] = v],
          [s.seq EXCEPT ![i] = NextSeq(s.seq[i])], [s.ptr EXCEPT ![i] = None],
          Append(s.free, i), s.graphs \ {c}, [s.map EXCEPT ![t] = None],
          s.poll, OneLess(s.chan[c], s.rccs))
  BY <1>19, <1>20
<1> QED
  BY <1>14, <1>21 DEF i

\* One of several tuners of a channel leaves.
LEMMA LeaveUnbind ==
    ASSUME NEW s, NEW X, Good(s, X), NEW t \in Tuners, NEW c \in Chans,
           BoundTo(s, t, c), s.chan[c].tuners # {t}, NEW timer
    PROVE  Is(UnbindInternal(s, t, timer),
              [s.tuner EXCEPT ![t] = Unbound],
              [s.chan EXCEPT ![c].tuners = s.chan[c].tuners \ {t}],
              s.seq, s.ptr, s.free, s.graphs, [s.map EXCEPT ![t] = None],
              s.poll, s.rccs)
<1> DEFINE u == Left(s, t, c)
<1>1. Typed(s) /\ IdsMatch(s) /\ TunersMatch(s) /\ Rec(s) /\ c # None
  BY ChannelsConstants DEF Good, Typed
<1>2. /\ s.chan \in [Chans -> Channel \cup {None}] /\ s.chan[c] \in Channel
      /\ t \in s.chan[c].tuners
  BY <1>1 DEF Typed, BoundTo
<1>3. Live(s, c) /\ s.tuner[t].chanid = s.chan[c].id
  BY <1>1 DEF TunersMatch, BoundTo, Live
<1>4. ChanOf(s, s.tuner[t].chanid) = c /\ s.tuner[t].chanid # None
  BY <1>1, <1>3, LiveId
<1>5. Is(u, s.tuner, [s.chan EXCEPT ![c].tuners = s.chan[c].tuners \ {t}],
         s.seq, s.ptr, s.free, s.graphs, [s.map EXCEPT ![t] = None], s.poll,
         s.rccs)
  BY <1>1 DEF Left, Is, Rec, Fields
<1>6. IsLeft(ChanUnbind(s, s.tuner[t].chanid, t, timer), s, t, c, timer)
  BY <1>1, <1>2, <1>4, ChanUnbindIs
<1> HIDE DEF u
<1>7. u.chan[c].tuners = s.chan[c].tuners \ {t}
  <2>1. u.chan = [s.chan EXCEPT ![c].tuners = s.chan[c].tuners \ {t}]
    BY <1>5 DEF Is
  <2> QED
    BY <1>2, <2>1 DEF Channel
<1>8. s.chan[c].tuners \ {t} # {}
  BY <1>2
<1>9. ChanUnbind(s, s.tuner[t].chanid, t, timer) = u
  BY <1>6, <1>7, <1>8 DEF IsLeft, u
<1>10. UnbindInternal(s, t, timer) = [u EXCEPT !.tuner[t] = Unbound]
  BY <1>4, <1>9 DEF UnbindInternal, Unbound
<1> QED
  BY <1>5, <1>10 DEF Is, Rec, Fields

\* vqec_tuner_unbind_chan_internal, of any tuner.
LEMMA UnbindIsGood ==
    ASSUME NEW s, NEW X, Good(s, X), NEW t \in Tuners, s.tuner[t] # None,
           NEW timer
    PROVE  \E D : IsUnbind(s, X, t, UnbindInternal(s, t, timer), D)
<1> DEFINE r == UnbindInternal(s, t, timer)
<1>1. /\ Typed(s) /\ IdsMatch(s) /\ TunersMatch(s) /\ Rec(s)
      /\ s.chan \in [Chans -> Channel \cup {None}] /\ None \notin Channel
      /\ s.tuner \in [Tuners -> Tuner \cup {None}]
      /\ s.seq \in [Slots -> 0 .. SeqMod - 1]
  BY ChannelsConstants DEF Good, Typed
<1>2. CASE s.tuner[t].chanid = None
  <2>1. r = s
    BY <1>2 DEF UnbindInternal
  <2>2. s.tuner[t] = Unbound
    <3>1. s.tuner[t] \in Tuner
      BY <1>1
    <3> QED
      BY <1>2, <3>1 DEF Tuner, Unbound
  <2>3. s.tuner = [s.tuner EXCEPT ![t] = Unbound]
    BY <1>1, <2>2
  <2>4. Moves(s, s, {}) /\ Spares(s, s, t, {})
    BY DEF Moves, Spares
  <2>5. IsUnbind(s, X, t, s, {})
    BY <2>3, <2>4 DEF IsUnbind
  <2> QED
    BY <2>1, <2>5
<1>3. CASE s.tuner[t].chanid # None
  <2>1. PICK c \in Chans : BoundTo(s, t, c)
    BY <1>1, <1>3 DEF TunersMatch
  <2>2. Live(s, c)
    BY <1>1, <2>1 DEF TunersMatch, BoundTo, Live
  <2>3. CASE s.chan[c].tuners # {t}
    <3> DEFINE v == [s.chan[c] EXCEPT !.tuners = s.chan[c].tuners \ {t}]
    <3>1. Is(r, [s.tuner EXCEPT ![t] = Unbound],
             [s.chan EXCEPT ![c].tuners = s.chan[c].tuners \ {t}],
             s.seq, s.ptr, s.free, s.graphs, [s.map EXCEPT ![t] = None],
             s.poll, s.rccs)
      BY <2>1, <2>3, LeaveUnbind
    <3> HIDE DEF r
    <3>2. Good(r, X)
      BY <2>1, <2>3, <3>1, LeaveIsGood
    <3>3. /\ v \in Channel /\ v.id = s.chan[c].id
          /\ v.shutdown = s.chan[c].shutdown
      BY <1>1, <2>2 DEF Channel, Live
    <3>4. r.chan = [s.chan EXCEPT ![c] = v]
      BY <1>1, <3>1 DEF Is
    <3> HIDE DEF v
    <3>5. \A d \in Chans : /\ Live(r, d) <=> Live(s, d)
                           /\ Live(s, d) => r.chan[d].id = s.chan[d].id
                           /\ d # c => r.chan[d] = s.chan[d]
      BY <1>1, <2>2, <3>3, <3>4 DEF Live
    <3>6. Moves(s, r, {})
      BY <3>1, <3>5 DEF Moves, Is
    <3>7. Spares(s, r, t, {})
      BY <2>1, <3>5 DEF Spares
    <3>8. IsUnbind(s, X, t, r, {})
      BY <3>1, <3>2, <3>5, <3>6, <3>7 DEF IsUnbind, Is
    <3> QED
      BY <3>8 DEF r
  <2>4. CASE s.chan[c].tuners = {t}
    <3> DEFINE i == s.chan[c].id[1]
    <3>1. PICK v : /\ Remains(v)
                   /\ Is(r, [s.tuner EXCEPT ![t] = Unbound],
                         [s.chan EXCEPT ![c] = v],
                         [s.seq EXCEPT ![i] = NextSeq(s.seq[i])],
                         [s.ptr EXCEPT ![i] = None], Append(s.free, i),
                         s.graphs \ {c}, [s.map EXCEPT ![t] = None], s.poll,
                         OneLess(s.chan[c], s.rccs))
      BY <2>1, <2>4, LastUnbind
    <3> HIDE DEF r
    <3>2. Good(r, X)
      BY <2>1, <2>4, <3>1, LastIsGood
    <3>3. i \in Slots
      BY <1>1, <2>2, LiveId
    <3>4. \A d \in Chans : Live(s, d) /\ d # c => s.chan[d].id[1] # i
      <4>1. \A d \in Chans : Live(s, d) => s.ptr[s.chan[d].id[1]] = d
        BY <1>1 DEF IdsMatch
      <4> QED
        BY <2>2, <4>1
    <3>5. \A d \in Chans : /\ Live(r, d) <=> Live(s, d) /\ d # c
                           /\ d # c => r.chan[d] = s.chan[d]
      BY <1>1, <3>1 DEF Live, Remains, Is
    <3> HIDE DEF i
    <3>6. \A k \in Slots : r.seq[k] = IF k \in {i} THEN NextSeq(s.seq[k])
                                      ELSE s.seq[k]
      BY <1>1, <3>1 DEF Is
    <3>7. Moves(s, r, {i})
      BY <3>3, <3>4, <3>5, <3>6 DEF Moves, i
    <3>8. Spares(s, r, t, {i})
      BY <2>1, <3>4, <3>5 DEF Spares
    <3>9. IsUnbind(s, X, t, r, {i})
      BY <3>1, <3>2, <3>5, <3>7, <3>8 DEF IsUnbind, Is
    <3> QED
      BY <3>9 DEF r
  <2> QED
    BY <2>3, <2>4
<1> QED
  BY <1>2, <1>3

-----------------------------------------------------------------------------
(***************************************************************************)
(* A channel is allocated, or found.                                       *)
(***************************************************************************)
\* The channel is new: in the slot at the head of the queue, with nothing
\* bound.
IsFresh(g, s, c) ==
    LET i == Head(s.free)
    IN  Is(g, s.tuner, [s.chan EXCEPT ![c] = NewChan(<<i, s.seq[i]>>)], s.seq,
           [s.ptr EXCEPT ![i] = c], Tail(s.free), s.graphs, s.map, TRUE, s.rccs)

\* vqec_chan_destroy of a channel in shutdown.
LEMMA DestroyShutdown ==
    ASSUME NEW s, NEW c, s.chan[c].shutdown, NEW final, NEW timer
    PROVE  Destroy(s, c, final, timer) = DeinitFinal(s, c)
  BY Zenon DEF Destroy

LEMMA NewChanWithId ==
    ASSUME NEW id
    PROVE  [NewChan(None) EXCEPT !.id = id] = NewChan(id)
<1> DEFINE n == NewChan(None)
           r == [n EXCEPT !.id = id]
<1>1. DOMAIN n = {"id", "tuners", "rcc", "aborted", "repair", "byes",
                  "shutdown", "sent"}
  BY DEF NewChan
<1>2. /\ n.tuners = {} /\ n.rcc = FALSE /\ n.aborted = FALSE /\ n.repair = FALSE
      /\ n.byes = 0 /\ n.shutdown = FALSE /\ n.sent = 0
  BY DEF NewChan
<1> HIDE DEF n
<1>3. r = [id |-> id, tuners |-> n.tuners, rcc |-> n.rcc, aborted |-> n.aborted,
           repair |-> n.repair, byes |-> n.byes, shutdown |-> n.shutdown,
           sent |-> n.sent]
  BY <1>1
<1>4. r = [id |-> id, tuners |-> {}, rcc |-> FALSE, aborted |-> FALSE,
           repair |-> FALSE, byes |-> 0, shutdown |-> FALSE, sent |-> 0]
  BY <1>2, <1>3
<1> QED
  BY <1>4 DEF NewChan, n

LEMMA GetChanidIs ==
    ASSUME NEW s, Good(s, {}), NEW c \in Chans, ~Found(s, c)
    PROVE  IsFresh(GetChanid(s, c), s, c)
<1> DEFINE d == IF s.chan[c] = None THEN s ELSE Destroy(s, c, TRUE, FALSE)
           n == [d EXCEPT !.chan[c] = NewChan(None)]
           m == IdGet(n, c)
           p == m.poll \/ \A x \in Chans : d.chan[x] = None
           i == Head(s.free)
<1>1. /\ Rec(s) /\ s.chan \in [Chans -> Channel \cup {None}] /\ s.poll \in BOOLEAN
      /\ \A x \in Chans : s.chan[x] # None => s.poll = TRUE
  BY DEF Good, Typed, Polled
<1>3. \E v : Is(d, s.tuner, [s.chan EXCEPT ![c] = v], s.seq, s.ptr, s.free,
                s.graphs, s.map, s.poll, s.rccs)
  <2>1. CASE s.chan[c] = None
    <3>1. s.chan = [s.chan EXCEPT ![c] = None]
      BY <1>1, <2>1
    <3> QED
      BY <1>1, <2>1, <3>1 DEF Is
  <2>2. CASE s.chan[c] # None
    <3>1. s.chan[c].shutdown
      BY <2>2 DEF Found
    <3>2. d = DeinitFinal(s, c)
      BY <2>2, <3>1, DestroyShutdown
    <3>3. Is(DeinitFinal(s, c), s.tuner, [s.chan EXCEPT ![c] = None], s.seq,
             s.ptr, s.free, s.graphs, s.map, s.poll, s.rccs)
      BY <1>1 DEF DeinitFinal, Is, Rec, Fields
    <3> QED
      BY <3>2, <3>3
  <2> QED
    BY <2>1, <2>2
<1>4. PICK v : Is(d, s.tuner, [s.chan EXCEPT ![c] = v], s.seq, s.ptr, s.free,
                  s.graphs, s.map, s.poll, s.rccs)
  BY <1>3
<1>5. GetChanid(s, c) = [m EXCEPT !.poll = p]
  BY DEF GetChanid
<1> HIDE DEF d
<1>6. Is(n, s.tuner, [s.chan EXCEPT ![c] = NewChan(None)], s.seq, s.ptr, s.free,
         s.graphs, s.map, s.poll, s.rccs)
  <2>1. [[s.chan EXCEPT ![c] = v] EXCEPT ![c] = NewChan(None)]
          = [s.chan EXCEPT ![c] = NewChan(None)]
    BY <1>1
  <2>2. Is(n, s.tuner, [d.chan EXCEPT ![c] = NewChan(None)], s.seq, s.ptr, s.free,
           s.graphs, s.map, s.poll, s.rccs)
    BY <1>4 DEF Is, Rec, Fields
  <2> QED
    BY <1>4, <2>1, <2>2 DEF Is
<1> HIDE DEF n
<1>7. Is(m, s.tuner, [s.chan EXCEPT ![c] = NewChan(<<i, s.seq[i]>>)], s.seq,
         [s.ptr EXCEPT ![i] = c], Tail(s.free), s.graphs, s.map, s.poll, s.rccs)
  <2>1. m = [n EXCEPT !.free = Tail(n.free), !.ptr[i] = c,
                      !.chan[c].id = <<i, n.seq[i]>>]
    BY <1>6 DEF IdGet, Is
  <2>2. Is(m, s.tuner, [n.chan EXCEPT ![c].id = <<i, s.seq[i]>>], s.seq,
           [s.ptr EXCEPT ![i] = c], Tail(s.free), s.graphs, s.map, s.poll, s.rccs)
    BY <1>6, <2>1 DEF Is, Rec, Fields
  <2>3. [[s.chan EXCEPT ![c] = NewChan(None)] EXCEPT ![c].id = <<i, s.seq[i]>>]
          = [s.chan EXCEPT ![c] = [NewChan(None) EXCEPT !.id = <<i, s.seq[i]>>]]
    BY <1>1
  <2>4. [NewChan(None) EXCEPT !.id = <<i, s.seq[i]>>] = NewChan(<<i, s.seq[i]>>)
    BY NewChanWithId
  <2>5. n.chan = [s.chan EXCEPT ![c] = NewChan(None)]
    BY <1>6 DEF Is
  <2> QED
    BY <2>2, <2>3, <2>4, <2>5 DEF Is
<1> HIDE DEF m
<1>8. p = TRUE
  <2>1. CASE \E x \in Chans : s.chan[x] # None
    <3>1. m.poll = TRUE
      BY <1>1, <1>7, <2>1 DEF Is
    <3> QED
      BY <3>1
  <2>2. CASE \A x \in Chans : s.chan[x] = None
    <3>1. d = s
      BY <2>2 DEF d
    <3> QED
      BY <2>2, <3>1
  <2> QED
    BY <2>1, <2>2
<1> QED
  BY <1>5, <1>7, <1>8 DEF IsFresh, Is, Rec, Fields

LEMMA NewChanIs ==
    ASSUME NEW id \in Ids
    PROVE  LET v == NewChan(id)
           IN  /\ v \in Channel /\ v # None /\ v.id = id /\ v.tuners = {}
               /\ v.rcc = FALSE /\ v.aborted = FALSE /\ v.repair = FALSE
               /\ v.byes = 0 /\ v.shutdown = FALSE /\ v.sent = 0
<1>1. NumByes \in Nat /\ None \notin Channel
  BY ChannelsConstants
<1>2. 0 \in -1 .. NumByes /\ 0 \in 0 .. NumByes
  BY <1>1
<1>3. NewChan(id) \in Channel
  BY <1>2 DEF NewChan, Channel
<1> QED
  BY <1>1, <1>3 DEF NewChan

\* vqec_chan_get_chanid of a channel that is not there.
LEMMA FreshIsGood ==
    ASSUME NEW s, Good(s, {}), NEW c \in Chans, ~Found(s, c), s.free # <<>>,
           NEW g, IsFresh(g, s, c)
    PROVE  /\ Good(g, {c}) /\ Moves(s, g, {})
           /\ g.chan = [s.chan EXCEPT ![c] = NewChan(g.chan[c].id)]
           /\ g.tuner = s.tuner /\ ~Live(s, c)
<1> DEFINE i == Head(s.free)
           v == NewChan(<<i, s.seq[i]>>)
<1>1. /\ Typed(s) /\ IdsMatch(s) /\ FreeMatches(s) /\ TunersMatch(s)
      /\ NotIdle(s, {}) /\ ByesMatch(s, {}) /\ GraphsMatch(s) /\ Polled(s)
      /\ RccsMatch(s)
  BY DEF Good
<1>2. /\ s.chan \in [Chans -> Channel \cup {None}] /\ None \notin Channel
      /\ s.seq \in [Slots -> 0 .. SeqMod - 1] /\ s.free \in Seq(Slots)
  BY <1>1, ChannelsConstants DEF Typed
<1>3. i \in Slots /\ <<i, s.seq[i]>> \in Ids
  <2>1. i \in Slots
    BY <1>1, <1>2, TailLosesHead DEF FreeMatches
  <2> QED
    BY <1>2, <2>1 DEF Ids
<1>4. ~Live(s, c)
  BY DEF Live, Found
<1>5. /\ v \in Channel /\ v # None /\ v.id = <<i, s.seq[i]>> /\ v.tuners = {}
      /\ v.rcc = FALSE /\ v.aborted = FALSE /\ v.repair = FALSE
      /\ v.byes = 0 /\ v.shutdown = FALSE /\ v.sent = 0
  BY <1>3, NewChanIs
<1>6. Is(g, s.tuner, [s.chan EXCEPT ![c] = v], s.seq, [s.ptr EXCEPT ![i] = c],
         Tail(s.free), s.graphs, s.map, TRUE, s.rccs)
  BY DEF IsFresh
<1>7. g.chan = [s.chan EXCEPT ![c] = NewChan(g.chan[c].id)]
  BY <1>2, <1>5, <1>6 DEF Is
<1> HIDE DEF v, i
<1>8. /\ g.chan[c] = v /\ \A d \in Chans : d # c => g.chan[d] = s.chan[d]
      /\ g.tuner = s.tuner /\ g.seq = s.seq /\ g.graphs = s.graphs
      /\ g.map = s.map /\ g.poll = TRUE /\ g.rccs = s.rccs /\ Rec(g)
      /\ g.chan = [s.chan EXCEPT ![c] = v] /\ g.free = Tail(s.free)
      /\ g.ptr = [s.ptr EXCEPT ![i] = c]
  BY <1>2, <1>6 DEF Is
<1>9. /\ IdsMatch(g) /\ FreeMatches(g)
      /\ g.ptr \in [Slots -> Chans \cup {None}]
      /\ g.free \in Seq(Slots)
  <2>1. i = Head(s.free)
    BY DEF i
  <2>2. Typed(s) /\ IdsMatch(s) /\ FreeMatches(s)
    BY <1>1
  <2>3. v \in Channel /\ v.shutdown = FALSE /\ v.id = <<i, s.seq[i]>>
    BY <1>5
  <2>4. /\ g.chan = [s.chan EXCEPT ![c] = v] /\ g.seq = s.seq
        /\ g.ptr = [s.ptr EXCEPT ![i] = c] /\ g.free = Tail(s.free)
    BY <1>8
  <2>5. Allocates(s, g, c, v)
    BY <1>4, <2>1, <2>3, <2>4 DEF Allocates
  <2> QED
    BY <2>2, <2>5, IdAllocated
<1>10. Typed(g)
  BY <1>1, <1>2, <1>5, <1>8, <1>9 DEF Typed
<1>11. \A u \in Tuners, d \in Chans : BoundTo(g, u, d) <=> BoundTo(s, u, d)
  <2>1. \A u \in Tuners : ~BoundTo(s, u, c)
    BY <1>1, <1>4 DEF TunersMatch, BoundTo, Live
  <2> QED
    BY <1>5, <1>8, <2>1 DEF BoundTo
<1>12. TunersMatch(g)
  <2>1. \A u \in Tuners, d \in Chans : BoundTo(g, u, d) => d # c
    BY <1>5, <1>8 DEF BoundTo
  <2> QED
    BY <1>1, <1>8, <1>11, <2>1 DEF TunersMatch
<1>13. NotIdle(g, {c})
  BY <1>1, <1>5, <1>8 DEF NotIdle, Live
<1>14. ByesMatch(g, {c})
  BY <1>1, <1>8 DEF ByesMatch
<1>15. GraphsMatch(g)
  <2>1. c \notin s.graphs
    <3>1. s.chan[c] # None => s.chan[c].shutdown = TRUE
      BY <1>2, <1>4 DEF Live, Channel
    <3> QED
      BY <1>1, <3>1 DEF GraphsMatch, NotIdle
  <2>2. \A d \in Chans : d \in g.graphs <=> g.chan[d] # None /\ g.chan[d].tuners # {}
    BY <1>1, <1>5, <1>8, <2>1 DEF GraphsMatch
  <2> QED
    BY <1>1, <1>8, <1>11, <2>2 DEF GraphsMatch
<1>16. Polled(g)
  BY <1>8 DEF Polled
<1>17. Rccs(g) = Rccs(s)
  <2>1. c \notin Rccs(s)
    BY <1>1, <1>4, RccsAreLive
  <2>2. ~Counts(g.chan[c])
    BY <1>5, <1>8 DEF Counts
  <2> QED
    BY <1>8, <2>1, <2>2 DEF Rccs
<1>18. RccsMatch(g)
  BY <1>1, <1>8, <1>17, SameRccs
<1>19. Good(g, {c})
  BY <1>9, <1>10, <1>12, <1>13, <1>14, <1>15, <1>16, <1>18 DEF Good
<1>20. Moves(s, g, {})
  BY <1>4, <1>8 DEF Moves, Live
<1> QED
  BY <1>4, <1>7, <1>8, <1>19, <1>20

-----------------------------------------------------------------------------
(***************************************************************************)
(* A bind fails: the channel that was allocated for it goes.               *)
(***************************************************************************)
\* c is gone, and nothing else has changed but the count, which is n.
IsDropped(r, s, c, n) ==
    LET i == s.chan[c].id[1]
    IN  Is(r, s.tuner, [s.chan EXCEPT ![c] = None],
           [s.seq EXCEPT ![i] = NextSeq(s.seq[i])], [s.ptr EXCEPT ![i] = None],
           Append(s.free, i), s.graphs, s.map, s.poll, n)

LEMMA DropIsGood ==
    ASSUME NEW s, NEW c \in Chans, Good(s, {c}), NEW n \in 0 .. RccMod - 1,
           RccFailures = FALSE => n = s.rccs, NEW r, IsDropped(r, s, c, n)
    PROVE  /\ Good(r, {}) /\ Moves(s, r, {s.chan[c].id[1]})
           /\ r.tuner = s.tuner
           /\ \A d \in Chans : Live(r, d) => Live(s, d)
<1> DEFINE i == s.chan[c].id[1]
<1>1. /\ Typed(s) /\ IdsMatch(s) /\ FreeMatches(s) /\ TunersMatch(s)
      /\ NotIdle(s, {c}) /\ ByesMatch(s, {c}) /\ GraphsMatch(s) /\ Polled(s)
      /\ RccsMatch(s)
  BY DEF Good
<1>2. /\ s.chan \in [Chans -> Channel \cup {None}] /\ None \notin Channel
      /\ s.seq \in [Slots -> 0 .. SeqMod - 1] /\ c # None
  BY <1>1, ChannelsConstants DEF Typed
<1>3. Live(s, c) /\ s.chan[c].tuners = {} /\ ~Counts(s.chan[c])
  BY <1>1 DEF NotIdle, Counts
<1>4. /\ r.chan = [s.chan EXCEPT ![c] = None]
      /\ r.seq = [s.seq EXCEPT ![i] = NextSeq(s.seq[i])]
      /\ r.ptr = [s.ptr EXCEPT ![i] = None] /\ r.free = Append(s.free, i)
      /\ r.tuner = s.tuner /\ r.graphs = s.graphs /\ r.map = s.map
      /\ r.poll = s.poll /\ r.rccs = n /\ Rec(r)
  BY DEF IsDropped, Is
<1>5. r.chan[c] = None /\ \A d \in Chans : d # c => r.chan[d] = s.chan[d]
  BY <1>2, <1>4
<1>6. i \in Slots
  BY <1>1, <1>3, LiveId
<1>7. /\ IdsMatch(r) /\ FreeMatches(r)
      /\ r.seq \in [Slots -> 0 .. SeqMod - 1]
      /\ r.ptr \in [Slots -> Chans \cup {None}]
      /\ r.free \in Seq(Slots)
  <2> DEFINE v == None
  <2>1. r.chan = [s.chan EXCEPT ![c] = v]
    BY <1>4
  <2>2. v = None \/ v.shutdown = TRUE
    OBVIOUS
  <2> HIDE DEF v
  <2> QED
    BY <1>1, <1>3, <1>4, <2>1, <2>2, IdDeleted
<1>8. \A u \in Tuners, d \in Chans : BoundTo(r, u, d) <=> BoundTo(s, u, d)
  BY <1>3, <1>5 DEF BoundTo
<1>9. Typed(r)
  BY <1>1, <1>2, <1>4, <1>7 DEF Typed
<1>10. TunersMatch(r)
  <2>1. \A u \in Tuners, d \in Chans : BoundTo(r, u, d) => d # c
    BY <1>5 DEF BoundTo
  <2> QED
    BY <1>1, <1>4, <1>5, <1>8, <2>1 DEF TunersMatch
<1>11. NotIdle(r, {})
  BY <1>1, <1>5 DEF NotIdle
<1>12. ByesMatch(r, {})
  BY <1>1, <1>5 DEF ByesMatch
<1>13. GraphsMatch(r)
  <2>1. \A d \in Chans : d \in r.graphs <=> r.chan[d] # None /\ r.chan[d].tuners # {}
    BY <1>1, <1>3, <1>4, <1>5 DEF GraphsMatch
  <2> QED
    BY <1>1, <1>4, <1>8, <2>1 DEF GraphsMatch
<1>14. Polled(r)
  BY <1>1, <1>4, <1>5 DEF Polled
<1>15. Rccs(r) = Rccs(s)
  BY <1>3, <1>5 DEF Rccs
<1>16. RccsMatch(r)
  BY <1>1, <1>4, <1>15 DEF RccsMatch
<1>17. \A d \in Chans : Live(r, d) <=> Live(s, d) /\ d # c
  BY <1>5 DEF Live
<1>18. \A d \in Chans : Live(s, d) /\ d # c => s.chan[d].id[1] # i
  <2>1. \A d \in Chans : Live(s, d) => s.ptr[s.chan[d].id[1]] = d
    BY <1>1 DEF IdsMatch
  <2> QED
    BY <1>3, <2>1
<1>19. \A k \in Slots : r.seq[k] = IF k \in {i} THEN NextSeq(s.seq[k]) ELSE s.seq[k]
  BY <1>2, <1>4
<1>20. Moves(s, r, {i})
  BY <1>5, <1>6, <1>17, <1>18, <1>19 DEF Moves
<1> QED
  BY <1>4, <1>7, <1>9, <1>10, <1>11, <1>12, <1>13, <1>14, <1>16, <1>17, <1>20
  DEF Good

\* A bind that got to state x, where graph and map may be set up and the count
\* is n, is undone by vqec_chan_destroy.
IsSetUp(x, s, c, t, w, n) ==
    \E graphs \in {s.graphs, s.graphs \cup {c}},
       map \in {s.map, [s.map EXCEPT ![t] = c]} :
        Is(x, s.tuner, [s.chan EXCEPT ![c] = w], s.seq, s.ptr, s.free, graphs,
           map, s.poll, n)

LEMMA SetupIsUndone ==
    ASSUME NEW s, NEW c \in Chans, Good(s, {c}), NEW t \in Tuners,
           s.tuner[t] = Unbound, NEW w \in Channel, w.id = s.chan[c].id,
           w.shutdown = FALSE, NEW n, NEW x, IsSetUp(x, s, c, t, w, n)
    PROVE  IsDropped(Destroy(x, c, TRUE, FALSE), s, c, OneLess(w, n))
<1> DEFINE d == Destroy(x, c, TRUE, FALSE)
<1>1. /\ Typed(s) /\ IdsMatch(s) /\ TunersMatch(s) /\ NotIdle(s, {c})
      /\ GraphsMatch(s)
  BY DEF Good
<1>2. /\ s.chan \in [Chans -> Channel \cup {None}] /\ None \notin Channel
      /\ s.map \in [Tuners -> Chans \cup {None}] /\ None \notin Chans
  BY <1>1, ChannelsConstants DEF Typed
<1>3. Live(s, c) /\ s.chan[c].tuners = {}
  BY <1>1 DEF NotIdle
<1>4. PICK graphs \in {s.graphs, s.graphs \cup {c}},
           map \in {s.map, [s.map EXCEPT ![t] = c]} :
        Is(x, s.tuner, [s.chan EXCEPT ![c] = w], s.seq, s.ptr, s.free, graphs,
           map, s.poll, n)
  BY DEF IsSetUp
<1>5. /\ x.chan[c] = w /\ x.chan = [s.chan EXCEPT ![c] = w] /\ x.seq = s.seq
      /\ x.ptr = s.ptr
  BY <1>2, <1>4 DEF Is
<1>6. Chanful(x)
  <2>1. \A e \in Chans : x.chan[e] \in AnyChannel \cup {None}
    BY <1>2, <1>5, ChannelIsAny
  <2> QED
    BY <1>2, <1>4, <1>5, <2>1 DEF Chanful, Is
<1>7. ChanOf(x, x.chan[c].id) = c
  BY <1>1, <1>3, <1>5, LiveId DEF ChanOf
<1>8. IsDestroyed(d, x, c, TRUE)
  <2>1. x.chan[c] # None /\ ~x.chan[c].shutdown
    BY <1>2, <1>5
  <2> QED
    BY <1>6, <1>7, <2>1, DestroyIs
<1>9. IsDeletion(d, x, c, None)
  BY <1>8 DEF IsDestroyed
<1> HIDE DEF d
<1>10. \A u \in Tuners : s.map[u] # c
  BY <1>1, <1>3 DEF GraphsMatch, BoundTo
<1>11. c \notin s.graphs
  BY <1>1, <1>3 DEF GraphsMatch
<1>12. s.map[t] = None
  <2>1. \A e \in Chans : ~BoundTo(s, t, e)
    <3>1. ASSUME NEW e \in Chans, BoundTo(s, t, e)
          PROVE  FALSE
      <4>1. Live(s, e) /\ s.tuner[t].chanid = s.chan[e].id
        BY <1>1, <3>1 DEF TunersMatch, BoundTo, Live
      <4>2. s.chan[e].id # None
        BY <1>1, <4>1, LiveId
      <4> QED
        BY <4>1, <4>2 DEF Unbound
    <3> QED
      BY <3>1
  <2> QED
    BY <1>1, <1>2, <2>1 DEF GraphsMatch
<1>13. Unmapped(x, c) = s.map
  <2>1. x.map = map
    BY <1>4 DEF Is
  <2>2. \A u \in Tuners : s.map[u] = IF map[u] = c THEN None ELSE map[u]
    BY <1>2, <1>10, <1>12
  <2> QED
    BY <1>2, <2>1, <2>2 DEF Unmapped
<1>14. x.graphs \ {c} = s.graphs
  BY <1>4, <1>11 DEF Is
<1>15. [x.chan EXCEPT ![c] = None] = [s.chan EXCEPT ![c] = None]
  BY <1>2, <1>5
<1>16. /\ x.chan[c].id[1] = s.chan[c].id[1] /\ x.tuner = s.tuner
       /\ x.free = s.free /\ x.poll = s.poll
       /\ OneLess(x.chan[c], x.rccs) = OneLess(w, n)
  BY <1>4, <1>5 DEF Is
<1> DEFINE i == s.chan[c].id[1]
<1> HIDE DEF i
<1>17. Is(d, x.tuner, [x.chan EXCEPT ![c] = None],
          [x.seq EXCEPT ![i] = NextSeq(x.seq[i])], [x.ptr EXCEPT ![i] = None],
          Append(x.free, i), x.graphs \ {c}, Unmapped(x, c), x.poll,
          OneLess(x.chan[c], x.rccs))
  BY <1>9, <1>16 DEF IsDeletion, i
<1>18. Is(d, s.tuner, [s.chan EXCEPT ![c] = None],
          [s.seq EXCEPT ![i] = NextSeq(s.seq[i])], [s.ptr EXCEPT ![i] = None],
          Append(s.free, i), s.graphs, s.map, s.poll, OneLess(w, n))
  BY <1>5, <1>13, <1>14, <1>15, <1>16, <1>17
<1> QED
  BY <1>18 DEF IsDropped, i, d

\* vqec_chan_put_chanid of a channel that is gone already.
LEMMA PutOfDropped ==
    ASSUME NEW s, NEW c \in Chans, Good(s, {c}), NEW n, NEW b, IsDropped(b, s, c, n)
    PROVE  PutChanid(b, s.chan[c].id) = b
<1> DEFINE id == s.chan[c].id
<1>1. Typed(s) /\ IdsMatch(s) /\ Live(s, c)
  BY DEF Good, NotIdle
<1>2. /\ id[1] \in Slots /\ s.seq[id[1]] = id[2]
      /\ s.seq \in [Slots -> 0 .. SeqMod - 1]
  BY <1>1, LiveId DEF Typed
<1>3. b.seq = [s.seq EXCEPT ![id[1]] = NextSeq(s.seq[id[1]])]
  BY DEF IsDropped, Is
<1>4. NextSeq(s.seq[id[1]]) # s.seq[id[1]]
  BY <1>2, NextSeqType
<1>5. b.seq[id[1]] # id[2]
  BY <1>2, <1>3, <1>4
<1>6. ChanOf(b, id) = None
  BY <1>5 DEF ChanOf
<1> QED
  BY <1>6 DEF PutChanid

\* vqec_chan_bind of a channel without tuners.
Ready(s, c, want) == [s EXCEPT !.chan[c].rcc = RccEnabled(s, c, want)]
Started(s, c, t, want) ==
    [Ready(s, c, want) EXCEPT
        !.graphs = @ \cup {c}, !.map[t] = c,
        !.chan[c].repair = c \in ErChans \/ RccEnabled(s, c, want),
        !.rccs = IF RccEnabled(s, c, want) THEN (@ + 1) % RccMod ELSE @]

BindsNew(s, c, t, want) ==
    /\ ChanBind(s, c, t, want, "entry") = s
    /\ ChanBind(s, c, t, want, "setup") =
          Destroy(Ready(s, c, want), c, TRUE, FALSE)
    /\ ChanBind(s, c, t, want, "started") =
          Destroy(Started(s, c, t, want), c, TRUE, FALSE)
    /\ ChanBind(s, c, t, want, "none") =
          [Started(s, c, t, want) EXCEPT !.chan[c].byes = NumByes,
                                         !.chan[c].tuners = {t}]

LEMMA ChanBindIs ==
    ASSUME NEW s, NEW c, s.chan[c].tuners = {}, NEW t, NEW want
    PROVE  BindsNew(s, c, t, want)
<1>1. ChanBind(s, c, t, want, "entry") = s
  BY DEF ChanBind
<1>2. ChanBind(s, c, t, want, "setup") =
        Destroy(Ready(s, c, want), c, TRUE, FALSE)
  BY DEF ChanBind, Ready
<1>3. ChanBind(s, c, t, want, "started") =
        Destroy(Started(s, c, t, want), c, TRUE, FALSE)
  BY DEF ChanBind, Started, Ready
<1>4. ChanBind(s, c, t, want, "none") =
        [Started(s, c, t, want) EXCEPT !.chan[c].byes = NumByes,
                                       !.chan[c].tuners = {t}]
  BY DEF ChanBind, Started, Ready
<1> QED
  BY <1>1, <1>2, <1>3, <1>4 DEF BindsNew

BindsMore(s, c, t, want) ==
    /\ \A fail \in BindFails \ {"none"} : ChanBind(s, c, t, want, fail) = s
    /\ ChanBind(s, c, t, want, "none") =
          [s EXCEPT !.map[t] = c, !.chan[c].tuners = @ \cup {t}]

LEMMA ChanBindMore ==
    ASSUME NEW s, NEW c, s.chan[c].tuners # {}, NEW t, NEW want
    PROVE  BindsMore(s, c, t, want)
<1>1. ASSUME NEW fail \in BindFails \ {"none"}
      PROVE  ChanBind(s, c, t, want, fail) = s
  BY DEF ChanBind, BindFails
<1>2. ChanBind(s, c, t, want, "none") =
                 [s EXCEPT !.map[t] = c, !.chan[c].tuners = @ \cup {t}]
  BY DEF ChanBind
<1> QED
  BY <1>1, <1>2 DEF BindsMore

\* The channel and the count after vqec_chan_bind has got to the set up or to
\* the start of the rapid change.
WithRcc(s, c, want) == [s.chan[c] EXCEPT !.rcc = RccEnabled(s, c, want)]
WithRepair(s, c, want) ==
    [WithRcc(s, c, want) EXCEPT
        !.repair = c \in ErChans \/ RccEnabled(s, c, want)]
OneMore(s, c, want) ==
    IF RccEnabled(s, c, want) THEN (s.rccs + 1) % RccMod ELSE s.rccs

SetUpFrom(w, ch, enabled) ==
    /\ w \in Channel /\ w.id = ch.id /\ w.tuners = {} /\ w.shutdown = FALSE
    /\ w.aborted = FALSE /\ (Counts(w) <=> enabled)

LEMMA SetupChannels ==
    ASSUME NEW s, NEW c \in Chans, Good(s, {c}), NEW want
    PROVE  /\ SetUpFrom(WithRcc(s, c, want), s.chan[c], RccEnabled(s, c, want))
           /\ SetUpFrom(WithRepair(s, c, want), s.chan[c], RccEnabled(s, c, want))
<1> DEFINE e == RccEnabled(s, c, want)
           p == c \in ErChans \/ e
           w == WithRcc(s, c, want)
           v == WithRepair(s, c, want)
<1>1. /\ s.chan[c] \in Channel /\ s.chan[c].tuners = {}
      /\ s.chan[c].aborted = FALSE /\ s.chan[c].shutdown = FALSE
  BY DEF Good, Typed, NotIdle, Live
<1>2. e \in BOOLEAN
  BY DEF RccEnabled
<1>3. p \in BOOLEAN
  OBVIOUS
<1>4. w = [s.chan[c] EXCEPT !.rcc = e]
  BY DEF WithRcc
<1>5. v = [w EXCEPT !.repair = p]
  BY DEF WithRepair
<1> HIDE DEF e, p, w, v
<1>6. /\ w \in Channel /\ w.id = s.chan[c].id /\ w.tuners = {} /\ w.rcc = e
      /\ w.aborted = FALSE /\ w.shutdown = FALSE
  BY <1>1, <1>2, <1>4 DEF Channel
<1>7. /\ v \in Channel /\ v.id = s.chan[c].id /\ v.tuners = {} /\ v.rcc = e
      /\ v.aborted = FALSE /\ v.shutdown = FALSE
  BY <1>3, <1>5, <1>6 DEF Channel
<1>8. SetUpFrom(w, s.chan[c], e) /\ SetUpFrom(v, s.chan[c], e)
  BY <1>2, <1>6, <1>7 DEF SetUpFrom, Counts
<1> QED
  BY <1>8 DEF w, v, e

LEMMA ReadyIs ==
    ASSUME NEW s, Rec(s), s.chan = [d \in Chans |-> s.chan[d]], NEW c \in Chans,
           NEW want
    PROVE  Is(Ready(s, c, want), s.tuner,
              [s.chan EXCEPT ![c] = WithRcc(s, c, want)], s.seq, s.ptr, s.free,
              s.graphs, s.map, s.poll, s.rccs)
<1>1. Is(Ready(s, c, want), s.tuner,
         [s.chan EXCEPT ![c].rcc = RccEnabled(s, c, want)], s.seq, s.ptr, s.free,
         s.graphs, s.map, s.poll, s.rccs)
  BY DEF Ready, Is, Rec, Fields
<1>2. [s.chan EXCEPT ![c].rcc = RccEnabled(s, c, want)]
        = [s.chan EXCEPT ![c] = WithRcc(s, c, want)]
  BY DEF WithRcc
<1> QED
  BY <1>1, <1>2

LEMMA StartedIs ==
    ASSUME NEW s, Rec(s), s.chan = [d \in Chans |-> s.chan[d]], NEW c \in Chans,
           NEW t, NEW want
    PROVE  Is(Started(s, c, t, want), s.tuner,
              [s.chan EXCEPT ![c] = WithRepair(s, c, want)], s.seq, s.ptr,
              s.free, s.graphs \cup {c}, [s.map EXCEPT ![t] = c], s.poll,
              OneMore(s, c, want))
<1> DEFINE r == Ready(s, c, want)
           x == Started(s, c, t, want)
           e == RccEnabled(s, c, want)
           p == c \in ErChans \/ e
           w == WithRcc(s, c, want)
<1>1. Is(r, s.tuner, [s.chan EXCEPT ![c] = w], s.seq, s.ptr, s.free,
         s.graphs, s.map, s.poll, s.rccs)
  BY ReadyIs
<1>2. x = [r EXCEPT !.graphs = r.graphs \cup {c}, !.map[t] = c,
                    !.chan[c].repair = p, !.rccs = OneMore(r, c, want)]
  <2>1. r.rccs = s.rccs
    BY <1>1 DEF Is
  <2>2. (IF e THEN (r.rccs + 1) % RccMod ELSE r.rccs) = OneMore(s, c, want)
    BY <2>1 DEF OneMore
  <2>3. OneMore(r, c, want) = OneMore(s, c, want)
    BY <2>1 DEF OneMore, RccEnabled
  <2>4. x = [r EXCEPT !.graphs = @ \cup {c}, !.map[t] = c,
                !.chan[c].repair = p,
                !.rccs = IF e THEN (@ + 1) % RccMod ELSE @]
    BY Zenon DEF Started
  <2> HIDE DEF r, x, e, p
  <2> QED
    BY <2>2, <2>3, <2>4
<1>3. OneMore(r, c, want) = OneMore(s, c, want)
  BY <1>1 DEF OneMore, RccEnabled, Is
<1>4. r.chan = [s.chan EXCEPT ![c] = w]
  BY <1>1 DEF Is
<1>5. WithRepair(s, c, want) = [w EXCEPT !.repair = p]
  BY DEF WithRepair
<1> HIDE DEF r, x, p, w
<1>6. Is(x, s.tuner, [r.chan EXCEPT ![c].repair = p], s.seq, s.ptr,
         s.free, s.graphs \cup {c}, [s.map EXCEPT ![t] = c], s.poll,
         OneMore(s, c, want))
  BY <1>1, <1>2, <1>3 DEF Is, Rec, Fields
<1>7. [r.chan EXCEPT ![c].repair = p] = [s.chan EXCEPT ![c] = [w EXCEPT !.repair = p]]
  BY <1>4
<1> QED
  BY <1>5, <1>6, <1>7 DEF x

\* vqec_chan_put_chanid of a channel that was allocated and not bound.
LEMMA PutIsDropped ==
    ASSUME NEW s, NEW c \in Chans, Good(s, {c})
    PROVE  IsDropped(PutChanid(s, s.chan[c].id), s, c, s.rccs)
<1> DEFINE i == s.chan[c].id[1]
           d == Destroy(s, c, TRUE, FALSE)
<1>1. /\ Typed(s) /\ IdsMatch(s) /\ NotIdle(s, {c}) /\ GraphsMatch(s)
      /\ s.chan \in [Chans -> Channel \cup {None}] /\ Rec(s)
      /\ s.chan[c] # None /\ s.chan[c].shutdown = FALSE
      /\ s.chan[c].tuners = {} /\ s.chan[c].rcc = FALSE /\ Live(s, c)
      /\ c # None /\ s.map \in [Tuners -> Chans \cup {None}]
  BY ChannelsConstants DEF Good, Typed, NotIdle, Live
<1>2. ChanOf(s, s.chan[c].id) = c
  BY <1>1, LiveId
<1>3. PutChanid(s, s.chan[c].id) = d
  BY <1>1, <1>2 DEF PutChanid
<1>4. Chanful(s)
  <2>1. \A x \in Chans : s.chan[x] \in AnyChannel \cup {None}
    BY <1>1, ChannelIsAny
  <2> QED
    BY <1>1, <2>1 DEF Chanful
<1>5. IsDestroyed(d, s, c, TRUE)
  BY <1>1, <1>2, <1>4, DestroyIs
<1>6. IsDeletion(d, s, c, None)
  BY <1>5 DEF IsDestroyed
<1>7. s.graphs \ {c} = s.graphs
  BY <1>1 DEF GraphsMatch
<1>8. Unmapped(s, c) = s.map
  <2>1. \A x \in Tuners : s.map[x] # c
    BY <1>1 DEF GraphsMatch, BoundTo
  <2> QED
    BY <1>1, <2>1 DEF Unmapped
<1>9. OneLess(s.chan[c], s.rccs) = s.rccs
  BY <1>1 DEF OneLess, Counts
<1> HIDE DEF d
<1>10. Is(d, s.tuner, [s.chan EXCEPT ![c] = None],
          [s.seq EXCEPT ![i] = NextSeq(s.seq[i])], [s.ptr EXCEPT ![i] = None],
          Append(s.free, i), s.graphs \ {c}, Unmapped(s, c), s.poll,
          OneLess(s.chan[c], s.rccs))
  BY <1>6 DEF IsDeletion
<1> QED
  BY <1>3, <1>7, <1>8, <1>9, <1>10 DEF IsDropped

\* A bind of a new channel that fails, with vqec_chan_put_chanid.
LEMMA FailIsDropped ==
    ASSUME NEW s, NEW c \in Chans, Good(s, {c}), NEW t \in Tuners,
           s.tuner[t] = Unbound, NEW want,
           NEW fail \in BindFails \ {"none"},
           fail = "setup" /\ RccEnabled(s, c, want) => RccFailures
    PROVE  \E n \in 0 .. RccMod - 1 :
              /\ RccFailures = FALSE => n = s.rccs
              /\ IsDropped(PutChanid(ChanBind(s, c, t, want, fail), s.chan[c].id),
                           s, c, n)
<1> DEFINE e == RccEnabled(s, c, want)
           id == s.chan[c].id
           b == ChanBind(s, c, t, want, fail)
<1>1. /\ Typed(s) /\ IdsMatch(s) /\ NotIdle(s, {c}) /\ Rec(s)
      /\ s.chan = [d \in Chans |-> s.chan[d]] /\ s.chan[c] \in Channel
      /\ s.chan \in [Chans -> Channel \cup {None}]
      /\ s.chan[c].tuners = {} /\ s.chan[c].rcc = FALSE
      /\ s.chan[c].shutdown = FALSE /\ Live(s, c) /\ c # None
      /\ s.rccs \in 0 .. RccMod - 1
  BY ChannelsConstants DEF Good, Typed, NotIdle, Live
<1>2. RccMod \in Nat /\ RccMod > 0
  BY ChannelsConstants
<1>3. /\ WithRcc(s, c, want) \in Channel /\ WithRcc(s, c, want).id = id
      /\ WithRcc(s, c, want).shutdown = FALSE
      /\ WithRepair(s, c, want) \in Channel /\ WithRepair(s, c, want).id = id
      /\ WithRepair(s, c, want).shutdown = FALSE
      /\ Counts(WithRcc(s, c, want)) <=> e
      /\ Counts(WithRepair(s, c, want)) <=> e
  <2>1. /\ SetUpFrom(WithRcc(s, c, want), s.chan[c], RccEnabled(s, c, want))
        /\ SetUpFrom(WithRepair(s, c, want), s.chan[c], RccEnabled(s, c, want))
    BY SetupChannels
  <2> QED
    BY <2>1 DEF SetUpFrom
<1>4. /\ ChanBind(s, c, t, want, "entry") = s
      /\ ChanBind(s, c, t, want, "setup") =
            Destroy(Ready(s, c, want), c, TRUE, FALSE)
      /\ ChanBind(s, c, t, want, "started") =
            Destroy(Started(s, c, t, want), c, TRUE, FALSE)
  <2>1. s.chan[c].tuners = {}
    BY <1>1
  <2>2. BindsNew(s, c, t, want)
    BY <2>1, ChanBindIs
  <2> QED
    BY <2>2 DEF BindsNew
<1>5. CASE fail = "entry"
  <2>1. b = s
    BY <1>4, <1>5
  <2>2. IsDropped(PutChanid(s, id), s, c, s.rccs)
    BY PutIsDropped
  <2> QED
    BY <1>1, <2>1, <2>2
<1>6. CASE fail = "setup"
  <2> DEFINE w == WithRcc(s, c, want)
             n == OneLess(w, s.rccs)
  <2>1. b = Destroy(Ready(s, c, want), c, TRUE, FALSE)
    BY <1>4, <1>6
  <2>2. IsSetUp(Ready(s, c, want), s, c, t, w, s.rccs)
    <3>1. Is(Ready(s, c, want), s.tuner, [s.chan EXCEPT ![c] = w], s.seq, s.ptr,
             s.free, s.graphs, s.map, s.poll, s.rccs)
      BY <1>1, ReadyIs
    <3> QED
      BY <3>1 DEF IsSetUp
  <2>3. IsDropped(Destroy(Ready(s, c, want), c, TRUE, FALSE), s, c, n)
    BY <1>3, <2>2, SetupIsUndone
  <2>4. PutChanid(b, id) = b
    BY <2>1, <2>3, PutOfDropped
  <2>5. n \in 0 .. RccMod - 1
    <3>1. CASE Counts(w)
      <4>1. n = (s.rccs - 1) % RccMod
        BY <3>1 DEF OneLess
      <4> HIDE DEF n
      <4> QED
        BY <1>1, <1>2, <4>1
    <3>2. CASE ~Counts(w)
      BY <1>1, <3>2 DEF OneLess
    <3> QED
      BY <3>1, <3>2
  <2>6. RccFailures = FALSE => n = s.rccs
    BY <1>3, <1>6 DEF OneLess
  <2> HIDE DEF b, n
  <2> QED
    BY <2>1, <2>3, <2>4, <2>5, <2>6 DEF b
<1>7. CASE fail = "started"
  <2> DEFINE w == WithRepair(s, c, want)
             n == OneLess(w, OneMore(s, c, want))
  <2>1. b = Destroy(Started(s, c, t, want), c, TRUE, FALSE)
    BY <1>4, <1>7
  <2>2. IsSetUp(Started(s, c, t, want), s, c, t, w, OneMore(s, c, want))
    <3>1. Is(Started(s, c, t, want), s.tuner, [s.chan EXCEPT ![c] = w], s.seq,
             s.ptr, s.free, s.graphs \cup {c}, [s.map EXCEPT ![t] = c], s.poll,
             OneMore(s, c, want))
      BY <1>1, StartedIs
    <3> QED
      BY <3>1 DEF IsSetUp
  <2>3. IsDropped(Destroy(Started(s, c, t, want), c, TRUE, FALSE), s, c, n)
    BY <1>3, <2>2, SetupIsUndone
  <2>4. PutChanid(b, id) = b
    BY <2>1, <2>3, PutOfDropped
  <2>5. n = s.rccs
    <3>1. CASE e
      <4>1. n = (((s.rccs + 1) % RccMod) - 1) % RccMod
        BY <1>3, <3>1 DEF OneLess, OneMore
      <4>2. (s.rccs + 1) % RccMod = IF s.rccs + 1 = RccMod THEN 0 ELSE s.rccs + 1
        BY <1>1, <1>2
      <4> HIDE DEF n
      <4> QED
        BY <1>1, <1>2, <4>1, <4>2
    <3>2. CASE ~e
      BY <1>3, <3>2 DEF OneLess, OneMore
    <3> QED
      BY <3>1, <3>2
  <2> HIDE DEF b, n
  <2> QED
    BY <1>1, <2>1, <2>3, <2>4, <2>5 DEF b
<1> QED
  BY <1>5, <1>6, <1>7 DEF BindFails

-----------------------------------------------------------------------------
(***************************************************************************)
(* A bind succeeds.                                                        *)
(***************************************************************************)
\* Tuner t is bound to c, which becomes v.
IsBound(r, s, t, c, v, n) ==
    /\ Is(r, [s.tuner EXCEPT ![t] = [chanid |-> s.chan[c].id]],
          [s.chan EXCEPT ![c] = v], s.seq, s.ptr, s.free, s.graphs \cup {c},
          [s.map EXCEPT ![t] = c], s.poll, n)
    /\ v \in Channel /\ v.id = s.chan[c].id /\ v.shutdown = FALSE
    /\ v.byes = NumByes /\ v.tuners = s.chan[c].tuners \cup {t}

LEMMA BoundIsGood ==
    ASSUME NEW s, NEW X, X \in SUBSET Chans, NEW c \in Chans, Good(s, X),
           X \subseteq {c}, Live(s, c), NEW t \in Tuners, s.tuner[t] = Unbound,
           NEW v, NEW n, NEW r, IsBound(r, s, t, c, v, n),
           n \in 0 .. RccMod - 1, RccsMatch(r)
    PROVE  /\ Good(r, {}) /\ Moves(s, r, {})
           /\ \A d \in Chans : Live(r, d) => Live(s, d)
<1> DEFINE id == s.chan[c].id
           b == [chanid |-> id]
<1>1. /\ Typed(s) /\ IdsMatch(s) /\ FreeMatches(s) /\ TunersMatch(s)
      /\ NotIdle(s, X) /\ ByesMatch(s, X) /\ GraphsMatch(s) /\ Polled(s)
  BY DEF Good
<1>2. /\ s.chan \in [Chans -> Channel \cup {None}] /\ None \notin Channel
      /\ s.tuner \in [Tuners -> Tuner \cup {None}] /\ None \notin Tuner
      /\ s.map \in [Tuners -> Chans \cup {None}] /\ c # None
  BY <1>1, ChannelsConstants DEF Typed
<1>3. id \in Ids /\ id # None
  BY <1>1, LiveId
<1>4. b \in Tuner /\ b # None /\ b.chanid = id
  BY <1>2, <1>3 DEF Tuner
<1>5. /\ v \in Channel /\ v # None /\ v.id = id /\ v.shutdown = FALSE
      /\ v.byes = NumByes /\ v.tuners = s.chan[c].tuners \cup {t}
      /\ v.tuners # {}
  BY <1>2 DEF IsBound
<1>6. /\ r.tuner = [s.tuner EXCEPT ![t] = b] /\ r.chan = [s.chan EXCEPT ![c] = v]
      /\ r.seq = s.seq /\ r.ptr = s.ptr /\ r.free = s.free
      /\ r.graphs = s.graphs \cup {c} /\ r.map = [s.map EXCEPT ![t] = c]
      /\ r.poll = s.poll /\ r.rccs = n /\ Rec(r)
  BY DEF IsBound, Is
<1> HIDE DEF b, id
<1>7. /\ r.chan[c] = v /\ \A d \in Chans : d # c => r.chan[d] = s.chan[d]
      /\ r.tuner[t] = b /\ \A u \in Tuners : u # t => r.tuner[u] = s.tuner[u]
      /\ r.map[t] = c /\ \A u \in Tuners : u # t => r.map[u] = s.map[u]
  BY <1>2, <1>6
<1>8. \A d \in Chans : Live(r, d) <=> Live(s, d)
  BY <1>5, <1>7 DEF Live
<1>9. \A d \in Chans : Live(s, d) => r.chan[d].id = s.chan[d].id
  BY <1>5, <1>7 DEF id
<1>10. IdsMatch(r) /\ FreeMatches(r)
  BY <1>1, <1>6, <1>8, <1>9, IdsStay
<1>11. Typed(r)
  <2>1. r.tuner \in [Tuners -> Tuner \cup {None}]
    BY <1>2, <1>4, <1>6
  <2>2. r.chan \in [Chans -> Channel \cup {None}]
    BY <1>2, <1>5, <1>6
  <2>3. r.map \in [Tuners -> Chans \cup {None}]
    BY <1>2, <1>6
  <2> QED
    BY <1>1, <1>6, <2>1, <2>2, <2>3 DEF Typed
<1>12. \A d \in Chans : ~BoundTo(s, t, d)
  <2>1. ASSUME NEW d \in Chans, BoundTo(s, t, d)
        PROVE  FALSE
    <3>1. Live(s, d) /\ s.tuner[t].chanid = s.chan[d].id
      BY <1>1, <2>1 DEF TunersMatch, BoundTo, Live
    <3>2. s.chan[d].id # None
      BY <1>1, <3>1, LiveId
    <3> QED
      BY <3>1, <3>2 DEF Unbound
  <2> QED
    BY <2>1
<1>13. \A u \in Tuners, d \in Chans :
          BoundTo(r, u, d) <=> BoundTo(s, u, d) \/ (u = t /\ d = c)
  BY <1>5, <1>7 DEF BoundTo, Live
<1>14. TunersMatch(r)
  <2>1. \A u \in Tuners : r.tuner[u] # None /\ r.tuner[u].chanid # None =>
          \E d \in Chans : BoundTo(r, u, d)
    BY <1>1, <1>7, <1>13 DEF TunersMatch
  <2>2. ASSUME NEW u \in Tuners, NEW d \in Chans, BoundTo(r, u, d)
        PROVE  /\ r.chan[d].shutdown = FALSE
               /\ r.tuner[u] # None /\ r.tuner[u].chanid = r.chan[d].id
    <3>1. CASE u = t
      <4>1. d = c
        BY <1>12, <1>13, <2>2, <3>1
      <4> QED
        BY <1>4, <1>5, <1>7, <3>1, <4>1
    <3>2. CASE u # t
      <4>1. BoundTo(s, u, d)
        BY <1>13, <2>2, <3>2
      <4>2. /\ s.chan[d].shutdown = FALSE
            /\ s.tuner[u] # None /\ s.tuner[u].chanid = s.chan[d].id
        BY <1>1, <4>1 DEF TunersMatch
      <4>3. r.chan[d].shutdown = FALSE /\ r.chan[d].id = s.chan[d].id
        BY <1>5, <1>7, <4>2 DEF id
      <4> QED
        BY <1>7, <3>2, <4>2, <4>3
    <3> QED
      BY <3>1, <3>2
  <2> QED
    BY <2>1, <2>2 DEF TunersMatch
<1>15. NotIdle(r, {})
  BY <1>1, <1>5, <1>7 DEF NotIdle
<1>16. ByesMatch(r, {})
  BY <1>1, <1>5, <1>7 DEF ByesMatch
<1>17. GraphsMatch(r)
  <2>1. \A d \in Chans : d \in r.graphs <=> r.chan[d] # None /\ r.chan[d].tuners # {}
    BY <1>1, <1>5, <1>6, <1>7 DEF GraphsMatch
  <2>2. \A u \in Tuners, d \in Chans : r.map[u] = d <=> BoundTo(r, u, d)
    BY <1>1, <1>7, <1>12, <1>13 DEF GraphsMatch
  <2> QED
    BY <2>1, <2>2 DEF GraphsMatch
<1>18. Polled(r)
  BY <1>1, <1>6, <1>7 DEF Polled, Live
<1>19. Good(r, {})
  BY <1>10, <1>11, <1>14, <1>15, <1>16, <1>17, <1>18 DEF Good
<1>20. Moves(s, r, {})
  BY <1>6, <1>8, <1>9 DEF Moves
<1> QED
  BY <1>8, <1>19, <1>20

\* vqec_tuner_bind_chan, when vqec_chan_bind has succeeded.
Recorded(b, t, id) == [b EXCEPT !.tuner[t].chanid = id]
Binds(r, s, c, t, want) ==
    r = Recorded(ChanBind(s, c, t, want, "none"), t, s.chan[c].id)

\* The first tuner of a channel.
LEMMA FirstBind ==
    ASSUME NEW s, NEW c \in Chans, Good(s, {c}), NEW t \in Tuners,
           s.tuner[t] = Unbound, NEW want, NEW r,
           Binds(r, s, c, t, want)
    PROVE  /\ Good(r, {}) /\ Moves(s, r, {})
           /\ \A d \in Chans : Live(r, d) => Live(s, d)
<1> DEFINE id == s.chan[c].id
           w == WithRepair(s, c, want)
           v == [w EXCEPT !.byes = NumByes, !.tuners = {t}]
           x == Started(s, c, t, want)
           b == ChanBind(s, c, t, want, "none")
           n == OneMore(s, c, want)
           e == RccEnabled(s, c, want)
<1>1. /\ Typed(s) /\ IdsMatch(s) /\ NotIdle(s, {c}) /\ ByesMatch(s, {c})
      /\ RccsMatch(s) /\ Rec(s) /\ GraphsMatch(s)
      /\ s.chan = [d \in Chans |-> s.chan[d]]
      /\ s.chan \in [Chans -> Channel \cup {None}]
      /\ s.tuner \in [Tuners -> Tuner \cup {None}]
      /\ s.chan[c].tuners = {} /\ Live(s, c) /\ ~Counts(s.chan[c])
      /\ s.rccs \in 0 .. RccMod - 1 /\ None \notin Channel
  BY ChannelsConstants DEF Good, Typed, NotIdle, Counts
<1>2. SetUpFrom(w, s.chan[c], e)
  BY SetupChannels
<1>3. Is(x, s.tuner, [s.chan EXCEPT ![c] = w], s.seq, s.ptr, s.free,
         s.graphs \cup {c}, [s.map EXCEPT ![t] = c], s.poll, n)
  BY <1>1, StartedIs
<1>4. b = [x EXCEPT !.chan[c].byes = NumByes, !.chan[c].tuners = {t}]
  <2>1. s.chan[c].tuners = {}
    BY <1>1
  <2>2. BindsNew(s, c, t, want)
    BY <2>1, ChanBindIs
  <2> QED
    BY <2>2 DEF BindsNew
<1>5. /\ v \in Channel /\ v.id = id /\ v.shutdown = FALSE /\ v.byes = NumByes
      /\ v.tuners = {t} /\ (Counts(v) <=> e)
  <2>1. NumByes \in -1 .. NumByes
    BY ChannelsConstants
  <2> HIDE DEF w, e
  <2>2. /\ w \in Channel /\ w.id = s.chan[c].id /\ w.shutdown = FALSE
        /\ (Counts(w) <=> e)
    BY <1>2 DEF SetUpFrom
  <2>3. /\ v.id = w.id /\ v.shutdown = w.shutdown /\ v.byes = NumByes
        /\ v.tuners = {t} /\ v.rcc = w.rcc /\ v.aborted = w.aborted
    BY <2>2 DEF Channel
  <2>4. v \in Channel
    BY <2>1, <2>2 DEF Channel
  <2> HIDE DEF v
  <2> QED
    BY <2>2, <2>3, <2>4 DEF Counts
<1> HIDE DEF w, x, n, e
<1>6. Is(b, s.tuner, [s.chan EXCEPT ![c] = v], s.seq, s.ptr, s.free,
         s.graphs \cup {c}, [s.map EXCEPT ![t] = c], s.poll, n)
  <2>1. x.chan = [s.chan EXCEPT ![c] = w]
    BY <1>3 DEF Is
  <2>2. [x.chan EXCEPT ![c].byes = NumByes, ![c].tuners = {t}]
          = [s.chan EXCEPT ![c] = v]
    BY <1>1, <2>1
  <2> HIDE DEF b, v
  <2>3. Is(b, s.tuner, [x.chan EXCEPT ![c].byes = NumByes, ![c].tuners = {t}],
           s.seq, s.ptr, s.free,
           s.graphs \cup {c}, [s.map EXCEPT ![t] = c], s.poll, n)
    BY <1>3, <1>4 DEF Is, Rec, Fields
  <2> QED
    BY <2>2, <2>3
<1> HIDE DEF b, v
<1>7. Is(r, [s.tuner EXCEPT ![t] = [chanid |-> id]], [s.chan EXCEPT ![c] = v],
         s.seq, s.ptr, s.free, s.graphs \cup {c}, [s.map EXCEPT ![t] = c],
         s.poll, n)
  <2>1. r = [b EXCEPT !.tuner[t].chanid = id]
    BY DEF Binds, Recorded, b
  <2> HIDE DEF id
  <2>2. [s.tuner EXCEPT ![t].chanid = id] = [s.tuner EXCEPT ![t] = [chanid |-> id]]
    <3>1. [s.tuner[t] EXCEPT !.chanid = id] = [chanid |-> id]
      BY DEF Unbound
    <3> QED
      BY <1>1, <3>1
  <2>3. Is(r, [s.tuner EXCEPT ![t].chanid = id], [s.chan EXCEPT ![c] = v],
           s.seq, s.ptr, s.free, s.graphs \cup {c}, [s.map EXCEPT ![t] = c],
           s.poll, n)
    BY <1>6, <2>1 DEF Is, Rec, Fields
  <2> QED
    BY <2>2, <2>3
<1>8. IsBound(r, s, t, c, v, n)
  BY <1>1, <1>5, <1>7 DEF IsBound
<1>9. r.chan[c] = v /\ v # None /\ \A d \in Chans : d # c => r.chan[d] = s.chan[d]
  BY <1>1, <1>5, <1>7 DEF Is
<1>10. RccsMatch(r) /\ n \in 0 .. RccMod - 1
  <2>1. r.rccs = n
    BY <1>7 DEF Is
  <2>2. CASE e
    <3>1. Rccs(r) = Rccs(s) \cup {c}
      BY <1>5, <1>9, <2>2 DEF Rccs
    <3>2. r.rccs = (s.rccs + 1) % RccMod
      BY <2>1, <2>2 DEF OneMore, n, e
    <3>3. MaxRccs = 0 \/ s.rccs < MaxRccs
      BY <2>2 DEF RccEnabled, e
    <3>4. \A d \in Rccs(s) : Live(s, d)
      BY <1>1, RccsAreLive
    <3> QED
      BY <1>1, <2>1, <3>1, <3>2, <3>3, <3>4, OneRccMore
  <2>3. CASE ~e
    <3>1. Rccs(r) = Rccs(s)
      BY <1>1, <1>5, <1>9, <2>3 DEF Rccs
    <3>2. r.rccs = s.rccs
      BY <2>1, <2>3 DEF OneMore, n, e
    <3> QED
      BY <1>1, <2>1, <3>1, <3>2, SameRccs
  <2> QED
    BY <2>2, <2>3
<1> DEFINE X == {c}
<1>11. X \in SUBSET Chans /\ X \subseteq {c} /\ Good(s, X)
  OBVIOUS
<1> HIDE DEF X
<1> QED
  BY <1>1, <1>8, <1>10, <1>11, BoundIsGood

\* One more tuner.
LEMMA MoreBind ==
    ASSUME NEW s, NEW c \in Chans, Good(s, {}), Live(s, c), NEW t \in Tuners,
           s.tuner[t] = Unbound, NEW want, NEW r,
           Binds(r, s, c, t, want)
    PROVE  /\ Good(r, {}) /\ Moves(s, r, {})
           /\ \A d \in Chans : Live(r, d) => Live(s, d)
<1> DEFINE id == s.chan[c].id
           v == [s.chan[c] EXCEPT !.tuners = s.chan[c].tuners \cup {t}]
           b == ChanBind(s, c, t, want, "none")
<1>1. /\ Typed(s) /\ IdsMatch(s) /\ NotIdle(s, {}) /\ ByesMatch(s, {})
      /\ RccsMatch(s) /\ Rec(s) /\ GraphsMatch(s)
      /\ s.chan \in [Chans -> Channel \cup {None}]
      /\ s.tuner \in [Tuners -> Tuner \cup {None}]
      /\ s.rccs \in 0 .. RccMod - 1 /\ None \notin Channel
  BY ChannelsConstants DEF Good, Typed
<1>2. /\ s.chan[c].tuners # {} /\ s.chan[c].byes = NumByes
      /\ s.chan[c] # None /\ s.chan[c] \in Channel /\ s.chan[c].shutdown = FALSE
  BY <1>1 DEF NotIdle, ByesMatch, Live
<1>3. b = [s EXCEPT !.map[t] = c, !.chan[c].tuners = @ \cup {t}]
  <2>1. BindsMore(s, c, t, want)
    BY <1>2, ChanBindMore
  <2> QED
    BY <2>1 DEF BindsMore
<1>4. /\ v \in Channel /\ v.id = id /\ v.shutdown = FALSE /\ v.byes = NumByes
      /\ v.tuners = s.chan[c].tuners \cup {t}
      /\ v.rcc = s.chan[c].rcc /\ v.aborted = s.chan[c].aborted
  BY <1>2 DEF Channel
<1>5. Is(b, s.tuner, [s.chan EXCEPT ![c] = v], s.seq, s.ptr, s.free,
         s.graphs, [s.map EXCEPT ![t] = c], s.poll, s.rccs)
  <2>1. [s.chan EXCEPT ![c].tuners = s.chan[c].tuners \cup {t}]
          = [s.chan EXCEPT ![c] = v]
    BY <1>1
  <2> HIDE DEF b, v
  <2>2. Is(b, s.tuner, [s.chan EXCEPT ![c].tuners = s.chan[c].tuners \cup {t}],
           s.seq, s.ptr, s.free, s.graphs, [s.map EXCEPT ![t] = c], s.poll,
           s.rccs)
    BY <1>1, <1>3 DEF Is, Rec, Fields
  <2> QED
    BY <2>1, <2>2
<1> HIDE DEF b, v
<1>6. s.graphs = s.graphs \cup {c}
  BY <1>1, <1>2 DEF GraphsMatch
<1>7. Is(r, [s.tuner EXCEPT ![t] = [chanid |-> id]], [s.chan EXCEPT ![c] = v],
         s.seq, s.ptr, s.free, s.graphs \cup {c}, [s.map EXCEPT ![t] = c],
         s.poll, s.rccs)
  <2>1. r = [b EXCEPT !.tuner[t].chanid = id]
    BY DEF Binds, Recorded, b
  <2> HIDE DEF id
  <2>2. [s.tuner EXCEPT ![t].chanid = id] = [s.tuner EXCEPT ![t] = [chanid |-> id]]
    <3>1. [s.tuner[t] EXCEPT !.chanid = id] = [chanid |-> id]
      BY DEF Unbound
    <3> QED
      BY <1>1, <3>1
  <2>3. Is(r, [s.tuner EXCEPT ![t].chanid = id], [s.chan EXCEPT ![c] = v],
           s.seq, s.ptr, s.free, s.graphs, [s.map EXCEPT ![t] = c],
           s.poll, s.rccs)
    BY <1>5, <2>1 DEF Is, Rec, Fields
  <2> QED
    BY <1>6, <2>2, <2>3
<1>8. IsBound(r, s, t, c, v, s.rccs)
  BY <1>4, <1>7 DEF IsBound
<1>9. Rccs(r) = Rccs(s)
  <2>1. r.chan[c] = v /\ v # None /\ \A d \in Chans : d # c => r.chan[d] = s.chan[d]
    BY <1>1, <1>4, <1>7 DEF Is
  <2> QED
    BY <1>2, <1>4, <2>1 DEF Rccs, Counts
<1>10. RccsMatch(r)
  BY <1>1, <1>7, <1>9, SameRccs DEF Is
<1> DEFINE X == {}
<1>11. X \in SUBSET Chans /\ X \subseteq {c} /\ Good(s, X)
  OBVIOUS
<1> HIDE DEF X
<1> QED
  BY <1>1, <1>8, <1>10, <1>11, BoundIsGood

-----------------------------------------------------------------------------
(***************************************************************************)
(* The calls.  A step of the system leads from a good state to a good one  *)
(* and moves the sequence numbers of the identifiers that it deletes.      *)
(***************************************************************************)
Step(s, r, D) == Good(r, {}) /\ Moves(s, r, D)

LEMMA MovesOn ==
    ASSUME NEW s, NEW r, NEW q, NEW D, NEW E, Moves(s, r, D), Moves(r, q, E),
           D \cap E = {}, \A c \in Chans : Live(q, c) => Live(r, c)
    PROVE  Moves(s, q, D \cup E)
<1>1. D \cup E \subseteq Slots
  BY DEF Moves
<1>2. \A i \in Slots : q.seq[i] = IF i \in D \cup E THEN NextSeq(s.seq[i])
                                  ELSE s.seq[i]
  BY DEF Moves
<1>3. ASSUME NEW c \in Chans, Live(s, c)
      PROVE  IF s.chan[c].id[1] \in D \cup E THEN ~Live(q, c)
             ELSE Live(q, c) /\ q.chan[c].id = s.chan[c].id
  <2>1. CASE s.chan[c].id[1] \in D
    BY <1>3, <2>1 DEF Moves
  <2>2. CASE s.chan[c].id[1] \notin D
    BY <1>3, <2>2 DEF Moves
  <2> QED
    BY <2>1, <2>2
<1> QED
  BY <1>1, <1>2, <1>3 DEF Moves

LEMMA MovesAfterNone ==
    ASSUME NEW s, NEW r, NEW q, NEW D, Moves(s, r, {}), Moves(r, q, D)
    PROVE  Moves(s, q, D)
<1>1. \A i \in Slots : r.seq[i] = s.seq[i]
  BY DEF Moves
<1>2. \A c \in Chans : Live(s, c) => Live(r, c) /\ r.chan[c].id = s.chan[c].id
  BY DEF Moves
<1> QED
  BY <1>1, <1>2 DEF Moves

LEMMA TunerBindIs ==
    ASSUME NEW s, NEW c, NEW t, NEW want, NEW fail, NEW timer
    PROVE  LET id == s.chan[c].id
               b == ChanBind(UnbindInternal(s, t, timer), c, t, want, fail)
           IN  /\ fail = "none" =>
                    TunerBind(s, c, t, want, fail, timer) = Recorded(b, t, id)
               /\ fail # "none" =>
                    TunerBind(s, c, t, want, fail, timer) = PutChanid(b, id)
  BY Zenon DEF TunerBind, Recorded

\* vqec_tuner_bind_chan to a channel that was allocated for it.
LEMMA BindToNew ==
    ASSUME NEW s, NEW c \in Chans, Good(s, {c}), NEW t \in Tuners,
           s.tuner[t] # None, NEW want, NEW fail \in BindFails, NEW timer,
           fail = "setup" /\ RccEnabled(UnbindInternal(s, t, timer), c, want)
              => RccFailures
    PROVE  \E D : Step(s, TunerBind(s, c, t, want, fail, timer), D)
<1> DEFINE u == UnbindInternal(s, t, timer)
           id == s.chan[c].id
           b == ChanBind(u, c, t, want, fail)
           r == TunerBind(s, c, t, want, fail, timer)
<1>1. PICK D : IsUnbind(s, {c}, t, u, D)
  BY UnbindIsGood
<1>2. /\ Good(u, {c}) /\ Moves(s, u, D)
      /\ u.tuner = [s.tuner EXCEPT ![t] = Unbound]
  BY <1>1 DEF IsUnbind
<1>3. Live(s, c) /\ ~BoundTo(s, t, c) /\ s.tuner \in [Tuners -> Tuner \cup {None}]
  BY DEF Good, Typed, NotIdle, BoundTo
<1>4. u.chan[c].id = id /\ id[1] \notin D
  BY <1>1, <1>3 DEF IsUnbind, Spares
<1>5. u.tuner[t] = Unbound
  BY <1>2, <1>3
<1>6. CASE fail = "none"
  <2>1. r = Recorded(b, t, id)
    BY <1>6, TunerBindIs
  <2>2. Binds(r, u, c, t, want)
    BY <1>4, <1>6, <2>1 DEF Binds
  <2> HIDE DEF u, r
  <2>3. /\ Good(r, {}) /\ Moves(u, r, {})
        /\ \A d \in Chans : Live(r, d) => Live(u, d)
    BY <1>2, <1>5, <2>2, FirstBind
  <2>4. D \cap {} = {} /\ D \cup {} = D
    OBVIOUS
  <2>5. Moves(s, r, D)
    BY <1>2, <2>3, <2>4, MovesOn
  <2>6. Step(s, r, D)
    BY <2>3, <2>5 DEF Step
  <2> QED
    BY <2>6 DEF r
<1>7. CASE fail # "none"
  <2>1. r = PutChanid(b, u.chan[c].id)
    BY <1>4, <1>7, TunerBindIs
  <2>2. fail \in BindFails \ {"none"}
    BY <1>7
  <2>3. fail = "setup" /\ RccEnabled(u, c, want) => RccFailures
    OBVIOUS
  <2> HIDE DEF u, r
  <2>4. PICK n \in 0 .. RccMod - 1 :
           /\ RccFailures = FALSE => n = u.rccs
           /\ IsDropped(r, u, c, n)
    BY <1>2, <1>5, <2>1, <2>2, <2>3, FailIsDropped
  <2>5. /\ Good(r, {}) /\ Moves(u, r, {u.chan[c].id[1]})
        /\ \A d \in Chans : Live(r, d) => Live(u, d)
    BY <1>2, <2>4, DropIsGood
  <2>6. D \cap {u.chan[c].id[1]} = {}
    BY <1>4
  <2> DEFINE E == {u.chan[c].id[1]}
  <2>7. Moves(u, r, E) /\ D \cap E = {}
    BY <2>5, <2>6
  <2> HIDE DEF E
  <2>8. Moves(s, r, D \cup E)
    BY <1>2, <2>5, <2>7, MovesOn
  <2>9. Step(s, r, D \cup E)
    BY <2>5, <2>8 DEF Step
  <2> QED
    BY <2>9 DEF r
<1> QED
  BY <1>6, <1>7

\* vqec_tuner_bind_chan to a channel that has other tuners.
LEMMA BindToMore ==
    ASSUME NEW s, NEW c \in Chans, Good(s, {}), Live(s, c), NEW t \in Tuners,
           s.tuner[t] # None, ~BoundTo(s, t, c), NEW want,
           NEW fail \in BindFails, NEW timer
    PROVE  \E D : Step(s, TunerBind(s, c, t, want, fail, timer), D)
<1> DEFINE u == UnbindInternal(s, t, timer)
           id == s.chan[c].id
           b == ChanBind(u, c, t, want, fail)
           r == TunerBind(s, c, t, want, fail, timer)
<1>1. PICK D : IsUnbind(s, {}, t, u, D)
  BY UnbindIsGood
<1>2. /\ Good(u, {}) /\ Moves(s, u, D)
      /\ u.tuner = [s.tuner EXCEPT ![t] = Unbound]
  BY <1>1 DEF IsUnbind
<1>3. s.tuner \in [Tuners -> Tuner \cup {None}]
  BY DEF Good, Typed
<1>4. u.chan[c] = s.chan[c] /\ u.chan[c].id = id /\ Live(u, c)
  BY <1>1 DEF IsUnbind, Spares, Live
<1>5. u.tuner[t] = Unbound
  BY <1>2, <1>3
<1>6. CASE fail = "none"
  <2>1. r = Recorded(b, t, id)
    BY <1>6, TunerBindIs
  <2>2. Binds(r, u, c, t, want)
    BY <1>4, <1>6, <2>1 DEF Binds
  <2> HIDE DEF u, r
  <2>3. /\ Good(r, {}) /\ Moves(u, r, {})
        /\ \A d \in Chans : Live(r, d) => Live(u, d)
    BY <1>2, <1>4, <1>5, <2>2, MoreBind
  <2>4. D \cap {} = {} /\ D \cup {} = D
    OBVIOUS
  <2>5. Moves(s, r, D)
    BY <1>2, <2>3, <2>4, MovesOn
  <2>6. Step(s, r, D)
    BY <2>3, <2>5 DEF Step
  <2> QED
    BY <2>6 DEF r
<1>7. CASE fail # "none"
  <2>1. r = PutChanid(b, u.chan[c].id)
    BY <1>4, <1>7, TunerBindIs
  <2> DEFINE i == u.chan[c].id
  <2>2. u.chan[c].tuners # {} /\ ChanOf(u, i) = c /\ c # None
    <3> HIDE DEF u
    <3>1. Typed(u) /\ IdsMatch(u) /\ NotIdle(u, {}) /\ c # None
      BY <1>2, ChannelsConstants DEF Good
    <3>2. u.chan[c].tuners # {}
      BY <1>4, <3>1 DEF NotIdle, Live
    <3>3. ChanOf(u, i) = c
      BY <1>4, <3>1, LiveId
    <3> QED
      BY <3>1, <3>2, <3>3
  <2>3. b = u
    <3>1. BindsMore(u, c, t, want)
      BY <2>2, ChanBindMore
    <3> QED
      BY <1>7, <3>1 DEF BindsMore
  <2>4. PutChanid(u, i) = u
    <3> HIDE DEF u, i
    <3> QED
      BY <2>2 DEF PutChanid
  <2>5. Step(s, r, D)
    BY <1>2, <2>1, <2>3, <2>4 DEF Step
  <2> QED
    BY <2>5
<1> QED
  BY <1>6, <1>7

\* vqec_tuner_create and the end of vqec_tuner_destroy: a tuner that is bound
\* to no channel comes or goes.
WithTuner(r, s, t, x) ==
    /\ s.tuner[t] \in {None, Unbound} /\ x \in {None, Unbound}
    /\ r = [s EXCEPT !.tuner[t] = x]

LEMMA TunerComesOrGoes ==
    ASSUME NEW s, Good(s, {}), NEW t \in Tuners, NEW x, NEW r,
           WithTuner(r, s, t, x)
    PROVE  /\ Good(r, {}) /\ Moves(s, r, {})
           /\ \A d \in Chans : Live(r, d) => Live(s, d)
<1>1. /\ Typed(s) /\ IdsMatch(s) /\ FreeMatches(s) /\ TunersMatch(s)
      /\ NotIdle(s, {}) /\ ByesMatch(s, {}) /\ GraphsMatch(s) /\ Polled(s)
      /\ RccsMatch(s) /\ s.tuner \in [Tuners -> Tuner \cup {None}] /\ Rec(s)
  BY DEF Good, Typed
<1>2. Is(r, [s.tuner EXCEPT ![t] = x], s.chan, s.seq, s.ptr, s.free, s.graphs,
         s.map, s.poll, s.rccs)
  BY <1>1 DEF WithTuner, Is, Rec, Fields
<1>3. /\ r.chan = s.chan /\ r.seq = s.seq /\ r.ptr = s.ptr /\ r.free = s.free
      /\ r.graphs = s.graphs /\ r.map = s.map /\ r.poll = s.poll
      /\ r.rccs = s.rccs /\ r.tuner = [s.tuner EXCEPT ![t] = x] /\ Rec(r)
  BY <1>2 DEF Is
<1>4. x \in Tuner \cup {None}
  BY UnboundIsTuner DEF WithTuner
<1>5. Typed(r)
  <2>1. r.tuner \in [Tuners -> Tuner \cup {None}]
    BY <1>1, <1>3, <1>4
  <2> QED
    BY <1>1, <1>3, <2>1 DEF Typed
<1>6. IdsMatch(r) /\ FreeMatches(r)
  BY <1>1, <1>3 DEF IdsMatch, FreeMatches, Live
<1>7. TunersMatch(r)
  <2>1. \A d \in Chans : ~BoundTo(s, t, d)
    <3>1. ASSUME NEW d \in Chans, BoundTo(s, t, d)
          PROVE  FALSE
      <4>1. /\ Live(s, d) /\ s.tuner[t].chanid = s.chan[d].id
            /\ s.tuner[t] # None
        BY <1>1, <3>1 DEF TunersMatch, BoundTo, Live
      <4>2. s.chan[d].id # None
        BY <1>1, <4>1, LiveId
      <4> QED
        BY <4>1, <4>2 DEF WithTuner, Unbound
    <3> QED
      BY <3>1
  <2>2. \A u \in Tuners : r.tuner[u] = IF u = t THEN x ELSE s.tuner[u]
    BY <1>1, <1>3
  <2>3. x # None => x.chanid = None
    BY DEF WithTuner, Unbound
  <2>4. \A u \in Tuners, d \in Chans : BoundTo(r, u, d) <=> BoundTo(s, u, d)
    BY <1>3 DEF BoundTo
  <2> QED
    BY <1>1, <1>3, <2>1, <2>2, <2>3, <2>4 DEF TunersMatch
<1>8. NotIdle(r, {})
  BY <1>1, <1>3 DEF NotIdle
<1>9. ByesMatch(r, {})
  BY <1>1, <1>3 DEF ByesMatch
<1>10. GraphsMatch(r)
  BY <1>1, <1>3 DEF GraphsMatch, BoundTo
<1>11. Polled(r)
  BY <1>1, <1>3 DEF Polled
<1>12. RccsMatch(r)
  BY <1>1, <1>3 DEF RccsMatch, Rccs
<1>13. Moves(s, r, {}) /\ \A d \in Chans : Live(r, d) => Live(s, d)
  BY <1>3 DEF Moves, Live
<1> QED
  BY <1>5, <1>6, <1>7, <1>8, <1>9, <1>10, <1>11, <1>12, <1>13 DEF Good

LEMMA CreateTunerStep ==
    ASSUME Good(sys, {}), NEW t \in Tuners, CreateTuner(t)
    PROVE  \E D : Step(sys, sys', D)
<1> DEFINE s == sys
           r == sys'
           x == Unbound
<1>1. WithTuner(r, s, t, x)
  BY DEF CreateTuner, Becomes, WithTuner, Unbound
<1>2. Good(s, {})
  OBVIOUS
<1> HIDE DEF s, r, x
<1>3. Good(r, {}) /\ Moves(s, r, {})
  BY <1>1, <1>2, TunerComesOrGoes
<1>4. Step(s, r, {})
  BY <1>3 DEF Step
<1> QED
  BY <1>4 DEF s, r

LEMMA DestroyTunerStep ==
    ASSUME Good(sys, {}), NEW t \in Tuners, NEW timer, DestroyTuner(t, timer)
    PROVE  \E D : Step(sys, sys', D)
<1> DEFINE s == sys
           u == UnbindInternal(s, t, timer)
           r == sys'
           x == None
<1>1. s.tuner[t] # None /\ r = [u EXCEPT !.tuner[t] = x]
  BY DEF DestroyTuner, Becomes
<1>2. Good(s, {})
  OBVIOUS
<1> HIDE DEF s, r
<1>3. PICK D : IsUnbind(s, {}, t, u, D)
  BY <1>1, <1>2, UnbindIsGood
<1> HIDE DEF u
<1>4. /\ Good(u, {}) /\ Moves(s, u, D)
      /\ u.tuner = [s.tuner EXCEPT ![t] = Unbound]
  BY <1>3 DEF IsUnbind
<1>5. s.tuner \in [Tuners -> Tuner \cup {None}]
  BY <1>2 DEF Good, Typed
<1>6. WithTuner(r, u, t, x)
  BY <1>1, <1>4, <1>5 DEF WithTuner
<1> HIDE DEF x
<1>7. /\ Good(r, {}) /\ Moves(u, r, {})
      /\ \A d \in Chans : Live(r, d) => Live(u, d)
  BY <1>4, <1>6, TunerComesOrGoes
<1>8. D \cap {} = {} /\ D \cup {} = D
  OBVIOUS
<1>9. Moves(s, r, D)
  BY <1>4, <1>7, <1>8, MovesOn
<1>10. Step(s, r, D)
  BY <1>7, <1>9 DEF Step
<1> QED
  BY <1>10 DEF s, r

LEMMA UnbindStep ==
    ASSUME Good(sys, {}), NEW t \in Tuners, NEW timer, Unbind(t, timer)
    PROVE  \E D : Step(sys, sys', D)
<1>1. sys.tuner[t] # None /\ sys' = UnbindInternal(sys, t, timer)
  BY DEF Unbind, Becomes
<1>2. PICK D : IsUnbind(sys, {}, t, UnbindInternal(sys, t, timer), D)
  BY <1>1, UnbindIsGood
<1>3. Step(sys, sys', D)
  BY <1>1, <1>2 DEF IsUnbind, Step
<1> QED
  BY <1>3

LEMMA BindStep ==
    ASSUME Good(sys, {}), NEW t \in Tuners, NEW c \in Chans, NEW want,
           NEW fail \in BindFails, NEW timer, Bind(t, c, want, fail, timer)
    PROVE  \E D : Step(sys, sys', D)
<1> DEFINE s == sys
           r == sys'
           g == GetChanid(s, c)
           u == UnbindInternal(g, t, timer)
<1>1. /\ s.tuner[t] # None /\ (~Found(s, c) => s.free # <<>>)
      /\ s.tuner[t].chanid # g.chan[c].id
      /\ r = TunerBind(g, c, t, want, fail, timer)
      /\ Good(s, {})
  BY Zenon DEF Bind, Becomes
<1>2. fail = "setup" =>
        u.chan[c].tuners = {} /\ (RccEnabled(u, c, want) => RccFailures)
  BY Zenon DEF Bind
<1>3. fail = "setup" /\ RccEnabled(u, c, want) => RccFailures
  BY <1>2
<1> HIDE DEF s, r
<1>4. CASE Found(s, c)
  <2>1. g = s
    BY <1>4 DEF GetChanid
  <2>2. Live(s, c)
    BY <1>1, <1>4 DEF Found, Live, Good, Typed, Channel
  <2>3. ~BoundTo(s, t, c)
    BY <1>1, <2>1 DEF Good, TunersMatch
  <2>4. r = TunerBind(s, c, t, want, fail, timer)
    BY <1>1, <2>1
  <2>5. \E D : Step(s, TunerBind(s, c, t, want, fail, timer), D)
    BY <1>1, <2>2, <2>3, BindToMore
  <2> QED
    BY <2>4, <2>5 DEF s, r
<1>5. CASE ~Found(s, c)
  <2>1. IsFresh(g, s, c)
    BY <1>1, <1>5, GetChanidIs
  <2> HIDE DEF g
  <2>2. Good(g, {c}) /\ Moves(s, g, {}) /\ g.tuner = s.tuner
    BY <1>1, <1>5, <2>1, FreshIsGood
  <2>3. g.tuner[t] # None
    BY <1>1, <2>2
  <2>4. PICK D : Step(g, TunerBind(g, c, t, want, fail, timer), D)
    BY <1>3, <2>2, <2>3, BindToNew
  <2>5. Good(r, {}) /\ Moves(g, r, D)
    BY <1>1, <2>4 DEF Step
  <2>6. Moves(s, r, D)
    BY <2>2, <2>5, MovesAfterNone
  <2>7. Step(s, r, D)
    BY <2>5, <2>6 DEF Step
  <2> QED
    BY <2>7 DEF s, r
<1> QED
  BY <1>4, <1>5

LEMMA BindNoTunerStep ==
    ASSUME Good(sys, {}), NEW c \in Chans, BindNoTuner(c)
    PROVE  \E D : Step(sys, sys', D)
<1> DEFINE s == sys
           r == sys'
           g == GetChanid(s, c)
           id == g.chan[c].id
<1>1. /\ ~Found(s, c) => s.free # <<>>
      /\ r = PutChanid(g, id)
      /\ Good(s, {})
  BY Zenon DEF BindNoTuner, Becomes
<1> HIDE DEF s, r
<1>2. CASE Found(s, c)
  <2>1. g = s
    BY <1>2 DEF GetChanid
  <2>2. /\ Live(s, c) /\ Typed(s) /\ IdsMatch(s) /\ NotIdle(s, {})
        /\ c # None
    BY <1>1, <1>2, ChannelsConstants DEF Found, Live, Good, Typed, Channel
  <2>3. s.chan[c].tuners # {} /\ ChanOf(s, s.chan[c].id) = c
    <3>1. s.chan[c].tuners # {}
      BY <2>2 DEF NotIdle, Live
    <3>2. ChanOf(s, s.chan[c].id) = c
      BY <2>2, LiveId
    <3> QED
      BY <3>1, <3>2
  <2>4. PutChanid(s, s.chan[c].id) = s
    BY <2>2, <2>3 DEF PutChanid
  <2>5. r = s
    BY <1>1, <2>1, <2>4
  <2>6. Moves(s, s, {})
    BY DEF Moves
  <2>7. Step(s, r, {})
    BY <1>1, <2>5, <2>6 DEF Step
  <2> QED
    BY <2>7 DEF s, r
<1>3. CASE ~Found(s, c)
  <2>1. IsFresh(g, s, c)
    BY <1>1, <1>3, GetChanidIs
  <2> HIDE DEF g
  <2>2. Good(g, {c}) /\ Moves(s, g, {})
    BY <1>1, <1>3, <2>1, FreshIsGood
  <2>3. IsDropped(PutChanid(g, id), g, c, g.rccs)
    BY <2>2, PutIsDropped
  <2>4. g.rccs \in 0 .. RccMod - 1
    BY <2>2 DEF Good, Typed
  <2>5. IsDropped(r, g, c, g.rccs)
    BY <1>1, <2>3
  <2> DEFINE n == g.rccs
  <2>6. n \in 0 .. RccMod - 1 /\ n = g.rccs /\ IsDropped(r, g, c, n)
    BY <2>4, <2>5
  <2> HIDE DEF n, id
  <2>7. Good(r, {}) /\ Moves(g, r, {g.chan[c].id[1]})
    BY <2>2, <2>6, DropIsGood
  <2> DEFINE E == {g.chan[c].id[1]}
  <2>8. Moves(g, r, E)
    BY <2>7
  <2> HIDE DEF E
  <2>9. Moves(s, r, E)
    BY <2>2, <2>8, MovesAfterNone
  <2>10. Step(s, r, E)
    BY <2>7, <2>9 DEF Step
  <2> QED
    BY <2>10 DEF s, r
<1> QED
  BY <1>2, <1>3

\* Fields of channel c that its identifier and its tuners do not depend on
\* change, or it goes although it is in shutdown.
Retouched(r, s, c, v, poll, n) ==
    /\ Is(r, s.tuner, [s.chan EXCEPT ![c] = v], s.seq, s.ptr, s.free, s.graphs,
          s.map, poll, n)
    /\ s.chan[c] # None
    /\ \/ v = None /\ s.chan[c].shutdown = TRUE
       \/ /\ v \in Channel /\ v.id = s.chan[c].id /\ v.tuners = s.chan[c].tuners
          /\ v.shutdown = s.chan[c].shutdown
          /\ IF v.shutdown = TRUE
             THEN v.byes >= 1 /\ v.aborted = TRUE /\ v.sent + v.byes = NumByes
             ELSE v.byes = s.chan[c].byes
    /\ poll \in BOOLEAN /\ n \in 0 .. RccMod - 1

LEMMA RetouchedIsGood ==
    ASSUME NEW s, Good(s, {}), NEW c \in Chans, NEW v, NEW poll, NEW n, NEW r,
           Retouched(r, s, c, v, poll, n), Polled(r), RccsMatch(r)
    PROVE  Step(s, r, {})
<1>1. /\ Typed(s) /\ IdsMatch(s) /\ FreeMatches(s) /\ TunersMatch(s)
      /\ NotIdle(s, {}) /\ ByesMatch(s, {}) /\ GraphsMatch(s)
      /\ s.chan \in [Chans -> Channel \cup {None}] /\ None \notin Channel
  BY ChannelsConstants DEF Good, Typed
<1>2. /\ r.tuner = s.tuner /\ r.chan = [s.chan EXCEPT ![c] = v]
      /\ r.seq = s.seq /\ r.ptr = s.ptr /\ r.free = s.free
      /\ r.graphs = s.graphs /\ r.map = s.map /\ r.poll = poll /\ r.rccs = n
      /\ Rec(r)
  BY DEF Retouched, Is
<1>3. /\ s.chan[c] # None /\ s.chan[c] \in Channel /\ poll \in BOOLEAN
      /\ n \in 0 .. RccMod - 1
  BY <1>1 DEF Retouched
<1>4. r.chan[c] = v /\ \A d \in Chans : d # c => r.chan[d] = s.chan[d]
  BY <1>1, <1>2
<1>5. \/ v = None /\ s.chan[c].shutdown = TRUE
      \/ /\ v \in Channel /\ v # None /\ v.id = s.chan[c].id
         /\ v.tuners = s.chan[c].tuners /\ v.shutdown = s.chan[c].shutdown
         /\ IF v.shutdown = TRUE
            THEN v.byes >= 1 /\ v.aborted = TRUE /\ v.sent + v.byes = NumByes
            ELSE v.byes = s.chan[c].byes
  BY <1>1 DEF Retouched
<1>6. \A d \in Chans : Live(r, d) <=> Live(s, d)
  BY <1>3, <1>4, <1>5 DEF Live
<1>7. \A d \in Chans : Live(s, d) => r.chan[d].id = s.chan[d].id
  BY <1>4, <1>5 DEF Live
<1>8. IdsMatch(r) /\ FreeMatches(r)
  BY <1>1, <1>2, <1>6, <1>7, IdsStay
<1>9. s.chan[c].shutdown = TRUE => s.chan[c].tuners = {}
  BY <1>1, <1>3 DEF NotIdle
<1>10. \A u \in Tuners, d \in Chans : BoundTo(r, u, d) <=> BoundTo(s, u, d)
  BY <1>3, <1>4, <1>5, <1>9 DEF BoundTo
<1>11. Typed(r)
  <2>1. r.chan \in [Chans -> Channel \cup {None}]
    BY <1>1, <1>2, <1>5
  <2> QED
    BY <1>1, <1>2, <1>3, <2>1 DEF Typed
<1>12. TunersMatch(r)
  <2>1. \A u \in Tuners, d \in Chans : BoundTo(s, u, d) =>
            r.chan[d].shutdown = FALSE /\ r.chan[d].id = s.chan[d].id
    BY <1>1, <1>4, <1>5 DEF TunersMatch
  <2> QED
    BY <1>1, <1>2, <1>10, <2>1 DEF TunersMatch
<1>13. NotIdle(r, {})
  BY <1>1, <1>3, <1>4, <1>5 DEF NotIdle
<1>14. ByesMatch(r, {})
  BY <1>1, <1>3, <1>4, <1>5 DEF ByesMatch
<1>15. GraphsMatch(r)
  <2>1. \A d \in Chans : d \in r.graphs <=> r.chan[d] # None /\ r.chan[d].tuners # {}
    BY <1>1, <1>2, <1>3, <1>4, <1>5, <1>9 DEF GraphsMatch
  <2> QED
    BY <1>1, <1>2, <1>10, <2>1 DEF GraphsMatch
<1>16. Good(r, {})
  BY <1>8, <1>11, <1>12, <1>13, <1>14, <1>15 DEF Good
<1>17. Moves(s, r, {})
  BY <1>2, <1>6, <1>7 DEF Moves
<1> QED
  BY <1>16, <1>17 DEF Step

LEMMA ByeEventStep ==
    ASSUME Good(sys, {}), NEW c \in Chans, ByeEvent(c)
    PROVE  \E D : Step(sys, sys', D)
<1> DEFINE s == sys
           r == sys'
           ch == s.chan[c]
           w == [ch EXCEPT !.byes = @ - 1, !.sent = @ + 1]
           others == \E x \in Chans \ {c} : s.chan[x] # None
           p == s.poll /\ others
<1>1. /\ s.chan[c] # None /\ s.chan[c].shutdown
      /\ r = IF s.chan[c].byes # 1
             THEN [s EXCEPT !.chan[c].byes = @ - 1, !.chan[c].sent = @ + 1]
             ELSE [DeinitFinal(s, c) EXCEPT !.poll = @ /\ others]
      /\ Good(s, {})
  BY Zenon DEF ByeEvent, Becomes
<1> HIDE DEF s, r
<1>2. /\ Typed(s) /\ ByesMatch(s, {}) /\ NotIdle(s, {}) /\ Polled(s)
      /\ RccsMatch(s) /\ Rec(s)
      /\ s.chan \in [Chans -> Channel \cup {None}] /\ None \notin Channel
      /\ s.poll \in BOOLEAN /\ s.rccs \in 0 .. RccMod - 1
  BY <1>1, ChannelsConstants DEF Good, Typed
<1>3. /\ s.chan[c] \in Channel /\ s.chan[c].shutdown = TRUE
      /\ s.chan[c].byes >= 1 /\ s.chan[c].aborted = TRUE
      /\ s.chan[c].sent + s.chan[c].byes = NumByes
      /\ s.chan[c].byes \in -1 .. NumByes /\ s.chan[c].sent \in 0 .. NumByes
      /\ NumByes \in Nat
  BY <1>1, <1>2, ChannelsConstants DEF ByesMatch, Channel
<1>4. CASE s.chan[c].byes # 1
  <2>1. r = [s EXCEPT !.chan[c].byes = @ - 1, !.chan[c].sent = @ + 1]
    BY <1>1, <1>4
  <2>2. /\ s.chan[c].byes - 1 \in -1 .. NumByes
        /\ s.chan[c].sent + 1 \in 0 .. NumByes
        /\ s.chan[c].byes - 1 >= 1
        /\ (s.chan[c].sent + 1) + (s.chan[c].byes - 1) = NumByes
    BY <1>3, <1>4
  <2>3. /\ w \in Channel /\ w.id = s.chan[c].id /\ w.tuners = s.chan[c].tuners
        /\ w.shutdown = TRUE /\ w.byes = s.chan[c].byes - 1
        /\ w.sent = s.chan[c].sent + 1 /\ w.aborted = TRUE
    BY <1>3, <2>2 DEF Channel
  <2>4. Is(r, s.tuner, [s.chan EXCEPT ![c] = w], s.seq, s.ptr, s.free, s.graphs,
           s.map, s.poll, s.rccs)
    <3>1. Is(r, s.tuner, [s.chan EXCEPT ![c].byes = s.chan[c].byes - 1,
                                        ![c].sent = s.chan[c].sent + 1],
             s.seq, s.ptr, s.free, s.graphs, s.map, s.poll, s.rccs)
      BY <1>2, <2>1 DEF Is, Rec, Fields
    <3>2. [s.chan EXCEPT ![c].byes = s.chan[c].byes - 1,
                         ![c].sent = s.chan[c].sent + 1]
            = [s.chan EXCEPT ![c] = w]
      BY <1>2
    <3> QED
      BY <3>1, <3>2
  <2> HIDE DEF w
  <2>5. Retouched(r, s, c, w, s.poll, s.rccs)
    BY <1>1, <1>2, <1>3, <2>2, <2>3, <2>4 DEF Retouched
  <2>6. r.chan = [s.chan EXCEPT ![c] = w] /\ r.poll = s.poll /\ r.rccs = s.rccs
    BY <2>4 DEF Is
  <2>7. r.chan[c] = w /\ \A d \in Chans : d # c => r.chan[d] = s.chan[d]
    BY <1>2, <2>6
  <2>8. Polled(r)
    BY <1>1, <1>2, <2>6, <2>7 DEF Polled
  <2>9. Rccs(r) = Rccs(s)
    BY <1>3, <2>3, <2>7 DEF Rccs, Counts
  <2>10. RccsMatch(r)
    BY <1>2, <2>6, <2>9, SameRccs
  <2>11. Step(s, r, {})
    BY <1>1, <2>5, <2>8, <2>10, RetouchedIsGood
  <2> QED
    BY <2>11 DEF s, r
<1>5. CASE s.chan[c].byes = 1
  <2>1. r = [DeinitFinal(s, c) EXCEPT !.poll = @ /\ others]
    BY <1>1, <1>5
  <2> HIDE DEF others
  <2>2. Is(r, s.tuner, [s.chan EXCEPT ![c] = None], s.seq, s.ptr, s.free,
           s.graphs, s.map, p, s.rccs)
    BY <1>2, <2>1 DEF DeinitFinal, Is, Rec, Fields
  <2>3. p \in BOOLEAN
    OBVIOUS
  <2>4. r.chan = [s.chan EXCEPT ![c] = None] /\ r.poll = p /\ r.rccs = s.rccs
    BY <2>2 DEF Is
  <2>5. r.chan[c] = None /\ \A d \in Chans : d # c => r.chan[d] = s.chan[d]
    BY <1>2, <2>4
  <2>6. Polled(r)
    <3>1. ASSUME NEW d \in Chans, r.chan[d] # None
          PROVE  r.poll = TRUE
      <4>1. d \in Chans \ {c} /\ s.chan[d] # None
        BY <2>5, <3>1
      <4>2. others
        BY <4>1 DEF others
      <4>3. s.poll = TRUE
        BY <1>2, <4>1 DEF Polled
      <4> QED
        BY <2>4, <4>2, <4>3
    <3> QED
      BY <3>1 DEF Polled
  <2> HIDE DEF p
  <2> DEFINE v == None
  <2>7. Retouched(r, s, c, v, p, s.rccs)
    BY <1>2, <1>3, <2>2, <2>3 DEF Retouched
  <2> HIDE DEF v
  <2>8. Rccs(r) = Rccs(s)
    BY <1>3, <2>5 DEF Rccs, Counts
  <2>9. RccsMatch(r)
    BY <1>2, <2>4, <2>8, SameRccs
  <2>10. Step(s, r, {})
    BY <1>1, <2>6, <2>7, <2>9, RetouchedIsGood
  <2> QED
    BY <2>10 DEF s, r
<1> QED
  BY <1>4, <1>5

LEMMA RccAbortStep ==
    ASSUME Good(sys, {}), NEW c \in Chans, RccAbort(c)
    PROVE  \E D : Step(sys, sys', D)
<1> DEFINE s == sys
           r == sys'
           w == [s.chan[c] EXCEPT !.aborted = TRUE]
           n == (s.rccs - 1) % RccMod
<1>1. /\ s.chan[c] # None /\ s.chan[c].rcc /\ ~s.chan[c].aborted
      /\ r = [s EXCEPT !.chan[c].aborted = TRUE, !.rccs = (@ - 1) % RccMod]
      /\ Good(s, {})
  BY DEF RccAbort, Becomes
<1> HIDE DEF s, r
<1>2. /\ Typed(s) /\ ByesMatch(s, {}) /\ Polled(s) /\ RccsMatch(s) /\ Rec(s)
      /\ s.chan \in [Chans -> Channel \cup {None}] /\ None \notin Channel
      /\ s.poll \in BOOLEAN /\ s.rccs \in 0 .. RccMod - 1
      /\ RccMod \in Nat /\ RccMod > 0
  BY <1>1, ChannelsConstants DEF Good, Typed
<1>3. /\ s.chan[c] \in Channel /\ s.chan[c].rcc = TRUE
      /\ s.chan[c].aborted = FALSE
  BY <1>1, <1>2 DEF Channel
<1>4. s.chan[c].shutdown = FALSE
  BY <1>1, <1>2, <1>3 DEF ByesMatch, Channel
<1>5. /\ w \in Channel /\ w.id = s.chan[c].id /\ w.tuners = s.chan[c].tuners
      /\ w.shutdown = FALSE /\ w.byes = s.chan[c].byes /\ w.aborted = TRUE
  BY <1>3, <1>4 DEF Channel
<1>6. n \in 0 .. RccMod - 1
  BY <1>2
<1>7. Is(r, s.tuner, [s.chan EXCEPT ![c] = w], s.seq, s.ptr, s.free, s.graphs,
         s.map, s.poll, n)
  <2>1. [s.chan EXCEPT ![c].aborted = TRUE] = [s.chan EXCEPT ![c] = w]
    BY <1>2
  <2>2. Is(r, s.tuner, [s.chan EXCEPT ![c].aborted = TRUE], s.seq, s.ptr,
           s.free, s.graphs, s.map, s.poll, n)
    BY <1>1, <1>2 DEF Is, Rec, Fields
  <2> QED
    BY <2>1, <2>2
<1> HIDE DEF w, n
<1>8. Retouched(r, s, c, w, s.poll, n)
  BY <1>1, <1>2, <1>4, <1>5, <1>6, <1>7 DEF Retouched
<1>9. r.chan = [s.chan EXCEPT ![c] = w] /\ r.poll = s.poll /\ r.rccs = n
  BY <1>7 DEF Is
<1>10. r.chan[c] = w /\ \A d \in Chans : d # c => r.chan[d] = s.chan[d]
  BY <1>2, <1>9
<1>11. Polled(r)
  BY <1>1, <1>2, <1>9, <1>10 DEF Polled
<1>12. RccsMatch(r)
  <2>1. r.rccs = OneLess(s.chan[c], s.rccs)
    BY <1>3, <1>9 DEF OneLess, Counts, n
  <2>2. Rccs(r) = Rccs(s) \ {c}
    BY <1>5, <1>10 DEF Rccs, Counts
  <2> QED
    BY <1>1, <1>2, <2>1, <2>2, OneRccLess
<1>13. Step(s, r, {})
  BY <1>1, <1>8, <1>11, <1>12, RetouchedIsGood
<1> QED
  BY <1>13 DEF s, r

-----------------------------------------------------------------------------
(***************************************************************************)
(* The message under way.                                                  *)
(***************************************************************************)
\* q is the sequence number that follows p after j deletions.
Ahead(q, p, j) == q = p + j \/ q = p + j - SeqMod

\* The identifier in a message is that of its channel or, when that is gone, it
\* is behind the sequence number of its slot, by no more than "age".
MessageMatches ==
    upcall # None =>
        /\ upcall \in Message
        /\ upcall.stale = FALSE =>
              /\ upcall.age = 0 /\ Live(sys, upcall.chan)
              /\ sys.chan[upcall.chan].id = upcall.id
        /\ upcall.stale = TRUE =>
              \E j \in 1 .. upcall.age :
                  Ahead(sys.seq[upcall.id[1]], upcall.id[2], j)

IInv == Good(sys, {}) /\ MessageMatches

LEMMA DeletedType ==
    /\ Deleted \in Nat
    /\ \A i \in Slots : sys'.seq[i] # sys.seq[i] => Deleted >= 1
<1> DEFINE S == {i \in Slots : sys'.seq[i] # sys.seq[i]}
<1>1. IsFiniteSet(Slots)
  BY FS_Interval, ChannelsConstants DEF Slots
<1>2. IsFiniteSet(S) /\ Deleted = Cardinality(S)
  BY <1>1, FS_Subset DEF Deleted
<1> HIDE DEF S
<1>3. Deleted \in Nat /\ (S # {} => Deleted # 0)
  BY <1>2, FS_CardinalityType, FS_EmptySet
<1> QED
  BY <1>3 DEF S

LEMMA NextAhead ==
    ASSUME NEW q \in 0 .. SeqMod - 1, NEW p \in 0 .. SeqMod - 1, NEW j \in Nat,
           j + 1 < SeqMod, Ahead(q, p, j)
    PROVE  Ahead(NextSeq(q), p, j + 1)
<1>1. SeqMod \in Nat /\ SeqMod >= 2
  BY ChannelsConstants
<1>2. NextSeq(q) = IF q + 1 = SeqMod THEN 0 ELSE q + 1
  BY <1>1 DEF NextSeq
<1> QED
  BY <1>1, <1>2 DEF Ahead

\* A step ages the message.
LEMMA AgedMatches ==
    ASSUME Good(sys, {}), MessageMatches, NEW D, Step(sys, sys', D),
           upcall' = Aged
    PROVE  MessageMatches'
<1> SUFFICES ASSUME upcall' # None
             PROVE  /\ upcall' \in Message
                    /\ upcall'.stale = FALSE =>
                          /\ upcall'.age = 0 /\ Live(sys', upcall'.chan)
                          /\ sys'.chan[upcall'.chan].id = upcall'.id
                    /\ upcall'.stale = TRUE =>
                          \E j \in 1 .. upcall'.age :
                              Ahead(sys'.seq[upcall'.id[1]], upcall'.id[2], j)
  BY DEF MessageMatches, Live
<1> DEFINE m == upcall
           c == m.chan
           i == m.id[1]
           p == m.id[2]
           r == sys'
           stale == \/ m.stale
                    \/ r.chan[c] = None
                    \/ r.chan[c].shutdown
           age == IF stale THEN m.age + Deleted ELSE 0
<1>1. /\ m # None /\ ~(age >= SeqMod)
      /\ upcall' = [m EXCEPT !.stale = stale, !.age = age]
  BY DEF Aged
<1>2. /\ m \in Message /\ c \in Chans /\ m.id \in Ids /\ i \in Slots
      /\ p \in 0 .. SeqMod - 1 /\ m.age \in 0 .. SeqMod - 1
      /\ m.stale \in BOOLEAN /\ SeqMod \in Nat
  BY <1>1, SlotOf, ChannelsConstants DEF MessageMatches, Message
<1>3. Moves(sys, r, D) /\ Good(r, {})
  BY DEF Step
<1>4. /\ r.seq[i] = IF i \in D THEN NextSeq(sys.seq[i]) ELSE sys.seq[i]
      /\ sys.seq[i] \in 0 .. SeqMod - 1
      /\ r.chan[c] # None => r.chan[c].shutdown \in BOOLEAN
  <2>1. r.chan \in [Chans -> Channel \cup {None}]
    BY <1>3 DEF Good, Typed
  <2>2. r.chan[c] # None => r.chan[c].shutdown \in BOOLEAN
    BY <1>2, <2>1 DEF Channel
  <2>3. sys.seq[i] \in 0 .. SeqMod - 1
    BY <1>2 DEF Good, Typed
  <2> QED
    BY <1>2, <1>3, <2>2, <2>3 DEF Moves
<1>5. Deleted \in Nat /\ (i \in D => Deleted >= 1)
  <2>1. i \in D => r.seq[i] # sys.seq[i]
    BY <1>4, NextSeqType
  <2> QED
    BY <1>2, <2>1, DeletedType
<1>6. stale \in BOOLEAN /\ (stale <=> m.stale = TRUE \/ ~Live(r, c))
  BY <1>2, <1>4 DEF Live
<1>7. age \in 0 .. SeqMod - 1
  BY <1>1, <1>2, <1>5
<1> HIDE DEF m, stale, age, r
<1>8. /\ upcall' \in Message /\ upcall'.stale = stale /\ upcall'.age = age
      /\ upcall'.chan = c /\ upcall'.id = m.id
  BY <1>1, <1>2, <1>6, <1>7 DEF Message
<1>9. CASE m.stale = TRUE
  <2>1. stale = TRUE /\ age = m.age + Deleted
    BY <1>6, <1>9 DEF age
  <2>2. PICK j \in 1 .. m.age : Ahead(sys.seq[i], p, j)
    BY <1>1, <1>9 DEF MessageMatches, m
  <2>3. CASE i \in D
    <3>1. j + 1 \in 1 .. age /\ j + 1 < SeqMod
      BY <1>2, <1>5, <1>7, <2>1, <2>3
    <3>2. Ahead(r.seq[i], p, j + 1)
      BY <1>2, <1>4, <2>2, <2>3, <3>1, NextAhead
    <3> QED
      BY <1>8, <2>1, <3>1, <3>2 DEF r
  <2>4. CASE i \notin D
    <3>1. j \in 1 .. age
      BY <1>2, <1>5, <2>1
    <3>2. Ahead(r.seq[i], p, j)
      BY <1>4, <2>2, <2>4
    <3> QED
      BY <1>8, <2>1, <3>1, <3>2 DEF r
  <2> QED
    BY <2>3, <2>4
<1>10. CASE m.stale = FALSE
  <2>1. m.age = 0 /\ Live(sys, c) /\ sys.chan[c].id = m.id
    BY <1>1, <1>10 DEF MessageMatches, m
  <2>2. sys.seq[i] = p
    BY <1>2, <2>1 DEF Good, IdsMatch
  <2>3. CASE i \in D
    <3>1. ~Live(r, c)
      BY <1>2, <1>3, <2>1, <2>3 DEF Moves
    <3>2. stale = TRUE /\ age = Deleted
      BY <1>5, <1>6, <2>1, <3>1 DEF age
    <3>3. 1 \in 1 .. age
      BY <1>5, <2>3, <3>2
    <3>4. Ahead(p, p, 0) /\ 0 + 1 < SeqMod
      BY <1>2, ChannelsConstants DEF Ahead
    <3>5. Ahead(r.seq[i], p, 1)
      BY <1>2, <1>4, <2>2, <2>3, <3>4, NextAhead
    <3> QED
      BY <1>8, <3>2, <3>3, <3>5 DEF r
  <2>4. CASE i \notin D
    <3>1. Live(r, c) /\ r.chan[c].id = m.id
      BY <1>2, <1>3, <2>1, <2>4 DEF Moves
    <3>2. stale = FALSE /\ age = 0
      BY <1>6, <1>10, <3>1 DEF age
    <3> QED
      BY <1>8, <3>1, <3>2 DEF r
  <2> QED
    BY <2>3, <2>4
<1> QED
  BY <1>2, <1>9, <1>10

-----------------------------------------------------------------------------
(***************************************************************************)
(* The invariant is inductive.                                             *)
(***************************************************************************)
LEMMA InitIInv == Init => IInv
<1> SUFFICES ASSUME Init PROVE IInv
  OBVIOUS
<1> DEFINE f == [i \in Slots |-> i]
<1>1. /\ Is(sys, [t \in Tuners |-> None], [c \in Chans |-> None],
            [i \in Slots |-> 0], [i \in Slots |-> None], f, {},
            [t \in Tuners |-> None], FALSE, 0)
      /\ upcall = None
  BY DEF Init, Is, Rec, Fields
<1>2. /\ SeqMod \in Nat /\ SeqMod >= 2 /\ MaxChannels \in Nat /\ RccMod \in Nat
      /\ MaxChannels < RccMod /\ MaxRccs \in Nat /\ None \notin Chans
  BY ChannelsConstants
<1>3. f \in Seq(Slots) /\ Len(f) = MaxChannels
  BY <1>2, IsASeq, LenProperties DEF Slots
<1>4. Distinct(f) /\ \A i \in Slots : In(i, f)
  BY <1>3 DEF Distinct, In, Slots
<1> HIDE DEF f
<1>5. /\ sys.tuner = [t \in Tuners |-> None] /\ sys.chan = [c \in Chans |-> None]
      /\ sys.seq = [i \in Slots |-> 0] /\ sys.ptr = [i \in Slots |-> None]
      /\ sys.free = f /\ sys.graphs = {} /\ sys.map = [t \in Tuners |-> None]
      /\ sys.poll = FALSE /\ sys.rccs = 0 /\ Rec(sys)
  BY <1>1 DEF Is
<1>6. Typed(sys)
  <2>1. sys.rccs \in 0 .. RccMod - 1 /\ 0 \in 0 .. SeqMod - 1
    BY <1>2, <1>5
  <2>2. /\ sys.tuner \in [Tuners -> Tuner \cup {None}]
        /\ sys.chan \in [Chans -> Channel \cup {None}]
        /\ sys.seq \in [Slots -> 0 .. SeqMod - 1]
        /\ sys.ptr \in [Slots -> Chans \cup {None}]
        /\ sys.map \in [Tuners -> Chans \cup {None}]
    BY <1>5, <2>1
  <2> QED
    BY <1>3, <1>5, <2>1, <2>2 DEF Typed
<1>7. IdsMatch(sys)
  BY <1>5 DEF IdsMatch, Live
<1>8. FreeMatches(sys)
  BY <1>4, <1>5 DEF FreeMatches
<1>9. TunersMatch(sys)
  BY <1>5 DEF TunersMatch, BoundTo
<1>10. NotIdle(sys, {}) /\ ByesMatch(sys, {}) /\ Polled(sys)
  BY <1>5 DEF NotIdle, ByesMatch, Polled
<1>11. GraphsMatch(sys)
  BY <1>2, <1>5 DEF GraphsMatch, BoundTo
<1>12. RccsMatch(sys)
  <2>1. Rccs(sys) = {}
    BY <1>5 DEF Rccs
  <2> QED
    BY <1>2, <1>5, <2>1, FS_EmptySet DEF RccsMatch
<1> QED
  BY <1>1, <1>6, <1>7, <1>8, <1>9, <1>10, <1>11, <1>12
  DEF IInv, Good, MessageMatches

\* A call or a timer moves the state on; the dataplane sends or the control
\* plane receives a message.
LEMMA NextSteps ==
    ASSUME Good(sys, {}), Next
    PROVE  \/ (\E D : Step(sys, sys', D)) /\ upcall' = Aged
           \/ \E c \in Chans : DpSend(c)
           \/ Receive
<1>1. CASE \E t \in Tuners : CreateTuner(t)
  BY <1>1, CreateTunerStep DEF CreateTuner, Becomes
<1>2. CASE \E t \in Tuners, timer \in BOOLEAN : DestroyTuner(t, timer)
  BY <1>2, DestroyTunerStep DEF DestroyTuner, Becomes
<1>3. CASE \E t \in Tuners, c \in Chans, want \in BOOLEAN, fail \in BindFails,
              timer \in BOOLEAN : Bind(t, c, want, fail, timer)
  <2>1. PICK t \in Tuners, c \in Chans, want \in BOOLEAN, fail \in BindFails,
             timer \in BOOLEAN : Bind(t, c, want, fail, timer)
    BY <1>3
  <2>2. upcall' = Aged
    BY <2>1, Zenon DEF Bind, Becomes
  <2>3. \E D : Step(sys, sys', D)
    BY <2>1, BindStep
  <2> QED
    BY <2>2, <2>3
<1>4. CASE \E c \in Chans : BindNoTuner(c)
  <2>1. PICK c \in Chans : BindNoTuner(c)
    BY <1>4
  <2>2. upcall' = Aged
    BY <2>1, Zenon DEF BindNoTuner, Becomes
  <2> QED
    BY <2>1, <2>2, BindNoTunerStep
<1>5. CASE \E t \in Tuners, timer \in BOOLEAN : Unbind(t, timer)
  BY <1>5, UnbindStep DEF Unbind, Becomes
<1>6. CASE \E c \in Chans : ByeEvent(c)
  <2>1. PICK c \in Chans : ByeEvent(c)
    BY <1>6
  <2>2. upcall' = Aged
    BY <2>1, Zenon DEF ByeEvent, Becomes
  <2> QED
    BY <2>1, <2>2, ByeEventStep
<1>7. CASE \E c \in Chans : RccAbort(c)
  <2>1. PICK c \in Chans : RccAbort(c)
    BY <1>7
  <2>2. upcall' = Aged
    BY <2>1, Zenon DEF RccAbort, Becomes
  <2> QED
    BY <2>1, <2>2, RccAbortStep
<1> QED
  BY <1>1, <1>2, <1>3, <1>4, <1>5, <1>6, <1>7 DEF Next

LEMMA NextIInv == IInv /\ [Next]_vars => IInv'
<1> SUFFICES ASSUME IInv, [Next]_vars PROVE IInv'
  OBVIOUS
<1>1. Good(sys, {}) /\ MessageMatches
  BY DEF IInv
<1>2. CASE (\E D : Step(sys, sys', D)) /\ upcall' = Aged
  <2>1. PICK D : Step(sys, sys', D)
    BY <1>2
  <2>2. Good(sys', {})
    BY <2>1 DEF Step
  <2>3. MessageMatches'
    BY <1>1, <1>2, <2>1, AgedMatches
  <2>4. Good(sys, {})'
    BY <2>2 DEF Good, Typed, Rec, IdsMatch, Live, FreeMatches, TunersMatch,
                BoundTo, NotIdle, ByesMatch, GraphsMatch, Polled, RccsMatch,
                Rccs, Counts
  <2> QED
    BY <2>3, <2>4 DEF IInv
<1>3. CASE \E c \in Chans : DpSend(c)
  <2>1. PICK c \in Chans : DpSend(c)
    BY <1>3
  <2>2. /\ sys' = sys /\ c \in sys.graphs
        /\ upcall' = [id |-> sys.chan[c].id, chan |-> c, stale |-> FALSE, age |-> 0]
    BY <2>1 DEF DpSend
  <2>3. sys.chan[c] # None /\ sys.chan[c].tuners # {}
    BY <1>1, <2>2 DEF Good, GraphsMatch
  <2>4. Live(sys, c)
    <3>1. sys.chan[c].shutdown \in BOOLEAN
      BY <1>1, <2>3 DEF Good, Typed, Channel
    <3> QED
      BY <1>1, <2>3, <3>1 DEF Good, NotIdle, Live
  <2>5. sys.chan[c].id \in Ids
    BY <1>1, <2>4, LiveId DEF Good
  <2>6. upcall' \in Message /\ 0 \in 0 .. SeqMod - 1
    BY <2>2, <2>5, ChannelsConstants DEF Message
  <2>7. MessageMatches'
    BY <2>2, <2>4, <2>6 DEF MessageMatches, Live
  <2> QED
    BY <1>1, <2>2, <2>7 DEF IInv
<1>4. CASE Receive
  BY <1>1, <1>4 DEF Receive, IInv, MessageMatches
<1>5. CASE UNCHANGED vars
  BY <1>1, <1>5 DEF vars, IInv, MessageMatches
<1> QED
  BY <1>1, <1>2, <1>3, <1>4, <1>5, NextSteps

THEOREM ChannelsInvariance == Spec => []IInv
  BY InitIInv, NextIInv, PTL DEF Spec

-----------------------------------------------------------------------------
(***************************************************************************)
(* What the invariant means for the properties of the model.               *)
(***************************************************************************)
LEMMA FreeIsBounded ==
    ASSUME Good(sys, {})
    PROVE  Len(sys.free) <= MaxChannels
<1> DEFINE f == sys.free
           n == Len(f)
<1>1. f \in Seq(Slots) /\ Distinct(f)
  BY DEF Good, Typed, FreeMatches
<1> HIDE DEF f
<1>2. n \in Nat /\ f \in [1 .. n -> Slots]
  BY <1>1, LenProperties
<1> HIDE DEF n
<1>3. f \in Injection(1 .. n, Slots)
  BY <1>1, <1>2, Fun_IsInj DEF Distinct, n
<1>4. /\ IsFiniteSet(Slots) /\ Cardinality(Slots) = MaxChannels
      /\ MaxChannels \in Nat
  BY FS_Interval, ChannelsConstants DEF Slots
<1>5. Cardinality(1 .. n) <= Cardinality(Slots)
  BY <1>3, <1>4, FS_Injection
<1>6. Cardinality(1 .. n) = IF 1 > n THEN 0 ELSE n - 1 + 1
  BY <1>2, FS_Interval
<1>7. Cardinality(1 .. n) = n
  BY <1>2, <1>6
<1> QED
  BY <1>4, <1>5, <1>7 DEF n, f

LEMMA ChanOfTunerIs ==
    ASSUME Good(sys, {}), NEW t \in Tuners
    PROVE  /\ \A c \in Chans : ChanOfTuner(t) = c <=> BoundTo(sys, t, c)
           /\ ChanOfTuner(t) = None \/ \E c \in Chans : BoundTo(sys, t, c)
<1>1. /\ Typed(sys) /\ IdsMatch(sys) /\ TunersMatch(sys) /\ None \notin Chans
  BY ChannelsConstants DEF Good
<1>2. ASSUME NEW c \in Chans, BoundTo(sys, t, c)
      PROVE  ChanOfTuner(t) = c
  <2>1. /\ Live(sys, c) /\ sys.tuner[t] # None
        /\ sys.tuner[t].chanid = sys.chan[c].id
    BY <1>1, <1>2 DEF TunersMatch, BoundTo, Live
  <2>2. ChanOf(sys, sys.chan[c].id) = c
    BY <1>1, <2>1, LiveId
  <2> QED
    BY <2>1, <2>2 DEF ChanOfTuner
<1>3. CASE \E c \in Chans : BoundTo(sys, t, c)
  BY <1>2, <1>3
<1>4. CASE ~\E c \in Chans : BoundTo(sys, t, c)
  <2>1. sys.tuner[t] = None \/ sys.tuner[t].chanid = None
    BY <1>1, <1>4 DEF TunersMatch
  <2>2. ChanOfTuner(t) = None
    BY <2>1 DEF ChanOfTuner, ChanOf
  <2> QED
    BY <1>1, <1>4, <2>2
<1> QED
  BY <1>3, <1>4

\* After every call of the client interface, one that fails included
\* (vqec_ifclient_tuner_bind_chan_cfg_internal, vqec_tuner_bind_chan,
\* vqec_chan_bind, vqec_chan_unbind, vqec_chan_destroy), the tuners, the
\* channels, the identifier table and the dataplane agree on who is bound to
\* what, and no channel is left that has no tuner and waits for no BYE.
THEOREM TablesTellTheSame == Spec => []TablesAgree
<1>1. IInv => TablesAgree
  <2> SUFFICES ASSUME IInv PROVE TablesAgree
    OBVIOUS
  <2>1. /\ Good(sys, {}) /\ Typed(sys) /\ TunersMatch(sys) /\ NotIdle(sys, {})
        /\ GraphsMatch(sys) /\ None \notin Chans
    BY ChannelsConstants DEF IInv, Good
  <2>2. TypeOK
    BY <2>1, FreeIsBounded DEF IInv, MessageMatches, Typed, TypeOK
  <2>3. BindingsAgree
    <3>1. ASSUME NEW t \in Tuners, sys.tuner[t] # None, sys.tuner[t].chanid # None
          PROVE  ChanOfTuner(t) # None
      BY <2>1, <3>1, ChanOfTunerIs DEF TunersMatch
    <3>2. \A t \in Tuners, c \in Chans :
            (Exists(c) /\ t \in sys.chan[c].tuners) <=> ChanOfTuner(t) = c
      BY <2>1, ChanOfTunerIs DEF Exists, BoundTo
    <3> QED
      BY <3>1, <3>2 DEF BindingsAgree
  <2>4. DpFollows
    <3>1. sys.graphs = {c \in Chans : Exists(c) /\ sys.chan[c].tuners # {}}
      BY <2>1 DEF GraphsMatch, Exists, Typed
    <3>2. ASSUME NEW t \in Tuners
          PROVE  sys.map[t] = ChanOfTuner(t)
      <4>1. sys.map[t] \in Chans \cup {None}
        BY <2>1 DEF Typed
      <4>2. \A c \in Chans : sys.map[t] = c <=> ChanOfTuner(t) = c
        BY <2>1, ChanOfTunerIs DEF GraphsMatch
      <4>3. ChanOfTuner(t) \in Chans \cup {None}
        BY <2>1, ChanOfTunerIs
      <4> QED
        BY <4>1, <4>2, <4>3
    <3> QED
      BY <3>1, <3>2 DEF DpFollows
  <2>5. NoIdleChannel
    <3> SUFFICES ASSUME NEW c \in Chans, Exists(c)
                 PROVE  sys.chan[c].shutdown <=> sys.chan[c].tuners = {}
      BY DEF NoIdleChannel
    <3>1. sys.chan[c].shutdown \in BOOLEAN
      BY <2>1 DEF Typed, Exists, Channel
    <3> QED
      BY <2>1, <3>1 DEF NotIdle, Exists
  <2> QED
    BY <2>2, <2>3, <2>4, <2>5 DEF TablesAgree
<1> QED
  BY <1>1, ChannelsInvariance, PTL

\* vqec_chan_module_init makes the identifier table larger than the number of
\* tuners; id_get therefore never finds it full.
THEOREM TableHasRoom == Spec => []IdsSuffice
<1>1. IInv => IdsSuffice
  <2> SUFFICES ASSUME IInv, sys.free = <<>> PROVE FALSE
    BY DEF IdsSuffice
  <2> DEFINE Has(i, t) == BoundTo(sys, t, sys.ptr[i])
             f == [i \in Slots |-> CHOOSE t \in Tuners : Has(i, t)]
  <2>1. /\ Typed(sys) /\ IdsMatch(sys) /\ FreeMatches(sys) /\ TunersMatch(sys)
        /\ NotIdle(sys, {})
    BY DEF IInv, Good
  <2>2. \A i \in Slots : /\ sys.ptr[i] \in Chans /\ Live(sys, sys.ptr[i])
                         /\ sys.chan[sys.ptr[i]].id[1] = i
    <3>1. \A i \in Slots : ~In(i, sys.free)
      BY DEF In
    <3>2. \A i \in Slots : sys.ptr[i] # None /\ sys.ptr[i] \in Chans \cup {None}
      BY <2>1, <3>1 DEF FreeMatches, Typed
    <3> QED
      BY <2>1, <3>2 DEF IdsMatch
  <2>3. \A i \in Slots : \E t \in Tuners : Has(i, t)
    <3> SUFFICES ASSUME NEW i \in Slots PROVE \E t \in Tuners : Has(i, t)
      OBVIOUS
    <3> DEFINE c == sys.ptr[i]
    <3>1. c \in Chans /\ sys.chan[c] # None /\ sys.chan[c].shutdown = FALSE
      BY <2>2 DEF Live
    <3>2. sys.chan[c].tuners # {} /\ sys.chan[c].tuners \subseteq Tuners
      BY <2>1, <3>1 DEF NotIdle, Typed, Channel
    <3> QED
      BY <3>1, <3>2 DEF BoundTo
  <2>4. \A i \in Slots : f[i] \in Tuners /\ Has(i, f[i])
    BY <2>3
  <2> HIDE DEF f
  <2>5. ASSUME NEW i \in Slots, NEW j \in Slots, f[i] = f[j]
        PROVE  i = j
    <3>1. sys.ptr[i] = sys.ptr[j]
      BY <2>1, <2>2, <2>4, <2>5, BoundOnce
    <3> QED
      BY <2>2, <3>1
  <2>6. f \in [Slots -> Tuners]
    BY <2>4 DEF f
  <2>7. f \in Injection(Slots, Tuners)
    BY <2>5, <2>6, Fun_IsInj
  <2>8. Cardinality(Slots) <= Cardinality(Tuners)
    BY <2>7, FS_Injection, ChannelsConstants
  <2>9. Cardinality(Slots) = MaxChannels
    BY FS_Interval, ChannelsConstants DEF Slots
  <2>10. Cardinality(Tuners) \in Nat /\ MaxChannels \in Nat
    BY FS_CardinalityType, ChannelsConstants
  <2> QED
    BY <2>8, <2>9, <2>10, ChannelsConstants
<1> QED
  BY <1>1, ChannelsInvariance, PTL

\* vqec_chanid_to_chan of the identifier in a late message: a channel that is
\* gone is not found, whatever has been allocated in its slot since then,
\* unless the sequence numbers have come round.
THEOREM LateMessageIsDead == Spec => []StaleIdDead
<1>1. IInv => StaleIdDead
  <2> SUFFICES ASSUME IInv, upcall # None, upcall.stale
               PROVE  ChanOf(sys, upcall.id) = None
    BY DEF StaleIdDead
  <2> DEFINE i == upcall.id[1]
             p == upcall.id[2]
  <2>1. /\ upcall \in Message /\ upcall.id \in Ids /\ upcall.stale = TRUE
        /\ upcall.age \in 0 .. SeqMod - 1
    BY DEF IInv, MessageMatches, Message
  <2>2. i \in Slots /\ p \in 0 .. SeqMod - 1 /\ SeqMod \in Nat
    BY <2>1, SlotOf, ChannelsConstants
  <2>3. PICK j \in 1 .. upcall.age : Ahead(sys.seq[i], p, j)
    BY <2>1 DEF IInv, MessageMatches
  <2> HIDE DEF i, p
  <2>4. sys.seq[i] # p
    BY <2>1, <2>2, <2>3 DEF Ahead
  <2> QED
    BY <2>4 DEF ChanOf, i, p
<1> QED
  BY <1>1, ChannelsInvariance, PTL

\* vqec_chan_deinit_multibye and vqec_chan_bye_event_handler: the BYEs that a
\* channel in shutdown has sent and those it has to send are num_byes.
THEOREM ByesAddUp == Spec => []ByesComplete
<1>1. IInv => ByesComplete
  BY DEF IInv, Good, ByesMatch, Typed, Channel, ByesComplete, Exists
<1> QED
  BY <1>1, ChannelsInvariance, PTL

\* The poll timer of vqec_chan_get_chanid is stopped with the last channel and
\* not before (vqec_chan_bye_event_handler).
THEOREM PollGoesOn == Spec => []PollRuns
<1>1. IInv => PollRuns
  BY DEF IInv, Good, Polled, PollRuns, Exists
<1> QED
  BY <1>1, ChannelsInvariance, PTL

LEMMA CurrentRccsAre ==
    ASSUME Good(sys, {})
    PROVE  CurrentRccs = Rccs(sys)
<1>1. \A c \in Chans : Exists(c) =>
        sys.chan[c].rcc \in BOOLEAN /\ sys.chan[c].aborted \in BOOLEAN
  BY DEF Good, Typed, Channel, Exists
<1> QED
  BY <1>1 DEF CurrentRccs, Rccs, Counts, Exists

\* num_current_rccs, which wraps round and is counted down in two places
\* (vqec_chan_destroy, also of a bind that failed, and
\* vqec_chan_rcc_abort_notify), is the number of rapid channel changes under way,
\* if no bind fails between the decision for one and its start.
THEOREM RccsAreCounted ==
    ASSUME RccFailures = FALSE
    PROVE  Spec => []RccsCounted
<1>1. IInv => RccsCounted
  BY CurrentRccsAre DEF IInv, Good, RccsMatch, RccsCounted
<1> QED
  BY <1>1, ChannelsInvariance, PTL

\* Then rcc_max_concurrent, the number that the packet pool is made for, bounds
\* them: what breaks the bound in the model is such a failure alone.
THEOREM RccsAreLimited ==
    ASSUME RccFailures = FALSE
    PROVE  Spec => []RccLimit
<1>1. IInv => RccLimit
  BY CurrentRccsAre DEF IInv, Good, RccsMatch, RccLimit
<1> QED
  BY <1>1, ChannelsInvariance, PTL
=============================================================================
