----------------------------- MODULE EventQProofs -----------------------------
(***************************************************************************)
(* Facts about the event ring that the proofs of both state machines use:  *)
(* a consistent ring with room accepts an event, and leasing and releasing *)
(* keep it consistent.                                                     *)
(***************************************************************************)
EXTENDS EventQ, TLAPS

\* The index arithmetic of deliver_event(): the slot after the last is slot 0.
LEMMA WrapAround ==
    ASSUME NEW i \in Slot
    PROVE  NextSlot(i) = (IF i = 3 THEN 0 ELSE i + 1) /\ NextSlot(i) \in Slot
<1>1. i \in {0, 1, 2, 3}
  BY DEF Slot, MAX_EVENTQ_DEPTH
<1> QED
  BY <1>1 DEF NextSlot, Slot, MAX_EVENTQ_DEPTH

\* When the next slot to lease advances, so does its distance from cur.
LEMMA LastAdvances ==
    ASSUME NEW c \in Slot, NEW i \in Slot, Dist(c, i) < 4
    PROVE  \/ Dist(c, i) + 1 < 4 /\ Dist(c, NextSlot(i)) = Dist(c, i) + 1
           \/ Dist(c, i) + 1 = 4 /\ NextSlot(i) = c
<1>1. c \in {0, 1, 2, 3} /\ i \in {0, 1, 2, 3}
  BY DEF Slot, MAX_EVENTQ_DEPTH
<1> QED
  BY <1>1, WrapAround DEF Dist, MAX_EVENTQ_DEPTH

\* When cur advances, the distance to the next slot to lease shrinks.
LEMMA FirstAdvances ==
    ASSUME NEW c \in Slot, NEW i \in Slot
    PROVE  /\ i # c => Dist(NextSlot(c), i) = Dist(c, i) - 1
           /\ i = c => Dist(c, i) = 0 /\ Dist(NextSlot(c), i) = 3
<1>1. c \in {0, 1, 2, 3} /\ i \in {0, 1, 2, 3}
  BY DEF Slot, MAX_EVENTQ_DEPTH
<1> QED
  BY <1>1, WrapAround DEF Dist, MAX_EVENTQ_DEPTH

\* A ring with fewer than four events passes both assertions at the head of
\* deliver_event(): the slot the next event takes is free.
LEMMA RoomToLease ==
    ASSUME NEW E, NEW r \in QueueOf(E), RingConsistent(r), r.depth < MAX_EVENTQ_DEPTH
    PROVE  CanLease(r)
  BY DEF QueueOf, RingConsistent, CanLease, Dist, Slot, MAX_EVENTQ_DEPTH

\* Leasing keeps the ring's type and adds one event behind the others.
LEMMA LeaseType ==
    ASSUME NEW E, NEW r \in QueueOf(E), NEW e \in E
    PROVE  /\ Lease(r, e) \in QueueOf(E)
           /\ Lease(r, e).depth = r.depth + 1
           /\ Lease(r, e).cur = r.cur
           /\ Lease(r, e).idx = NextSlot(r.idx)
           /\ Lease(r, e).slot = [r.slot EXCEPT ![r.idx] = e]
<1>1. NextSlot(r.idx) \in Slot
  BY WrapAround DEF QueueOf
<1> QED
  BY <1>1 DEF QueueOf, Lease

\* Leasing a slot of a consistent ring with room leaves it consistent.
LEMMA LeaseRing ==
    ASSUME NEW E, NEW r \in QueueOf(E), NEW e \in E, e # NoEvent,
           RingConsistent(r), r.depth < MAX_EVENTQ_DEPTH
    PROVE  RingConsistent(Lease(r, e))
<1>1. /\ r.idx \in Slot /\ r.cur \in Slot /\ r.depth \in Nat
      /\ r.slot \in [Slot -> E \cup {NoEvent}]
  BY DEF QueueOf
<1>2. NextSlot(r.idx) = IF r.idx = 3 THEN 0 ELSE r.idx + 1
  BY <1>1, WrapAround
<1> DEFINE s == Lease(r, e)
<1>3. /\ s.depth = r.depth + 1 /\ s.cur = r.cur /\ s.idx = NextSlot(r.idx)
      /\ s.slot = [r.slot EXCEPT ![r.idx] = e]
  BY LeaseType
<1> HIDE DEF s
<1>4. ASSUME NEW i \in Slot
      PROVE  (s.slot[i] # NoEvent) <=> Dist(s.cur, i) < s.depth
  <2>1. CASE i = r.idx
    BY <1>1, <1>3, <2>1 DEF RingConsistent, Dist, Slot, MAX_EVENTQ_DEPTH
  <2>2. CASE i # r.idx
    <3>1. s.slot[i] = r.slot[i]
      BY <1>1, <1>3, <2>2
    <3>2. Dist(r.cur, i) # Dist(r.cur, r.idx)
      BY <1>1, <2>2 DEF Dist, Slot, MAX_EVENTQ_DEPTH
    <3> QED
      BY <1>1, <1>3, <3>1, <3>2 DEF RingConsistent, Dist, Slot, MAX_EVENTQ_DEPTH
  <2> QED
    BY <2>1, <2>2
<1>5. \/ s.depth < MAX_EVENTQ_DEPTH /\ Dist(s.cur, s.idx) = s.depth
      \/ s.depth = MAX_EVENTQ_DEPTH /\ s.idx = s.cur
  BY <1>1, <1>3, LastAdvances DEF RingConsistent, MAX_EVENTQ_DEPTH
<1>6. RingConsistent(s)
  BY <1>4, <1>5 DEF RingConsistent
<1> QED
  BY <1>6 DEF s

\* The same for an event that may be none.
LEMMA LeaseIfRing ==
    ASSUME NEW E, NEW r \in QueueOf(E), NEW e \in E \cup {NoEvent},
           RingConsistent(r), r.depth < MAX_EVENTQ_DEPTH
    PROVE  LET s == LeaseIf(r, e # NoEvent, e) IN
           /\ s \in QueueOf(E) /\ RingConsistent(s)
           /\ s.depth = r.depth + (IF e = NoEvent THEN 0 ELSE 1)
           /\ s.cur = r.cur
           /\ e # NoEvent => CanLease(r)
<1>1. CASE e = NoEvent
  <2>1. LeaseIf(r, e # NoEvent, e) = r
    BY <1>1 DEF LeaseIf
  <2>2. r.depth = r.depth + 0
    BY DEF QueueOf
  <2> QED
    BY <1>1, <2>1, <2>2
<1>2. CASE e # NoEvent
  <2>0. e \in E
    BY <1>2
  <2>1. LeaseIf(r, e # NoEvent, e) = Lease(r, e)
    BY <1>2 DEF LeaseIf
  <2>2. RingConsistent(Lease(r, e)) /\ CanLease(r)
    BY <1>2, <2>0, LeaseRing, RoomToLease
  <2>3. Lease(r, e) \in QueueOf(E)
    BY <2>0, LeaseType
  <2>4. Lease(r, e).depth = r.depth + 1 /\ Lease(r, e).cur = r.cur
    BY <2>0 DEF Lease
  <2> QED
    BY <1>2, <2>1, <2>2, <2>3, <2>4
<1> QED
  BY <1>1, <1>2

\* Releasing the current slot keeps the ring's type and takes one event off.
LEMMA ReleaseType ==
    ASSUME NEW E, NEW r \in QueueOf(E), r.depth > 0
    PROVE  /\ Release(r) \in QueueOf(E)
           /\ Release(r).depth = r.depth - 1
           /\ Release(r).cur = NextSlot(r.cur)
           /\ Release(r).idx = r.idx
           /\ Release(r).slot = [r.slot EXCEPT ![r.cur] = NoEvent]
<1>1. NextSlot(r.cur) \in Slot /\ r.depth - 1 \in Nat
  BY WrapAround DEF QueueOf
<1> QED
  BY <1>1 DEF QueueOf, Release

\* Releasing the current slot of a consistent ring that is not empty leaves it
\* consistent.
LEMMA ReleaseRing ==
    ASSUME NEW E, NEW r \in QueueOf(E), RingConsistent(r), r.depth > 0
    PROVE  RingConsistent(Release(r))
<1>1. /\ r.idx \in Slot /\ r.cur \in Slot /\ r.depth \in Nat
      /\ r.slot \in [Slot -> E \cup {NoEvent}]
  BY DEF QueueOf
<1>2. NextSlot(r.cur) = IF r.cur = 3 THEN 0 ELSE r.cur + 1
  BY <1>1, WrapAround
<1> DEFINE s == Release(r)
<1>3. /\ s.depth = r.depth - 1 /\ s.cur = NextSlot(r.cur) /\ s.idx = r.idx
      /\ s.slot = [r.slot EXCEPT ![r.cur] = NoEvent]
  BY ReleaseType
<1> HIDE DEF s
<1>4. ASSUME NEW i \in Slot
      PROVE  (s.slot[i] # NoEvent) <=> Dist(s.cur, i) < s.depth
  <2>1. CASE i = r.cur
    BY <1>1, <1>2, <1>3, <2>1 DEF RingConsistent, Dist, Slot, MAX_EVENTQ_DEPTH
  <2>2. CASE i # r.cur
    <3>1. s.slot[i] = r.slot[i]
      BY <1>1, <1>3, <2>2
    <3>2. Dist(s.cur, i) = Dist(r.cur, i) - 1
      BY <1>1, <1>2, <1>3, <2>2 DEF Dist, Slot, MAX_EVENTQ_DEPTH
    <3>3. Dist(r.cur, i) \in Nat
      BY <1>1 DEF Dist, Slot, MAX_EVENTQ_DEPTH
    <3> QED
      BY <1>1, <1>3, <3>1, <3>2, <3>3 DEF RingConsistent
  <2> QED
    BY <2>1, <2>2
<1>5. \/ s.depth < MAX_EVENTQ_DEPTH /\ Dist(s.cur, s.idx) = s.depth
      \/ s.depth = MAX_EVENTQ_DEPTH /\ s.idx = s.cur
  BY <1>1, <1>3, FirstAdvances DEF RingConsistent, MAX_EVENTQ_DEPTH
<1>6. RingConsistent(s)
  BY <1>4, <1>5 DEF RingConsistent
<1> QED
  BY <1>6 DEF s
-----------------------------------------------------------------------------
(***************************************************************************)
(* The ring as the queue it implements.                                    *)
(***************************************************************************)

\* The event k places behind the current one, NoEvent if there is none.
At(r, k) == r.slot[(r.cur + k) % MAX_EVENTQ_DEPTH]

\* A step of k slots round the ring stays within it, and its length is k.
LEMMA RoundTheRing ==
    ASSUME NEW c \in Slot, NEW k \in Slot
    PROVE  /\ (c + k) % MAX_EVENTQ_DEPTH \in Slot
           /\ Dist(c, (c + k) % MAX_EVENTQ_DEPTH) = k
           /\ \A i \in Slot : Dist(c, i) = k => i = (c + k) % MAX_EVENTQ_DEPTH
           /\ (c + 0) % MAX_EVENTQ_DEPTH = c
           /\ k < 3 => (NextSlot(c) + k) % MAX_EVENTQ_DEPTH = (c + (k + 1)) % MAX_EVENTQ_DEPTH
<1>1. c \in {0, 1, 2, 3} /\ k \in {0, 1, 2, 3}
  BY DEF Slot, MAX_EVENTQ_DEPTH
<1>2. (c + k) % MAX_EVENTQ_DEPTH = IF c + k >= 4 THEN c + k - 4 ELSE c + k
  BY <1>1 DEF MAX_EVENTQ_DEPTH
<1>3. (c + 0) % MAX_EVENTQ_DEPTH = c
  BY <1>1 DEF MAX_EVENTQ_DEPTH
<1>4. k < 3 => (NextSlot(c) + k) % MAX_EVENTQ_DEPTH = (c + (k + 1)) % MAX_EVENTQ_DEPTH
  BY <1>1, WrapAround DEF MAX_EVENTQ_DEPTH
<1> QED
  BY <1>1, <1>2, <1>3, <1>4 DEF Dist, Slot, MAX_EVENTQ_DEPTH

\* The places up to the depth of the queue hold events, the others none.
LEMMA AtDepth ==
    ASSUME NEW E, NEW r \in QueueOf(E), RingConsistent(r), NEW k \in Slot
    PROVE  /\ At(r, k) # NoEvent <=> k < r.depth
           /\ At(r, 0) = Current(r)
           /\ At(r, k) \in E \cup {NoEvent}
<1>1. r.cur \in Slot /\ r.slot \in [Slot -> E \cup {NoEvent}]
  BY DEF QueueOf
<1> QED
  BY <1>1, RoundTheRing DEF At, RingConsistent, Current

\* deliver_event() adds its event behind the others.
LEMMA LeaseAt ==
    ASSUME NEW E, NEW r \in QueueOf(E), NEW e \in E, RingConsistent(r),
           r.depth < MAX_EVENTQ_DEPTH, NEW k \in Slot
    PROVE  At(Lease(r, e), k) = IF k = r.depth THEN e ELSE At(r, k)
<1>1. /\ r.cur \in Slot /\ r.idx \in Slot /\ r.slot \in [Slot -> E \cup {NoEvent}]
      /\ r.depth \in Nat
  BY DEF QueueOf
<1>2. r.depth \in Slot
  BY <1>1 DEF Slot, MAX_EVENTQ_DEPTH
<1>3. Dist(r.cur, r.idx) = r.depth
  BY <1>1 DEF RingConsistent, MAX_EVENTQ_DEPTH
<1>4. r.idx = (r.cur + r.depth) % MAX_EVENTQ_DEPTH
  BY <1>1, <1>2, <1>3, RoundTheRing
<1>5. (r.cur + k) % MAX_EVENTQ_DEPTH \in Slot /\ Dist(r.cur, (r.cur + k) % MAX_EVENTQ_DEPTH) = k
  BY <1>1, RoundTheRing
<1>6. Lease(r, e).slot = [r.slot EXCEPT ![r.idx] = e] /\ Lease(r, e).cur = r.cur
  BY LeaseType
<1>7. CASE k = r.depth
  BY <1>1, <1>4, <1>5, <1>6, <1>7 DEF At
<1>8. CASE k # r.depth
  BY <1>1, <1>3, <1>5, <1>6, <1>8 DEF At
<1> QED
  BY <1>7, <1>8

\* The end of a round takes the current event away.
LEMMA ReleaseAt ==
    ASSUME NEW E, NEW r \in QueueOf(E), r.depth > 0, NEW k \in 0 .. 2
    PROVE  At(Release(r), k) = At(r, k + 1)
<1>1. r.cur \in Slot /\ r.slot \in [Slot -> E \cup {NoEvent}] /\ k \in Slot /\ k < 3 /\ k + 1 \in Slot
  BY DEF QueueOf, Slot, MAX_EVENTQ_DEPTH
<1>2. (NextSlot(r.cur) + k) % MAX_EVENTQ_DEPTH = (r.cur + (k + 1)) % MAX_EVENTQ_DEPTH
  BY <1>1, RoundTheRing
<1>3. /\ (r.cur + (k + 1)) % MAX_EVENTQ_DEPTH \in Slot
      /\ Dist(r.cur, (r.cur + (k + 1)) % MAX_EVENTQ_DEPTH) = k + 1
  BY <1>1, RoundTheRing
<1>4. (r.cur + (k + 1)) % MAX_EVENTQ_DEPTH # r.cur
  BY <1>1, <1>3 DEF Dist, Slot, MAX_EVENTQ_DEPTH
<1>5. Release(r).slot = [r.slot EXCEPT ![r.cur] = NoEvent] /\ Release(r).cur = NextSlot(r.cur)
  BY ReleaseType
<1> QED
  BY <1>1, <1>2, <1>3, <1>4, <1>5 DEF At
=============================================================================
