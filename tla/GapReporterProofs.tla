------------------------- MODULE GapReporterProofs -------------------------
(***************************************************************************)
(* Proofs about the packet cache: that its views of the packets agree,     *)
(* that the next packet is found and that packets are handed on in order;  *)
(* and about the gap reporter: that it asks for no packet twice, only for  *)
(* those whose repair is of use, and leaves none out, that a NACK names   *)
(* the packets that are paid for, and that the policer bounds the repairs  *)
(* asked for, whatever packets come, whenever it runs and however many     *)
(* gaps it finds.                                                          *)
(*                                                                         *)
(* The model's loops are folds.  The induction theorems of the library     *)
(* take an operator as a parameter; BoundedInduction does without, it is   *)
(* about a set of numbers, and follows from the well-foundedness of the    *)
(* proper subsets of a finite set.  With it each fold is shown to be the   *)
(* last of a sequence f of values, each of which is the loop's step taken  *)
(* from the one before; what holds after the loop is then an induction     *)
(* along f.                                                                *)
(***************************************************************************)
EXTENDS GapReporter, FiniteSetTheorems, SequenceTheorems, TLAPS

-----------------------------------------------------------------------------
(***************************************************************************)
(* Induction and folds.                                                    *)
(***************************************************************************)
\* Induction up to n, over the members of a set.
LEMMA BoundedInduction ==
    ASSUME NEW n \in Nat, NEW A, 0 \in A,
           \A k \in 0 .. n - 1 : k \in A => k + 1 \in A
    PROVE  n \in A
<1> DEFINE T == {0 .. k : k \in (0 .. n) \ A}
<1>1. IsFiniteSet(0 .. n)
  BY FS_Interval
<1>2. IsWellFoundedOn(StrictSubsetOrdering(0 .. n), FiniteSubsetsOf(0 .. n))
  BY <1>1, FS_StrictSubsetOrderingWellFounded
<1>3. T \subseteq FiniteSubsetsOf(0 .. n)
  <2>1. ASSUME NEW k \in 0 .. n PROVE 0 .. k \subseteq 0 .. n /\ IsFiniteSet(0 .. k)
    BY FS_Interval
  <2> QED BY <2>1 DEF FiniteSubsetsOf
<1>4. SUFFICES ASSUME n \notin A PROVE FALSE
  OBVIOUS
<1>5. T # {}
  BY <1>4
<1> HIDE DEF T
<1>6. PICK t \in T : \A y \in T : ~ (<<y, t>> \in StrictSubsetOrdering(0 .. n))
  BY <1>2, <1>3, <1>5, WFMin
<1>7. PICK k \in (0 .. n) \ A : t = 0 .. k
  BY DEF T
<1>8. k # 0 /\ k - 1 \in 0 .. n - 1
  BY <1>7
<1>9. k - 1 \notin A
  BY <1>7, <1>8
<1>10. 0 .. k - 1 \in T
  BY <1>8, <1>9 DEF T
<1>11. <<0 .. k - 1, t>> \in StrictSubsetOrdering(0 .. n)
  <2>1. 0 .. k - 1 \subseteq t /\ 0 .. k - 1 # t
    BY <1>7
  <2>2. 0 .. k - 1 \in SUBSET (0 .. n) /\ t \in SUBSET (0 .. n)
    BY <1>3, <1>6, <1>7, <1>8 DEF FiniteSubsetsOf
  <2> QED BY <2>1, <2>2 DEF StrictSubsetOrdering
<1> QED BY <1>6, <1>10, <1>11

\* The fold of a sequence takes the last index of a prefix first.
LEMMA MaxUpTo ==
    ASSUME NEW m \in Nat, NEW s \in SUBSET (1 .. m + 1), s \notin SUBSET (1 .. m)
    PROVE  Max(s) = m + 1 /\ s # {} /\ s \ {Max(s)} \in SUBSET (1 .. m)
<1>1. m + 1 \in s /\ \A y \in s : m + 1 >= y
  OBVIOUS
<1>2. \A x \in s : (\A y \in s : x >= y) => x = m + 1
  BY <1>1
<1>3. Max(s) = m + 1
  BY <1>1, <1>2 DEF Max
<1> QED
  BY <1>1, <1>3

LEMMA UpToFacts ==
    ASSUME NEW n \in Nat, NEW i \in 1 .. n
    PROVE  /\ 1 .. i \in SUBSET (1 .. n) /\ 1 .. i # {}
           /\ Max(1 .. i) = i /\ (1 .. i) \ {i} = 1 .. i - 1
<1>0. i \in Nat /\ 1 <= i /\ i <= n
  OBVIOUS
<1>1. i \in 1 .. i /\ \A y \in 1 .. i : i >= y
  BY <1>0
<1>2. \A x \in 1 .. i : (\A y \in 1 .. i : x >= y) => x = i
  BY <1>0, <1>1
<1>3. Max(1 .. i) = i
  BY <1>1, <1>2 DEF Max
<1>4. 1 .. i \in SUBSET (1 .. n) /\ (1 .. i) \ {i} = 1 .. i - 1
  BY <1>0
<1> QED
  BY <1>1, <1>3, <1>4

\* Each loop of the model, as the values it goes through.  The recursive
\* function of the fold exists on the subsets of 1 .. m for every m, by
\* induction; f is its value on the prefixes.
LEMMA NumberPaksFold ==
    ASSUME NEW last, NEW v \in Seq(RtpNumber)
    PROVE  \E f : /\ f[0] = <<>>
                  /\ \A i \in 1 .. Len(v) : f[i] = Append(f[i - 1],
                                       NearestToRtp(IF f[i - 1] = <<>> THEN last
                                                    ELSE Last(f[i - 1]), v[i]))
                  /\ f[Len(v)] = NumberPaks(last, v)
<1> DEFINE op(a, x) == Append(a, NearestToRtp(IF a = <<>> THEN last
                                    ELSE Last(a), x))
           seq == v
           D(m) == SUBSET (1 .. m)
           Loop(g, m) == [s \in D(m) |-> IF s = {} THEN <<>>
                             ELSE op(g[s \ {Max(s)}], seq[Max(s)])]
           it == CHOOSE g : g = Loop(g, Len(v))
<1>1. Len(v) \in Nat /\ DOMAIN seq = 1 .. Len(v)
  OBVIOUS
<1>2. NumberPaks(last, v) = it[1 .. Len(v)]
  BY <1>1 DEF NumberPaks, FoldLeft, MapThenFoldSet
<1> HIDE DEF op, seq
<1>3. ASSUME NEW m \in 0 .. Len(v) - 1, NEW g, g = Loop(g, m)
      PROVE  \E h : h = Loop(h, m + 1)
  <2> DEFINE h == [s \in D(m + 1) |-> IF s \in D(m) THEN g[s]
                       ELSE op(g[s \ {Max(s)}], seq[Max(s)])]
  <2>1. ASSUME NEW s \in D(m + 1)
        PROVE  h[s] = IF s = {} THEN <<>>
                      ELSE op(h[s \ {Max(s)}], seq[Max(s)])
    <3>1. CASE s = {}
      BY <1>3, <3>1
    <3>2. CASE s # {} /\ s \in D(m)
      <4>1. s \ {Max(s)} \in D(m) /\ s \ {Max(s)} \in D(m + 1)
        BY <3>2
      <4>2. g[s] = op(g[s \ {Max(s)}], seq[Max(s)])
        BY <1>3, <3>2
      <4> QED
        BY <3>2, <4>1, <4>2
    <3>3. CASE s \notin D(m)
      <4>1. s \ {Max(s)} \in D(m) /\ s # {}
        <5>1. m \in Nat /\ s \in SUBSET (1 .. m + 1) /\ s \notin SUBSET (1 .. m)
          BY <3>3, <1>1
        <5> HIDE DEF Loop, h
        <5> QED
          BY <5>1, MaxUpTo
      <4>2. s \ {Max(s)} \in D(m + 1)
        OBVIOUS
      <4> QED
        BY <3>3, <4>1, <4>2
    <3> QED
      BY <3>1, <3>2, <3>3
  <2>2. h = Loop(h, m + 1)
    BY <2>1
  <2> QED
    BY <2>2
<1>4. \E g : g = Loop(g, 0)
  <2> DEFINE g == [s \in D(0) |-> <<>>]
  <2>1. g = Loop(g, 0)
    OBVIOUS
  <2> QED
    BY <2>1
<1>5. \E g : g = Loop(g, Len(v))
  <2> HIDE DEF Loop
  <2> DEFINE A == {m \in 0 .. Len(v) : \E g : g = Loop(g, m)}
  <2>1. 0 \in A
    BY <1>1, <1>4
  <2>2. ASSUME NEW k \in 0 .. Len(v) - 1, k \in A
        PROVE  k + 1 \in A
    <3>1. k + 1 \in 0 .. Len(v)
      BY <1>1
    <3> QED
      BY <1>3, <2>2, <3>1
  <2> HIDE DEF A
  <2>3. Len(v) \in A
    BY <1>1, <2>1, <2>2, BoundedInduction
  <2> QED
    BY <2>3 DEF A
<1>6. it = Loop(it, Len(v))
  BY <1>5
<1> HIDE DEF it
<1> DEFINE f == [i \in 0 .. Len(v) |-> it[1 .. i]]
<1>7. f[0] = <<>>
  BY <1>1, <1>6
<1>8. ASSUME NEW i \in 1 .. Len(v)
      PROVE  f[i] = op(f[i - 1], seq[i])
  <2>1. /\ 1 .. i \in D(Len(v)) /\ 1 .. i # {}
        /\ Max(1 .. i) = i /\ (1 .. i) \ {i} = 1 .. i - 1
    <3> HIDE DEF Loop, f
    <3> QED
      BY <1>1, UpToFacts
  <2>2. it[1 .. i] = op(it[1 .. i - 1], seq[i])
    BY <1>6, <2>1
  <2> QED
    BY <1>1, <2>2
<1>9. f[Len(v)] = NumberPaks(last, v)
  BY <1>1, <1>2
<1>10. \A i \in 1 .. Len(v) : f[i] = Append(f[i - 1],
                                       NearestToRtp(IF f[i - 1] = <<>> THEN last
                                                    ELSE Last(f[i - 1]), v[i]))
  BY <1>8 DEF op, seq
<1> QED
  BY <1>7, <1>9, <1>10

LEMMA InsertAllFold ==
    ASSUME NEW p, NEW seqs \in Seq(SeqNumber), NEW type, NEW check,
           NEW bump, NEW t
    PROVE  \E f : /\ f[0] = p
                  /\ \A i \in 1 .. Len(seqs) : f[i] = InsertOne(f[i - 1],
                                IF bump THEN BumpSeq(seqs[i]) ELSE seqs[i],
                                type, check, t)
                  /\ f[Len(seqs)] = InsertAll(p, seqs, type, check, bump, t)
<1> DEFINE op(a, x) == InsertOne(a, IF bump THEN BumpSeq(x) ELSE x, type, check, t)
           seq == seqs
           D(m) == SUBSET (1 .. m)
           Loop(g, m) == [s \in D(m) |-> IF s = {} THEN p
                             ELSE op(g[s \ {Max(s)}], seq[Max(s)])]
           it == CHOOSE g : g = Loop(g, Len(seqs))
<1>1. Len(seqs) \in Nat /\ DOMAIN seq = 1 .. Len(seqs)
  OBVIOUS
<1>2. InsertAll(p, seqs, type, check, bump, t) = it[1 .. Len(seqs)]
  BY <1>1 DEF InsertAll, FoldLeft, MapThenFoldSet
<1> HIDE DEF op, seq
<1>3. ASSUME NEW m \in 0 .. Len(seqs) - 1, NEW g, g = Loop(g, m)
      PROVE  \E h : h = Loop(h, m + 1)
  <2> DEFINE h == [s \in D(m + 1) |-> IF s \in D(m) THEN g[s]
                       ELSE op(g[s \ {Max(s)}], seq[Max(s)])]
  <2>1. ASSUME NEW s \in D(m + 1)
        PROVE  h[s] = IF s = {} THEN p
                      ELSE op(h[s \ {Max(s)}], seq[Max(s)])
    <3>1. CASE s = {}
      BY <1>3, <3>1
    <3>2. CASE s # {} /\ s \in D(m)
      <4>1. s \ {Max(s)} \in D(m) /\ s \ {Max(s)} \in D(m + 1)
        BY <3>2
      <4>2. g[s] = op(g[s \ {Max(s)}], seq[Max(s)])
        BY <1>3, <3>2
      <4> QED
        BY <3>2, <4>1, <4>2
    <3>3. CASE s \notin D(m)
      <4>1. s \ {Max(s)} \in D(m) /\ s # {}
        <5>1. m \in Nat /\ s \in SUBSET (1 .. m + 1) /\ s \notin SUBSET (1 .. m)
          BY <3>3, <1>1
        <5> HIDE DEF Loop, h
        <5> QED
          BY <5>1, MaxUpTo
      <4>2. s \ {Max(s)} \in D(m + 1)
        OBVIOUS
      <4> QED
        BY <3>3, <4>1, <4>2
    <3> QED
      BY <3>1, <3>2, <3>3
  <2>2. h = Loop(h, m + 1)
    BY <2>1
  <2> QED
    BY <2>2
<1>4. \E g : g = Loop(g, 0)
  <2> DEFINE g == [s \in D(0) |-> p]
  <2>1. g = Loop(g, 0)
    OBVIOUS
  <2> QED
    BY <2>1
<1>5. \E g : g = Loop(g, Len(seqs))
  <2> HIDE DEF Loop
  <2> DEFINE A == {m \in 0 .. Len(seqs) : \E g : g = Loop(g, m)}
  <2>1. 0 \in A
    BY <1>1, <1>4
  <2>2. ASSUME NEW k \in 0 .. Len(seqs) - 1, k \in A
        PROVE  k + 1 \in A
    <3>1. k + 1 \in 0 .. Len(seqs)
      BY <1>1
    <3> QED
      BY <1>3, <2>2, <3>1
  <2> HIDE DEF A
  <2>3. Len(seqs) \in A
    BY <1>1, <2>1, <2>2, BoundedInduction
  <2> QED
    BY <2>3 DEF A
<1>6. it = Loop(it, Len(seqs))
  BY <1>5
<1> HIDE DEF it
<1> DEFINE f == [i \in 0 .. Len(seqs) |-> it[1 .. i]]
<1>7. f[0] = p
  BY <1>1, <1>6
<1>8. ASSUME NEW i \in 1 .. Len(seqs)
      PROVE  f[i] = op(f[i - 1], seq[i])
  <2>1. /\ 1 .. i \in D(Len(seqs)) /\ 1 .. i # {}
        /\ Max(1 .. i) = i /\ (1 .. i) \ {i} = 1 .. i - 1
    <3> HIDE DEF Loop, f
    <3> QED
      BY <1>1, UpToFacts
  <2>2. it[1 .. i] = op(it[1 .. i - 1], seq[i])
    BY <1>6, <2>1
  <2> QED
    BY <1>1, <2>2
<1>9. f[Len(seqs)] = InsertAll(p, seqs, type, check, bump, t)
  BY <1>1, <1>2
<1>10. \A i \in 1 .. Len(seqs) : f[i] = InsertOne(f[i - 1],
                                IF bump THEN BumpSeq(seqs[i]) ELSE seqs[i],
                                type, check, t)
  BY <1>8 DEF op, seq
<1> QED
  BY <1>7, <1>9, <1>10

LEMMA PassesFold ==
    ASSUME NEW p, NEW n \in Nat, NEW t
    PROVE  \E f : /\ f[0] = p
                  /\ \A i \in 1 .. n : f[i] = Pass(f[i - 1], t)
                  /\ f[n] = Passes(p, n, t)
<1> DEFINE op(a, x) == Pass(a, t)
           seq == [i \in 1 .. n |-> i]
           D(m) == SUBSET (1 .. m)
           Loop(g, m) == [s \in D(m) |-> IF s = {} THEN p
                             ELSE op(g[s \ {Max(s)}], seq[Max(s)])]
           it == CHOOSE g : g = Loop(g, n)
<1>1. n \in Nat /\ DOMAIN seq = 1 .. n
  OBVIOUS
<1>2. Passes(p, n, t) = it[1 .. n]
  BY <1>1 DEF Passes, FoldLeft, MapThenFoldSet
<1> HIDE DEF op, seq
<1>3. ASSUME NEW m \in 0 .. n - 1, NEW g, g = Loop(g, m)
      PROVE  \E h : h = Loop(h, m + 1)
  <2> DEFINE h == [s \in D(m + 1) |-> IF s \in D(m) THEN g[s]
                       ELSE op(g[s \ {Max(s)}], seq[Max(s)])]
  <2>1. ASSUME NEW s \in D(m + 1)
        PROVE  h[s] = IF s = {} THEN p
                      ELSE op(h[s \ {Max(s)}], seq[Max(s)])
    <3>1. CASE s = {}
      BY <1>3, <3>1
    <3>2. CASE s # {} /\ s \in D(m)
      <4>1. s \ {Max(s)} \in D(m) /\ s \ {Max(s)} \in D(m + 1)
        BY <3>2
      <4>2. g[s] = op(g[s \ {Max(s)}], seq[Max(s)])
        BY <1>3, <3>2
      <4> QED
        BY <3>2, <4>1, <4>2
    <3>3. CASE s \notin D(m)
      <4>1. s \ {Max(s)} \in D(m) /\ s # {}
        <5>1. m \in Nat /\ s \in SUBSET (1 .. m + 1) /\ s \notin SUBSET (1 .. m)
          BY <3>3, <1>1
        <5> HIDE DEF Loop, h
        <5> QED
          BY <5>1, MaxUpTo
      <4>2. s \ {Max(s)} \in D(m + 1)
        OBVIOUS
      <4> QED
        BY <3>3, <4>1, <4>2
    <3> QED
      BY <3>1, <3>2, <3>3
  <2>2. h = Loop(h, m + 1)
    BY <2>1
  <2> QED
    BY <2>2
<1>4. \E g : g = Loop(g, 0)
  <2> DEFINE g == [s \in D(0) |-> p]
  <2>1. g = Loop(g, 0)
    OBVIOUS
  <2> QED
    BY <2>1
<1>5. \E g : g = Loop(g, n)
  <2> HIDE DEF Loop
  <2> DEFINE A == {m \in 0 .. n : \E g : g = Loop(g, m)}
  <2>1. 0 \in A
    BY <1>1, <1>4
  <2>2. ASSUME NEW k \in 0 .. n - 1, k \in A
        PROVE  k + 1 \in A
    <3>1. k + 1 \in 0 .. n
      BY <1>1
    <3> QED
      BY <1>3, <2>2, <3>1
  <2> HIDE DEF A
  <2>3. n \in A
    BY <1>1, <2>1, <2>2, BoundedInduction
  <2> QED
    BY <2>3 DEF A
<1>6. it = Loop(it, n)
  BY <1>5
<1> HIDE DEF it
<1> DEFINE f == [i \in 0 .. n |-> it[1 .. i]]
<1>7. f[0] = p
  BY <1>1, <1>6
<1>8. ASSUME NEW i \in 1 .. n
      PROVE  f[i] = op(f[i - 1], seq[i])
  <2>1. /\ 1 .. i \in D(n) /\ 1 .. i # {}
        /\ Max(1 .. i) = i /\ (1 .. i) \ {i} = 1 .. i - 1
    <3> HIDE DEF Loop, f
    <3> QED
      BY <1>1, UpToFacts
  <2>2. it[1 .. i] = op(it[1 .. i - 1], seq[i])
    BY <1>6, <2>1
  <2> QED
    BY <1>1, <2>2
<1>9. f[n] = Passes(p, n, t)
  BY <1>1, <1>2
<1>10. \A i \in 1 .. n : f[i] = Pass(f[i - 1], t)
  BY <1>8 DEF op, seq
<1> QED
  BY <1>7, <1>9, <1>10

\* One pass of the loop of Pages, and the start of EncodeAll.
NextPage(a, t) ==
    IF ~a.more THEN a
    ELSE LET g == GetGaps(a.pcm, t)
         IN  [pcm |-> g.pcm, gaps |-> a.gaps \cup g.gaps, more |-> g.more]

NackStart(b) ==
    [fci |-> <<>>, cur |-> None, count |-> 0, tokens |-> b.tokens,
     broken |-> FALSE]

LEMMA PagesFold ==
    ASSUME NEW p, NEW t
    PROVE  \E f : /\ f[0] = [pcm |-> p, gaps |-> {}, more |-> TRUE]
                  /\ \A i \in 1 .. RingSize : f[i] = NextPage(f[i - 1], t)
                  /\ f[RingSize] = Pages(p, t)
<1> DEFINE op(a, x) == IF ~a.more THEN a
                    ELSE LET g == GetGaps(a.pcm, t)
                         IN  [pcm |-> g.pcm, gaps |-> a.gaps \cup g.gaps,
                              more |-> g.more]
           seq == [i \in 1 .. RingSize |-> i]
           D(m) == SUBSET (1 .. m)
           Loop(g, m) == [s \in D(m) |-> IF s = {}
                             THEN [pcm |-> p, gaps |-> {}, more |-> TRUE]
                             ELSE op(g[s \ {Max(s)}], seq[Max(s)])]
           it == CHOOSE g : g = Loop(g, RingSize)
<1>1. RingSize \in Nat /\ DOMAIN seq = 1 .. RingSize
  BY PcmAssumption
<1>2. Pages(p, t) = it[1 .. RingSize]
  BY <1>1 DEF Pages, FoldLeft, MapThenFoldSet
<1> HIDE DEF op, seq
<1>3. ASSUME NEW m \in 0 .. RingSize - 1, NEW g, g = Loop(g, m)
      PROVE  \E h : h = Loop(h, m + 1)
  <2> DEFINE h == [s \in D(m + 1) |-> IF s \in D(m) THEN g[s]
                       ELSE op(g[s \ {Max(s)}], seq[Max(s)])]
  <2>1. ASSUME NEW s \in D(m + 1)
        PROVE  h[s] = IF s = {} THEN [pcm |-> p, gaps |-> {}, more |-> TRUE]
                      ELSE op(h[s \ {Max(s)}], seq[Max(s)])
    <3>1. CASE s = {}
      BY <1>3, <3>1
    <3>2. CASE s # {} /\ s \in D(m)
      <4>1. s \ {Max(s)} \in D(m) /\ s \ {Max(s)} \in D(m + 1)
        BY <3>2
      <4>2. g[s] = op(g[s \ {Max(s)}], seq[Max(s)])
        BY <1>3, <3>2
      <4> QED
        BY <3>2, <4>1, <4>2
    <3>3. CASE s \notin D(m)
      <4>1. s \ {Max(s)} \in D(m) /\ s # {}
        <5>1. m \in Nat /\ s \in SUBSET (1 .. m + 1) /\ s \notin SUBSET (1 .. m)
          BY <3>3, <1>1
        <5> HIDE DEF Loop, h
        <5> QED
          BY <5>1, MaxUpTo
      <4>2. s \ {Max(s)} \in D(m + 1)
        OBVIOUS
      <4> QED
        BY <3>3, <4>1, <4>2
    <3> QED
      BY <3>1, <3>2, <3>3
  <2>2. h = Loop(h, m + 1)
    BY <2>1
  <2> QED
    BY <2>2
<1>4. \E g : g = Loop(g, 0)
  <2> DEFINE g == [s \in D(0) |-> [pcm |-> p, gaps |-> {}, more |-> TRUE]]
  <2>1. g = Loop(g, 0)
    OBVIOUS
  <2> QED
    BY <2>1
<1>5. \E g : g = Loop(g, RingSize)
  <2> HIDE DEF Loop
  <2> DEFINE A == {m \in 0 .. RingSize : \E g : g = Loop(g, m)}
  <2>1. 0 \in A
    BY <1>1, <1>4
  <2>2. ASSUME NEW k \in 0 .. RingSize - 1, k \in A
        PROVE  k + 1 \in A
    <3>1. k + 1 \in 0 .. RingSize
      BY <1>1
    <3> QED
      BY <1>3, <2>2, <3>1
  <2> HIDE DEF A
  <2>3. RingSize \in A
    BY <1>1, <2>1, <2>2, BoundedInduction
  <2> QED
    BY <2>3 DEF A
<1>6. it = Loop(it, RingSize)
  BY <1>5
<1> HIDE DEF it
<1> DEFINE f == [i \in 0 .. RingSize |-> it[1 .. i]]
<1>7. f[0] = [pcm |-> p, gaps |-> {}, more |-> TRUE]
  BY <1>1, <1>6
<1>8. ASSUME NEW i \in 1 .. RingSize
      PROVE  f[i] = op(f[i - 1], seq[i])
  <2>1. /\ 1 .. i \in D(RingSize) /\ 1 .. i # {}
        /\ Max(1 .. i) = i /\ (1 .. i) \ {i} = 1 .. i - 1
    <3> HIDE DEF Loop, f
    <3> QED
      BY <1>1, UpToFacts
  <2>2. it[1 .. i] = op(it[1 .. i - 1], seq[i])
    BY <1>6, <2>1
  <2> QED
    BY <1>1, <2>2
<1>9. f[RingSize] = Pages(p, t)
  BY <1>1, <1>2
<1>10. \A i \in 1 .. RingSize : f[i] = NextPage(f[i - 1], t)
  BY <1>8 DEF op, seq, NextPage
<1> QED
  BY <1>7, <1>9, <1>10

LEMMA EncodeAllFold ==
    ASSUME NEW gaps, NEW b, Cardinality(gaps) \in Nat
    PROVE  \E f : /\ f[0] = NackStart(b)
                  /\ \A i \in 1 .. Cardinality(gaps) :
                       f[i] = EncodeOne(f[i - 1], InOrder(gaps)[i], b.on,
                                        PreSeq(InOrder(gaps)[i]) \notin gaps)
                  /\ f[Cardinality(gaps)] = EncodeAll(gaps, b)
<1> DEFINE op(a, x) == EncodeOne(a, x, b.on, PreSeq(x) \notin gaps)
           seq == InOrder(gaps)
           D(m) == SUBSET (1 .. m)
           Loop(g, m) == [s \in D(m) |-> IF s = {} THEN NackStart(b)
                             ELSE op(g[s \ {Max(s)}], seq[Max(s)])]
           it == CHOOSE g : g = Loop(g, Cardinality(gaps))
<1>1. Cardinality(gaps) \in Nat /\ DOMAIN seq = 1 .. Cardinality(gaps)
  BY DEF InOrder
<1>2. EncodeAll(gaps, b) = it[1 .. Cardinality(gaps)]
  BY <1>1 DEF EncodeAll, NackStart, FoldLeft, MapThenFoldSet
<1> HIDE DEF op, seq
<1>3. ASSUME NEW m \in 0 .. Cardinality(gaps) - 1, NEW g, g = Loop(g, m)
      PROVE  \E h : h = Loop(h, m + 1)
  <2> DEFINE h == [s \in D(m + 1) |-> IF s \in D(m) THEN g[s]
                       ELSE op(g[s \ {Max(s)}], seq[Max(s)])]
  <2>1. ASSUME NEW s \in D(m + 1)
        PROVE  h[s] = IF s = {} THEN NackStart(b)
                      ELSE op(h[s \ {Max(s)}], seq[Max(s)])
    <3>1. CASE s = {}
      BY <1>3, <3>1
    <3>2. CASE s # {} /\ s \in D(m)
      <4>1. s \ {Max(s)} \in D(m) /\ s \ {Max(s)} \in D(m + 1)
        BY <3>2
      <4>2. g[s] = op(g[s \ {Max(s)}], seq[Max(s)])
        BY <1>3, <3>2
      <4> QED
        BY <3>2, <4>1, <4>2
    <3>3. CASE s \notin D(m)
      <4>1. s \ {Max(s)} \in D(m) /\ s # {}
        <5>1. m \in Nat /\ s \in SUBSET (1 .. m + 1) /\ s \notin SUBSET (1 .. m)
          BY <3>3, <1>1
        <5> HIDE DEF Loop, h
        <5> QED
          BY <5>1, MaxUpTo
      <4>2. s \ {Max(s)} \in D(m + 1)
        OBVIOUS
      <4> QED
        BY <3>3, <4>1, <4>2
    <3> QED
      BY <3>1, <3>2, <3>3
  <2>2. h = Loop(h, m + 1)
    BY <2>1
  <2> QED
    BY <2>2
<1>4. \E g : g = Loop(g, 0)
  <2> DEFINE g == [s \in D(0) |-> NackStart(b)]
  <2>1. g = Loop(g, 0)
    OBVIOUS
  <2> QED
    BY <2>1
<1>5. \E g : g = Loop(g, Cardinality(gaps))
  <2> HIDE DEF Loop
  <2> DEFINE A == {m \in 0 .. Cardinality(gaps) : \E g : g = Loop(g, m)}
  <2>1. 0 \in A
    BY <1>1, <1>4
  <2>2. ASSUME NEW k \in 0 .. Cardinality(gaps) - 1, k \in A
        PROVE  k + 1 \in A
    <3>1. k + 1 \in 0 .. Cardinality(gaps)
      BY <1>1
    <3> QED
      BY <1>3, <2>2, <3>1
  <2> HIDE DEF A
  <2>3. Cardinality(gaps) \in A
    BY <1>1, <2>1, <2>2, BoundedInduction
  <2> QED
    BY <2>3 DEF A
<1>6. it = Loop(it, Cardinality(gaps))
  BY <1>5
<1> HIDE DEF it
<1> DEFINE f == [i \in 0 .. Cardinality(gaps) |-> it[1 .. i]]
<1>7. f[0] = NackStart(b)
  BY <1>1, <1>6
<1>8. ASSUME NEW i \in 1 .. Cardinality(gaps)
      PROVE  f[i] = op(f[i - 1], seq[i])
  <2>1. /\ 1 .. i \in D(Cardinality(gaps)) /\ 1 .. i # {}
        /\ Max(1 .. i) = i /\ (1 .. i) \ {i} = 1 .. i - 1
    <3> HIDE DEF Loop, f
    <3> QED
      BY <1>1, UpToFacts
  <2>2. it[1 .. i] = op(it[1 .. i - 1], seq[i])
    BY <1>6, <2>1
  <2> QED
    BY <1>1, <2>2
<1>9. f[Cardinality(gaps)] = EncodeAll(gaps, b)
  BY <1>1, <1>2
<1>10. \A i \in 1 .. Cardinality(gaps) : f[i] = EncodeOne(f[i - 1], InOrder(gaps)[i],
                                b.on, PreSeq(InOrder(gaps)[i]) \notin gaps)
  BY <1>8 DEF op, seq
<1> QED
  BY <1>7, <1>9, <1>10

-----------------------------------------------------------------------------
(***************************************************************************)
(* Sequence numbers.                                                       *)
(***************************************************************************)
\* Counting on wraps round within the sequence numbers.
LEMMA SeqAddType == \A s, n \in Int : SeqAdd(s, n) \in SeqNumber
  BY SeqNumAssumption DEF SeqAdd, SeqNumber

LEMMA SeqTypes ==
    /\ SeqNumber \subseteq Int /\ 0 \in SeqNumber /\ RtpMod \div 2 \in SeqNumber
    /\ \A s \in SeqNumber : /\ NextSeq(s) \in SeqNumber
                            /\ PreSeq(s) \in SeqNumber
                            /\ BumpSeq(s) \in SeqNumber
<1>1. SeqNumber \subseteq Int /\ 0 \in SeqNumber /\ RtpMod \div 2 \in SeqNumber
  BY SeqNumAssumption DEF SeqNumber
<1> QED
  BY <1>1, SeqAddType, SeqNumAssumption DEF NextSeq, PreSeq, BumpSeq

LEMMA SlotType == \A s \in Int : Slot(s) \in 0 .. RingSize - 1
  BY PcmAssumption DEF Slot

LEMMA NearestType ==
    \A s \in SeqNumber, r \in RtpNumber : NearestToRtp(s, r) \in SeqNumber
<1> TAKE s \in SeqNumber, r \in RtpNumber
<1> DEFINE d == (r - s) % RtpMod
<1>1. s \in Int /\ r \in Int /\ RtpMod \in Int /\ d \in Int
  BY SeqTypes, SeqNumAssumption DEF RtpNumber
<1> HIDE DEF d
<1>2. (IF d >= RtpMod \div 2 THEN d - RtpMod ELSE d) \in Int
  BY <1>1
<1> QED
  BY <1>1, <1>2, SeqAddType DEF NearestToRtp, d

LEMMA SeqRangeType ==
    \A s, t \in SeqNumber : SeqRange(s, t) \subseteq SeqNumber
<1> SUFFICES ASSUME NEW s \in SeqNumber, NEW t \in SeqNumber
             PROVE  SeqRange(s, t) \subseteq SeqNumber
  OBVIOUS
<1>1. s \in Int /\ SeqDist(s, t) \in Int
  BY SeqTypes, SeqNumAssumption DEF SeqDist
<1>2. \A i \in 0 .. SeqDist(s, t) : SeqAdd(s, i) \in SeqNumber
  BY <1>1, SeqAddType
<1> QED
  BY <1>2 DEF SeqRange

\* The least element of a set of naturals.
LEMMA LeastNumber ==
    ASSUME NEW n \in Nat, NEW I \in SUBSET (0 .. n), I # {}
    PROVE  \E i \in I : \A j \in I : i <= j
<1> SUFFICES ASSUME \A i \in I : \E j \in I : j < i
             PROVE  FALSE
  OBVIOUS
<1> DEFINE A == {k \in 0 .. n : \A j \in 0 .. k : j \notin I}
<1>1. 0 \in A
  OBVIOUS
<1>2. \A k \in 0 .. n - 1 : k \in A => k + 1 \in A
  OBVIOUS
<1> HIDE DEF A
<1>3. n \in A
  BY <1>1, <1>2, BoundedInduction
<1> QED
  BY <1>3 DEF A

\* What the remainder is for numbers less than once around away.
LEMMA ModNear ==
    \A x \in Int : /\ x \in 0 .. SeqSpace - 1 => x % SeqSpace = x
                   /\ x \in SeqSpace .. 2 * SeqSpace - 1
                        => x % SeqSpace = x - SeqSpace
                   /\ x \in -SeqSpace .. -1 => x % SeqSpace = x + SeqSpace
<1>1. SeqSpace \in Nat /\ SeqSpace > 0
  BY SeqNumAssumption
<1> QED
  BY <1>1

\* Numbers within half the space of a are ordered by their distance from it.
LEMMA RangeOrder ==
    ASSUME NEW a \in SeqNumber, NEW b \in SeqNumber, SeqLe(a, b),
           NEW i \in 0 .. SeqDist(a, b), NEW j \in 0 .. SeqDist(a, b), i <= j
    PROVE  SeqLe(SeqAdd(a, i), SeqAdd(a, j))
<1>1. /\ SeqSpace \in Nat /\ SeqSpace > 0
      /\ a \in Int /\ 0 <= a /\ a < SeqSpace
      /\ b \in Int /\ 0 <= b /\ b < SeqSpace
      /\ SeqSpace \div 2 \in Int /\ 2 * (SeqSpace \div 2) <= SeqSpace
  BY SeqNumAssumption DEF SeqNumber
<1>2. SeqDist(a, b) \in Int /\ 0 <= SeqDist(a, b)
      /\ SeqDist(a, b) <= SeqSpace - SeqSpace \div 2
      /\ SeqDist(a, b) < SeqSpace
  <2>1. CASE a = b
    BY <1>1, <2>1, ModNear DEF SeqDist
  <2>2. CASE a < b
    BY <1>1, <2>2, ModNear DEF SeqDist, SeqLe, SeqLt
  <2>3. CASE b < a
    BY <1>1, <2>3, ModNear DEF SeqDist, SeqLe, SeqLt
  <2> QED
    BY <1>1, <2>1, <2>2, <2>3
<1>3. /\ i \in Int /\ j \in Int /\ 0 <= i /\ j < SeqSpace
      /\ j - i <= SeqSpace - SeqSpace \div 2
  BY <1>1, <1>2
<1>4. CASE i = j
  BY <1>4 DEF SeqLe
<1>5. CASE i < j
  <2> DEFINE x == SeqAdd(a, i)
             y == SeqAdd(a, j)
  <2>1. x = IF a + i < SeqSpace THEN a + i ELSE a + i - SeqSpace
    BY <1>1, <1>3, <1>5, ModNear DEF SeqAdd
  <2>2. y = IF a + j < SeqSpace THEN a + j ELSE a + j - SeqSpace
    BY <1>1, <1>3, <1>5, ModNear DEF SeqAdd
  <2> HIDE DEF x, y
  <2>3. x - y = i - j \/ x - y = SeqSpace - (j - i)
    BY <1>1, <1>3, <1>5, <2>1, <2>2
  <2>4. (x - y) % SeqSpace = SeqSpace - (j - i)
    BY <1>1, <1>3, <1>5, <2>3, ModNear
  <2>5. (x - y) % SeqSpace >= SeqSpace \div 2
    BY <1>1, <1>3, <2>4
  <2> QED
    BY <2>5 DEF SeqLe, SeqLt, SeqDist, x, y
<1> QED
  BY <1>3, <1>4, <1>5

\* The first number of a range's subset is one of them.
LEMMA SeqMinType ==
    ASSUME NEW a \in SeqNumber, NEW b \in SeqNumber,
           NEW S \in SUBSET SeqRange(a, b), S # {}
    PROVE  SeqMin(S) \in S /\ \A t \in S : SeqLe(SeqMin(S), t)
<1>1. SeqLe(a, b) /\ SeqRange(a, b) = {SeqAdd(a, i) : i \in 0 .. SeqDist(a, b)}
  BY DEF SeqRange
<1>2. SeqDist(a, b) \in Nat
  BY SeqNumAssumption, SeqTypes DEF SeqDist
<1> DEFINE I == {i \in 0 .. SeqDist(a, b) : SeqAdd(a, i) \in S}
<1>3. I \in SUBSET (0 .. SeqDist(a, b)) /\ I # {}
  BY <1>1
<1>4. PICK i \in I : \A j \in I : i <= j
  <2> HIDE DEF I
  <2> QED
    BY <1>2, <1>3, LeastNumber
<1>5. \A t \in S : \E j \in I : t = SeqAdd(a, j)
  BY <1>1
<1>6. \A t \in S : SeqLe(SeqAdd(a, i), t)
  BY <1>1, <1>4, <1>5, RangeOrder
<1> QED
  BY <1>4, <1>6 DEF SeqMin

-----------------------------------------------------------------------------
(***************************************************************************)
(* The numbers of the cache.                                               *)
(***************************************************************************)
PcmFields ==
    {"paks", "gapmap", "head", "tail", "lastRx", "highestEr", "lastReq",
     "cands", "checked", "polled", "inorder", "hold", "srcStart", "rcc",
     "erEnable", "underrunDis", "primRcvd", "firstPrim", "notified", "pend",
     "lastPak", "lastValid", "burstDone", "postAbort", "abort"}

PakTypes == {"PRIMARY", "REPAIR"}
Times == 0 .. MaxTime

\* Every field of the cache has its type (PcmTypeOK).
PcmType(p) ==
    /\ DOMAIN p = PcmFields
    /\ DOMAIN p.paks \subseteq SeqNumber
    /\ \A s \in DOMAIN p.paks : p.paks[s] \in Pak
    /\ p.gapmap \subseteq 0 .. RingSize - 1
    /\ {p.head, p.tail, p.lastRx, p.highestEr, p.lastReq,
        p.firstPrim, p.lastPak} \subseteq SeqNumber
    /\ p.cands \in Seq(Cand) /\ Len(p.cands) <= MaxCand
    /\ p.inorder \in Seq(SeqNumber)
    /\ {p.checked, p.polled, p.rcc, p.erEnable, p.underrunDis,
        p.primRcvd, p.notified, p.lastValid, p.burstDone,
        p.postAbort} \subseteq BOOLEAN
    /\ p.abort \in {"no", "actions", "done"}
    /\ p.srcStart \in SeqNumber \cup {None}
    /\ p.pend \in SeqNumber \cup {None}
    /\ p.hold \in 0 .. HoldTime

\* Dropping old candidates leaves a candidate, or the last one dropped, to go by.
LEMMA TimeoutType ==
    ASSUME NEW p, PcmType(p), NEW t
    PROVE  PcmType(TimeoutCandidates(p, t))
<1> DEFINE Olds == {i \in DOMAIN p.cands :
                      \A j \in 1 .. i : t > p.cands[j].ts + p.hold}
           old == Cardinality(Olds)
<1>1. p.cands \in Seq(Cand) /\ Len(p.cands) \in Nat
      /\ DOMAIN p.cands = 1 .. Len(p.cands)
  BY DEF PcmType
<1>2. old \in Nat /\ old <= Len(p.cands)
  <2>1. IsFiniteSet(1 .. Len(p.cands))
        /\ Cardinality(1 .. Len(p.cands)) = Len(p.cands)
    BY <1>1, FS_Interval
  <2>2. Olds \in SUBSET (1 .. Len(p.cands))
    BY <1>1
  <2> HIDE DEF Olds
  <2>3. IsFiniteSet(Olds) /\ Cardinality(Olds) <= Cardinality(1 .. Len(p.cands))
    BY <2>1, <2>2, FS_Subset
  <2> QED
    BY <2>1, <2>3, FS_CardinalityType
<1> HIDE DEF old
<1>3. /\ SubSeq(p.cands, old + 1, Len(p.cands)) \in Seq(Cand)
      /\ Len(SubSeq(p.cands, old + 1, Len(p.cands))) <= MaxCand
  <2>1. Len(p.cands) <= MaxCand
    BY DEF PcmType
  <2> QED
    BY <1>1, <1>2, <2>1, PcmAssumption, SubSeqProperties
<1>4. (IF p.cands = <<>> THEN p.highestEr
       ELSE IF old < Len(p.cands) THEN p.cands[old + 1].seq
            ELSE p.cands[old].seq) \in SeqNumber
  <2>1. CASE p.cands = <<>>
    BY <2>1 DEF PcmType
  <2>2. CASE p.cands # <<>> /\ old < Len(p.cands)
    <3>1. p.cands[old + 1] \in Cand
      BY <1>1, <1>2, <2>2, ElementOfSeq
    <3> QED
      BY <3>1, <2>2 DEF Cand
  <2>3. CASE p.cands # <<>> /\ ~ (old < Len(p.cands))
    <3>1. old = Len(p.cands) /\ old # 0
      BY <1>1, <1>2, <2>3, EmptySeq
    <3>2. p.cands[old] \in Cand
      BY <1>1, <3>1, ElementOfSeq
    <3> QED
      BY <3>2, <2>3 DEF Cand
  <2> QED
    BY <2>1, <2>2, <2>3
<1>5. TimeoutCandidates(p, t) =
        [p EXCEPT !.cands = SubSeq(p.cands, old + 1, Len(p.cands)),
                  !.highestEr = IF p.cands = <<>> THEN p.highestEr
                                ELSE IF old < Len(p.cands)
                                     THEN p.cands[old + 1].seq
                                     ELSE p.cands[old].seq]
  BY DEF TimeoutCandidates, old
<1> DEFINE c == SubSeq(p.cands, old + 1, Len(p.cands))
           h == IF p.cands = <<>> THEN p.highestEr
                ELSE IF old < Len(p.cands) THEN p.cands[old + 1].seq
                ELSE p.cands[old].seq
<1> HIDE DEF c, h
<1>6. c \in Seq(Cand) /\ Len(c) <= MaxCand /\ h \in SeqNumber
  BY <1>3, <1>4 DEF c, h
<1>7. TimeoutCandidates(p, t) = [p EXCEPT !.cands = c, !.highestEr = h]
  BY <1>5 DEF c, h
<1> QED
  BY <1>6, <1>7 DEF PcmType, PcmFields

LEMMA AddType ==
    ASSUME NEW c \in Seq(Cand), Len(c) <= MaxCand,
           NEW s \in SeqNumber, NEW t \in Times
    PROVE  /\ AddCandidate(c, s, t) \in Seq(Cand)
           /\ Len(AddCandidate(c, s, t)) <= MaxCand
<1> DEFINE e == [seq |-> s, ts |-> t]
<1>1. e \in Cand
  BY DEF Cand, Times
<1> HIDE DEF e
<1>2. CASE Len(c) = MaxCand
  <2>1. c # <<>>
    BY <1>2, PcmAssumption, EmptySeq
  <2>2. Tail(c) \in Seq(Cand) /\ Len(Tail(c)) = Len(c) - 1
    BY <2>1, HeadTailProperties
  <2>3. AddCandidate(c, s, t) = Append(Tail(c), e)
    BY <1>2 DEF AddCandidate, e
  <2>4. /\ Append(Tail(c), e) \in Seq(Cand)
        /\ Len(Append(Tail(c), e)) = Len(Tail(c)) + 1
    BY <1>1, <2>2, AppendProperties
  <2> QED
    BY <1>2, <2>2, <2>3, <2>4, PcmAssumption
<1>3. CASE Len(c) # MaxCand
  <2>1. AddCandidate(c, s, t) = Append(c, e)
    BY <1>3 DEF AddCandidate, e
  <2>2. Append(c, e) \in Seq(Cand) /\ Len(Append(c, e)) = Len(c) + 1
    BY <1>1, AppendProperties
  <2> QED
    BY <1>3, <2>1, <2>2, PcmAssumption
<1> QED
  BY <1>2, <1>3

LEMMA UpdateType ==
    ASSUME NEW p, PcmType(p), NEW s \in SeqNumber, NEW t \in Times
    PROVE  PcmType(UpdateCandidates(p, s, t))
<1> DEFINE tc == TimeoutCandidates(p, t)
           q == IF p.cands = <<>>
                THEN [p EXCEPT !.cands = AddCandidate(@, s, t)]
                ELSE IF t > Last(p.cands).ts + p.hold \div MaxCand
                THEN [tc EXCEPT !.cands = AddCandidate(@, s, t)]
                ELSE p
<1>1. PcmType(tc)
  BY TimeoutType
<1>2. \A x : PcmType(x) =>
        PcmType([x EXCEPT !.cands = AddCandidate(x.cands, s, t)])
  <2> SUFFICES ASSUME NEW x, PcmType(x)
               PROVE  PcmType([x EXCEPT !.cands = AddCandidate(x.cands, s, t)])
    OBVIOUS
  <2> DEFINE c == AddCandidate(x.cands, s, t)
  <2>1. c \in Seq(Cand) /\ Len(c) <= MaxCand
    BY AddType DEF PcmType
  <2> DEFINE r == [x EXCEPT !.cands = c]
  <2> HIDE DEF c
  <2>2. PcmType(r)
    BY <2>1 DEF PcmType, PcmFields
  <2> QED
    BY <2>2 DEF c
<1> HIDE DEF tc
<1>3. PcmType(q)
  BY <1>1, <1>2
<1>4. UpdateCandidates(p, s, t) = [q EXCEPT !.checked = TRUE]
  BY DEF UpdateCandidates, q, tc
<1> HIDE DEF q
<1> QED
  BY <1>3, <1>4 DEF PcmType, PcmFields

\* Flushes and resets.
LEMMA ResetType ==
    ASSUME NEW p, PcmType(p)
    PROVE  /\ \A free \in BOOLEAN : PcmType(OutpReset(p, free))
           /\ PcmType(Flush(p))
           /\ \A marked \in BOOLEAN : PcmType(RccAbortPcm(p, marked))
<1>1. ASSUME NEW free PROVE PcmType(OutpReset(p, free))
  BY SeqTypes DEF OutpReset, PcmType, PcmFields
<1>2. PcmType(Flush(p))
  <2> DEFINE r == OutpReset(p, TRUE)
  <2>1. PcmType(r)
    BY <1>1
  <2>2. Flush(p) = [r EXCEPT !.gapmap = {}, !.inorder = <<>>,
                             !.paks = <<>>, !.primRcvd = FALSE]
    BY DEF Flush
  <2> HIDE DEF r
  <2>3. DOMAIN (<<>>) = {}
    OBVIOUS
  <2> QED
    BY <2>1, <2>2, <2>3 DEF PcmType, PcmFields
<1>3. ASSUME NEW marked \in BOOLEAN PROVE PcmType(RccAbortPcm(p, marked))
  <2> DEFINE r == Flush(p)
  <2>1. RccAbortPcm(p, marked) = [r EXCEPT !.burstDone = TRUE, !.postAbort = marked,
                                           !.abort = "actions"]
    BY DEF RccAbortPcm
  <2> HIDE DEF r
  <2> QED
    BY <1>2, <2>1 DEF PcmType, PcmFields, r
<1> QED
  BY <1>1, <1>2, <1>3

\* Insertion: one packet in its place, one packet, a vector.
IsFirst(p) == NumPaks(p) = 0
IsLow(p, s) == ~IsFirst(p) /\ SeqLt(s, p.head)
IsHigh(p, s) == ~IsFirst(p) /\ SeqLt(p.tail, s)
CameInOrder(p, s, type) == type = "PRIMARY" /\ (IsFirst(p) \/ IsHigh(p, s))

\* The cache with a packet in its place, but for the candidates.
Put(p, s, type, t) ==
    [p EXCEPT
        !.paks = [x \in DOMAIN @ \cup {s} |->
                    IF x = s THEN [type |-> type, ts |-> t,
                                   reordered |-> ~CameInOrder(p, s, type)]
                    ELSE @[x]],
        !.gapmap = @ \cup {Slot(s)},
        !.head = IF IsFirst(p) \/ IsLow(p, s) THEN s ELSE @,
        !.tail = IF IsFirst(p) \/ IsHigh(p, s) THEN s ELSE @,
        !.inorder = IF CameInOrder(p, s, type) THEN Append(@, s) ELSE @,
        !.lastRx = s]

LEMMA PlaceIsPut ==
    ASSUME NEW p, NEW s, NEW type, NEW t
    PROVE  Place(p, s, type, t) =
             IF CameInOrder(p, s, type)
             THEN UpdateCandidates(Put(p, s, type, t), s, t)
             ELSE Put(p, s, type, t)
  BY DEF Place, Put, CameInOrder, IsFirst, IsLow, IsHigh

\* The fields of Put.
LEMMA PutFields ==
    ASSUME NEW p, DOMAIN p = PcmFields, NEW s, NEW type, NEW t, NEW q,
           q = Put(p, s, type, t)
    PROVE  /\ DOMAIN q = PcmFields
           /\ q.paks = [x \in DOMAIN p.paks \cup {s} |->
                          IF x = s
                          THEN [type |-> type, ts |-> t,
                                reordered |-> ~CameInOrder(p, s, type)]
                          ELSE p.paks[x]]
           /\ q.gapmap = p.gapmap \cup {Slot(s)}
           /\ q.head = IF IsFirst(p) \/ IsLow(p, s) THEN s ELSE p.head
           /\ q.tail = IF IsFirst(p) \/ IsHigh(p, s) THEN s ELSE p.tail
           /\ q.inorder = IF CameInOrder(p, s, type)
                          THEN Append(p.inorder, s) ELSE p.inorder
  BY DEF Put, PcmFields

LEMMA PutType ==
    ASSUME NEW p, PcmType(p), NEW s \in SeqNumber, NEW type, type \in PakTypes,
           NEW t \in Times
    PROVE  PcmType(Put(p, s, type, t))
<1> DEFINE order == CameInOrder(p, s, type)
           ring == [x \in DOMAIN p.paks \cup {s} |->
                       IF x = s THEN [type |-> type, ts |-> t,
                                      reordered |-> ~order]
                       ELSE p.paks[x]]
           list == IF order THEN Append(p.inorder, s) ELSE p.inorder
           hd == IF IsFirst(p) \/ IsLow(p, s) THEN s ELSE p.head
           tl == IF IsFirst(p) \/ IsHigh(p, s) THEN s ELSE p.tail
<1>1. /\ DOMAIN ring \subseteq SeqNumber
      /\ \A x \in DOMAIN ring : ring[x] \in Pak
  <2>1. order \in BOOLEAN
    BY DEF CameInOrder
  <2> HIDE DEF order
  <2>2. [type |-> type, ts |-> t, reordered |-> ~order] \in Pak
    BY <2>1 DEF Pak, PakTypes, Times
  <2> QED
    BY <2>2 DEF PcmType
<1>2. p.gapmap \cup {Slot(s)} \subseteq 0 .. RingSize - 1
  BY SlotType, SeqTypes DEF PcmType
<1>3. list \in Seq(SeqNumber) /\ hd \in SeqNumber /\ tl \in SeqNumber
  BY DEF PcmType
<1>4. Put(p, s, type, t) =
        [p EXCEPT !.paks = ring, !.gapmap = p.gapmap \cup {Slot(s)},
                  !.head = hd, !.tail = tl, !.inorder = list, !.lastRx = s]
  BY DEF Put
<1> HIDE DEF order, ring, list, hd, tl
<1> QED
  BY <1>1, <1>2, <1>3, <1>4 DEF PcmType, PcmFields

LEMMA PlaceType ==
    ASSUME NEW p, PcmType(p), NEW s \in SeqNumber, NEW type, type \in PakTypes,
           NEW t \in Times
    PROVE  PcmType(Place(p, s, type, t))
  BY PlaceIsPut, PutType, UpdateType

LEMMA InsertOneType ==
    ASSUME NEW p, PcmType(p), NEW s \in SeqNumber, NEW type, type \in PakTypes,
           NEW check, NEW t \in Times
    PROVE  PcmType(InsertOne(p, s, type, check, t))
<1> DEFINE q == IF type = "PRIMARY" /\ ~p.primRcvd
                THEN [p EXCEPT !.primRcvd = TRUE, !.firstPrim = s] ELSE p
<1>1. PcmType(q)
  <2> DEFINE r == [p EXCEPT !.primRcvd = TRUE, !.firstPrim = s]
  <2>1. PcmType(r)
    BY DEF PcmType, PcmFields
  <2> QED
    BY <2>1
<1>2. InsertOne(p, s, type, check, t) \in {p, q, Place(q, s, type, t)}
  BY DEF InsertOne
<1> HIDE DEF q
<1> QED
  BY <1>1, <1>2, PlaceType

\* The loop over a vector, by induction along the vector.
LEMMA InsertAllType ==
    ASSUME NEW p, PcmType(p), NEW seqs \in Seq(SeqNumber),
           NEW type, type \in PakTypes,
           NEW check, NEW bump, NEW t \in Times
    PROVE  PcmType(InsertAll(p, seqs, type, check, bump, t))
<1>1. PICK f : /\ f[0] = p
               /\ \A i \in 1 .. Len(seqs) :
                    f[i] = InsertOne(f[i - 1],
                                IF bump THEN BumpSeq(seqs[i]) ELSE seqs[i],
                                type, check, t)
               /\ f[Len(seqs)] = InsertAll(p, seqs, type, check, bump, t)
  BY InsertAllFold
<1> DEFINE A == {i \in 0 .. Len(seqs) : PcmType(f[i])}
<1>2. Len(seqs) \in Nat /\ 0 \in A
  BY <1>1
<1>3. ASSUME NEW k \in 0 .. Len(seqs) - 1, k \in A
      PROVE  k + 1 \in A
  <2>1. k + 1 \in 1 .. Len(seqs) /\ (k + 1) - 1 = k
    BY <1>2
  <2>2. (IF bump THEN BumpSeq(seqs[k + 1]) ELSE seqs[k + 1]) \in SeqNumber
    BY <2>1, ElementOfSeq, SeqTypes
  <2>3. PcmType(f[k])
    BY <1>3
  <2>4. f[k + 1] = InsertOne(f[k],
                       IF bump THEN BumpSeq(seqs[k + 1]) ELSE seqs[k + 1],
                       type, check, t)
    BY <1>1, <2>1
  <2>5. PcmType(f[k + 1])
    BY <2>2, <2>3, <2>4, InsertOneType
  <2> QED
    BY <2>1, <2>5
<1> HIDE DEF A
<1>4. Len(seqs) \in A
  BY <1>2, <1>3, BoundedInduction
<1> QED
  BY <1>1, <1>4 DEF A

LEMMA InsertPacketsType ==
    ASSUME NEW p, PcmType(p), NEW seqs \in Seq(SeqNumber),
           NEW type, type \in PakTypes,
           NEW contig, NEW t \in Times
    PROVE  PcmType(InsertPackets(p, seqs, type, contig, t))
<1> DEFINE over  == NumPaks(p) + Len(seqs) >= RingSize
           p1    == IF over THEN Flush(p) ELSE p
           under == NumPaks(p) = 0 /\ p1.lastValid /\ ~p.underrunDis
           p2    == IF under THEN OutpReset(p1, FALSE) ELSE p1
           range == IF contig THEN CheckRange(p2, seqs[1], seqs[Len(seqs)])
                    ELSE "SOME"
           r     == InsertAll(p2, seqs, type, range = "SOME", over \/ under, t)
<1>1. InsertPackets(p, seqs, type, contig, t) =
        IF range = "ALL" THEN p2 ELSE BurstCheck(r)
  BY DEF InsertPackets
<1> HIDE DEF over
<1>2. PcmType(p1)
  BY ResetType
<1> HIDE DEF p1, under
<1>3. PcmType(p2)
  BY <1>2, ResetType
<1> HIDE DEF p2, range
<1>4. PcmType(r)
  BY <1>3, InsertAllType
<1> HIDE DEF r
<1>5. PcmType(BurstCheck(r))
  BY <1>4 DEF BurstCheck, PcmType, PcmFields
<1> QED
  BY <1>1, <1>3, <1>5

\* Output.
LEMMA RemoveFirstType ==
    ASSUME NEW list \in Seq(SeqNumber), NEW e
    PROVE  RemoveFirst(list, e) \in Seq(SeqNumber)
<1> DEFINE I == {i \in 1 .. Len(list) : list[i] = e}
           k == SelectInSeq(list, LAMBDA v : v = e)
<1>1. CASE I = {}
  BY <1>1 DEF RemoveFirst
<1>2. CASE I # {}
  <2>1. Len(list) \in Nat
    OBVIOUS
  <2>2. k = Min(I)
    BY <1>2 DEF SelectInSeq
  <2>3. k \in I
    <3>1. PICK i \in I : \A j \in I : i <= j
      <4>1. I \in SUBSET (0 .. Len(list))
        OBVIOUS
      <4> HIDE DEF I
      <4> QED
        BY <1>2, <2>1, <4>1, LeastNumber
    <3> HIDE DEF I, k
    <3> QED
      BY <2>2, <3>1 DEF Min
  <2>4. k \in 1 .. Len(list)
    BY <2>3
  <2> HIDE DEF k
  <2>5. /\ SubSeq(list, 1, k - 1) \in Seq(SeqNumber)
        /\ SubSeq(list, k + 1, Len(list)) \in Seq(SeqNumber)
    BY <2>1, <2>4, SubSeqProperties
  <2>6. RemoveFirst(list, e)
          = SubSeq(list, 1, k - 1) \o SubSeq(list, k + 1, Len(list))
    BY <1>2 DEF RemoveFirst, RemoveAt, k
  <2> QED
    BY <2>5, <2>6, ConcatProperties
<1> QED
  BY <1>1, <1>2

LEMMA RemoveType ==
    ASSUME NEW p, PcmType(p)
    PROVE  PcmType(RemoveHead(p))
<1>1. FindNext(p) \in SeqNumber \cup {None}
  BY DEF FindNext, PcmType
<1> DEFINE next == FindNext(p)
           hd   == IF p.tail = p.head \/ next = None THEN p.head ELSE next
           ring == [x \in DOMAIN p.paks \ {p.head} |-> p.paks[x]]
           list == RemoveFirst(p.inorder, p.head)
<1>2. RemoveHead(p) =
        [p EXCEPT !.head = hd, !.paks = ring,
                  !.gapmap = p.gapmap \ {Slot(p.head)}, !.inorder = list]
  BY DEF RemoveHead
<1>3. hd \in SeqNumber
  BY <1>1 DEF PcmType
<1>4. list \in Seq(SeqNumber)
  BY RemoveFirstType DEF PcmType
<1>5. DOMAIN ring \subseteq SeqNumber /\ \A x \in DOMAIN ring : ring[x] \in Pak
  BY DEF PcmType
<1> HIDE DEF hd, ring, list
<1> QED
  BY <1>2, <1>3, <1>4, <1>5 DEF PcmType, PcmFields

LEMMA FutureType ==
    ASSUME NEW p, PcmType(p), NEW t \in Times
    PROVE  PcmType(HeadNotInFuture(p, t))
<1> DEFINE ring == [p.paks EXCEPT ![p.head].ts = t]
<1>1. DOMAIN ring \subseteq SeqNumber /\ \A x \in DOMAIN ring : ring[x] \in Pak
  <2>1. /\ DOMAIN p.paks \subseteq SeqNumber
        /\ \A x \in DOMAIN p.paks : p.paks[x] \in Pak
    BY DEF PcmType
  <2>2. \A x \in DOMAIN p.paks : [p.paks[x] EXCEPT !.ts = t] \in Pak
    BY <2>1 DEF Pak, Times
  <2> QED
    BY <2>1, <2>2
<1>2. HeadNotInFuture(p, t) \in {p, [p EXCEPT !.paks = ring]}
  BY DEF HeadNotInFuture
<1> HIDE DEF ring
<1> QED
  BY <1>1, <1>2 DEF PcmType, PcmFields

LEMMA PassType ==
    ASSUME NEW p, PcmType(p), NEW t \in Times
    PROVE  PcmType(Pass(p, t))
<1> DEFINE h == HeadNotInFuture(p, t)
           q == [h EXCEPT !.pend = None]
           r == RemoveHead(q)
           aborted == r.postAbort /\ ~(q.primRcvd /\ SeqLe(q.firstPrim, q.head))
           u == [r EXCEPT !.pend = q.head, !.lastPak = q.head,
                          !.lastValid = TRUE, !.postAbort = aborted]
<1>1. Pass(p, t) \in {q, u}
  BY DEF Pass
<1>2. PcmType(h)
  BY FutureType
<1> HIDE DEF h
<1>3. PcmType(q)
  BY <1>2 DEF PcmType, PcmFields
<1>4. q.head \in SeqNumber
  BY <1>3 DEF PcmType
<1> HIDE DEF q
<1>5. PcmType(r) /\ aborted \in BOOLEAN
  BY <1>3, RemoveType
<1> HIDE DEF r, aborted
<1>6. PcmType(u)
  BY <1>4, <1>5 DEF PcmType, PcmFields
<1> QED
  BY <1>1, <1>3, <1>6

LEMMA PassesType ==
    ASSUME NEW p, PcmType(p), NEW n \in Nat, NEW t \in Times
    PROVE  PcmType(Passes(p, n, t))
<1>1. PICK f : /\ f[0] = p
               /\ \A i \in 1 .. n : f[i] = Pass(f[i - 1], t)
               /\ f[n] = Passes(p, n, t)
  BY PassesFold
<1> DEFINE A == {i \in 0 .. n : PcmType(f[i])}
<1>2. 0 \in A
  BY <1>1
<1>3. ASSUME NEW k \in 0 .. n - 1, k \in A
      PROVE  k + 1 \in A
  <2>1. k + 1 \in 1 .. n /\ (k + 1) - 1 = k
    OBVIOUS
  <2>2. f[k + 1] = Pass(f[k], t) /\ PcmType(f[k])
    BY <1>1, <1>3, <2>1
  <2>3. PcmType(f[k + 1])
    BY <2>2, PassType
  <2> QED
    BY <2>1, <2>3
<1> HIDE DEF A
<1>4. n \in A
  BY <1>2, <1>3, BoundedInduction
<1> QED
  BY <1>1, <1>4 DEF A

\* Every packet of a vector gets a number, the last one included.
LEMMA NumberPaksType ==
    ASSUME NEW last \in SeqNumber, NEW v \in Seq(RtpNumber)
    PROVE  /\ NumberPaks(last, v) \in Seq(SeqNumber)
           /\ Len(NumberPaks(last, v)) = Len(v)
<1>1. PICK f : /\ f[0] = <<>>
               /\ \A i \in 1 .. Len(v) :
                    f[i] = Append(f[i - 1],
                                  NearestToRtp(IF f[i - 1] = <<>> THEN last
                                               ELSE Last(f[i - 1]), v[i]))
               /\ f[Len(v)] = NumberPaks(last, v)
  BY NumberPaksFold
<1> DEFINE A == {i \in 0 .. Len(v) : f[i] \in Seq(SeqNumber) /\ Len(f[i]) = i}
<1>2. Len(v) \in Nat /\ 0 \in A
  <2>1. <<>> \in Seq(SeqNumber) /\ Len(<<>>) = 0
    OBVIOUS
  <2>2. f[0] \in Seq(SeqNumber) /\ Len(f[0]) = 0
    BY <1>1, <2>1, Zenon
  <2> QED
    BY <2>2
<1>3. ASSUME NEW k \in 0 .. Len(v) - 1, k \in A
      PROVE  k + 1 \in A
  <2>1. k + 1 \in 1 .. Len(v) /\ (k + 1) - 1 = k
    BY <1>2
  <2>2. f[k] \in Seq(SeqNumber) /\ Len(f[k]) = k
    BY <1>3
  <2> DEFINE before == IF f[k] = <<>> THEN last ELSE Last(f[k])
  <2>3. before \in SeqNumber
    <3>1. CASE f[k] = <<>>
      BY <3>1
    <3>2. CASE f[k] # <<>>
      <4>1. Len(f[k]) \in 1 .. Len(f[k])
        BY <2>2, <3>2, EmptySeq
      <4> QED
        BY <2>2, <3>2, <4>1, ElementOfSeq DEF Last
    <3> QED
      BY <3>1, <3>2
  <2>4. v[k + 1] \in RtpNumber
    BY <2>1, ElementOfSeq
  <2>5. f[k + 1] = Append(f[k], NearestToRtp(before, v[k + 1]))
    BY <1>1, <2>1
  <2> HIDE DEF before
  <2>6. NearestToRtp(before, v[k + 1]) \in SeqNumber
    BY <2>3, <2>4, NearestType
  <2>7. f[k + 1] \in Seq(SeqNumber) /\ Len(f[k + 1]) = k + 1
    BY <2>2, <2>5, <2>6
  <2> QED
    BY <2>1, <2>7
<1> HIDE DEF A
<1>4. Len(v) \in A
  BY <1>2, <1>3, BoundedInduction
<1> QED
  BY <1>1, <1>4 DEF A

-----------------------------------------------------------------------------
(***************************************************************************)
(* The types of the specification of the cache.                            *)
(***************************************************************************)
PcmInv ==
    /\ PcmType(pcm) /\ now \in Times
    /\ jumps \in Nat /\ back \in BOOLEAN

LEMMA TimesType ==
    /\ 0 \in Times
    /\ \A t \in Times : t \in Nat /\ (t < MaxTime => t + 1 \in Times)
<1>1. MaxTime \in Nat
  BY PcmAssumption
<1> QED
  BY <1>1 DEF Times

LEMMA PcmInitType == PcmInit => PcmInv
<1> SUFFICES ASSUME PcmInit PROVE PcmInv
  OBVIOUS
<1>1. PcmType(pcm)
  <2>1. /\ DOMAIN (<<>>) = {} /\ <<>> \in Seq(Cand) /\ <<>> \in Seq(SeqNumber)
        /\ Len(<<>>) = 0
    OBVIOUS
  <2>2. PICK r \in RccEnabled :
          pcm = [paks |-> <<>>, gapmap |-> {}, head |-> 0, tail |-> 0,
                 lastRx |-> RtpMod \div 2, highestEr |-> 0, lastReq |-> 0,
                 cands |-> <<>>, checked |-> FALSE, polled |-> FALSE,
                 inorder |-> <<>>, hold |-> HoldTime, srcStart |-> None,
                 rcc |-> r, erEnable |-> ~r, underrunDis |-> r,
                 primRcvd |-> FALSE, firstPrim |-> 0, notified |-> FALSE,
                 pend |-> None, lastPak |-> 0, lastValid |-> FALSE,
                 burstDone |-> FALSE, postAbort |-> ~r,
                 abort |-> IF r THEN "no" ELSE "done"]
    BY DEF PcmInit
  <2>3. r \in BOOLEAN /\ HoldTime \in 0 .. HoldTime /\ 0 <= MaxCand
    BY PcmAssumption
  <2> QED
    BY <2>1, <2>2, <2>3, SeqTypes DEF PcmType, PcmFields
<1>2. now \in Times /\ jumps \in Nat /\ back \in BOOLEAN
  BY TimesType DEF PcmInit
<1> QED
  BY <1>1, <1>2 DEF PcmInv

\* Every step of the cache keeps its types; the clock goes on but for jumps.
LEMMA PcmNextType ==
    ASSUME PcmInv, PcmNext
    PROVE  /\ PcmType(pcm') /\ now' \in Times
           /\ jumps' \in Nat /\ back' \in BOOLEAN /\ jumps <= jumps'
           /\ jumps' = jumps => now <= now'
<1>0. PcmType(pcm) /\ now \in Times /\ jumps \in Nat /\ back \in BOOLEAN
  BY DEF PcmInv
<1>a. \A t \in Times : t \in Int
  BY TimesType
<1> USE <1>0
<1>1. ASSUME NEW v \in Vectors, RxPrimary(v)
      PROVE  PcmType(pcm') /\ UNCHANGED <<now, jumps, back>>
  <2> DEFINE seqs == NumberPaks(pcm.lastRx, v)
             contig == \A i \in 2 .. Len(seqs) : seqs[i] = NextSeq(seqs[i - 1])
             p == [pcm EXCEPT !.lastRx = Last(seqs)]
  <2>1. v \in Seq(RtpNumber) /\ v # <<>>
    BY PcmAssumption
  <2>2. seqs \in Seq(SeqNumber) /\ Len(seqs) = Len(v)
    BY <2>1, NumberPaksType DEF PcmType
  <2>3. pcm' = InsertPackets(p, seqs, "PRIMARY", contig, now)
    BY <1>1 DEF RxPrimary
  <2> HIDE DEF seqs, contig
  <2>4. Last(seqs) \in SeqNumber
    <3>1. Len(seqs) \in 1 .. Len(seqs)
      BY <2>1, <2>2, EmptySeq
    <3> QED
      BY <2>2, <3>1, ElementOfSeq DEF Last
  <2>5. PcmType(p)
    BY <2>4 DEF PcmType, PcmFields
  <2> HIDE DEF p
  <2> QED
    BY <1>1, <2>2, <2>3, <2>5, InsertPacketsType DEF RxPrimary, PakTypes
<1>2. ASSUME NEW r \in Repairs, RxRepair(r)
      PROVE  PcmType(pcm') /\ UNCHANGED <<now, jumps, back>>
  <2> DEFINE s == NearestToRtp(pcm.lastRx, r)
             p == [pcm EXCEPT !.lastRx = s]
             q == InsertPackets(p, <<s>>, "REPAIR", TRUE, now)
  <2>1. s \in SeqNumber
    BY NearestType, PcmAssumption DEF PcmType
  <2>2. pcm' \in {p, q}
    BY <1>2 DEF RxRepair
  <2> HIDE DEF s
  <2>3. PcmType(p) /\ <<s>> \in Seq(SeqNumber)
    BY <2>1 DEF PcmType, PcmFields
  <2> HIDE DEF p
  <2>4. PcmType(q)
    BY <2>3, InsertPacketsType DEF PakTypes
  <2> QED
    BY <1>2, <2>2, <2>3, <2>4 DEF RxRepair
<1>3. CASE OschedClockBack
  <2>1. PcmType(pcm')
    BY <1>3, ResetType DEF OschedClockBack
  <2>2. now' = now + 1 /\ now' \in Times /\ back' \in BOOLEAN /\ jumps' = jumps
    BY <1>3, TimesType DEF OschedClockBack
  <2> QED
    BY <1>a, <2>1, <2>2
<1>4. ASSUME NEW n \in 0 .. MaxPasses, OschedRun(n)
      PROVE  PcmType(pcm') /\ now' = now + 1 /\ now' \in Times
             /\ UNCHANGED <<jumps, back>>
  <2> DEFINE p == IF pcm.checked THEN [pcm EXCEPT !.checked = FALSE]
                  ELSE TimeoutCandidates(pcm, now + 1)
  <2>1. pcm' = Passes(p, n, now + 1) /\ now' = now + 1 /\ now + 1 \in Times
        /\ UNCHANGED <<jumps, back>>
    BY <1>4, TimesType DEF OschedRun
  <2>2. PcmType([pcm EXCEPT !.checked = FALSE])
    BY DEF PcmType, PcmFields
  <2>3. PcmType(p)
    BY <2>2, TimeoutType
  <2>4. n \in Nat
    OBVIOUS
  <2> HIDE DEF p
  <2> QED
    BY <2>1, <2>3, <2>4, PassesType
<1>5. CASE RccEnableEr
  <2>1. PcmType(pcm')
    <3> DEFINE ends == pcm.abort = "actions"
               marked == pcm.postAbort \/ ends
               next == IF ends THEN "done" ELSE pcm.abort
    <3>1. pcm' = [pcm EXCEPT !.underrunDis = FALSE, !.erEnable = TRUE,
                             !.lastReq = pcm.head, !.highestEr = pcm.tail,
                             !.postAbort = marked, !.abort = next]
      BY <1>5 DEF RccEnableEr, PcmType, PcmFields
    <3>2. marked \in BOOLEAN
      OBVIOUS
    <3>3. next \in {"no", "actions", "done"}
      BY DEF PcmType
    <3> HIDE DEF marked, next
    <3> QED
      BY <3>1, <3>2, <3>3 DEF PcmType, PcmFields
  <2> QED
    BY <1>a, <1>5, <2>1 DEF RccEnableEr
<1>6. ASSUME NEW marked \in BOOLEAN, RccAbort(marked)
      PROVE  PcmType(pcm') /\ UNCHANGED <<now, jumps, back>>
  BY <1>6, ResetType DEF RccAbort
<1>7. CASE UpdateFecDelay
  <2> DEFINE p == [pcm EXCEPT !.hold = FecHoldTime]
  <2>1. PcmType(p)
    <3>1. FecHoldTime \in 0 .. HoldTime
      BY PcmAssumption
    <3> QED
      BY <3>1 DEF PcmType, PcmFields
  <2>2. pcm' \in {p, TimeoutCandidates(p, Last(p.cands).ts)}
        /\ UNCHANGED <<now, jumps, back>>
    BY <1>7 DEF UpdateFecDelay
  <2> HIDE DEF p
  <2> QED
    BY <1>a, <2>1, <2>2, TimeoutType
<1>8. CASE FailoverSource
  <2>1. NextSeq(pcm.tail) \in SeqNumber
    BY SeqTypes DEF PcmType
  <2>2. PcmType(pcm')
    BY <1>8, <2>1 DEF FailoverSource, PcmType, PcmFields
  <2> QED
    BY <1>a, <1>8, <2>2 DEF FailoverSource
<1>9. CASE ClockBack
  BY <1>a, <1>9, TimesType DEF ClockBack
<1> QED
  BY <1>a, <1>1, <1>2, <1>3, <1>4, <1>5, <1>6, <1>7, <1>8, <1>9 DEF PcmNext

-----------------------------------------------------------------------------
(***************************************************************************)
(* Order and distance.                                                     *)
(***************************************************************************)
\* Room for a vector of packets, each of which may lie a ring from the others.
Room == RingSize * RingSize

LEMMA RoomFacts ==
    /\ SeqSpace \in Nat /\ RingSize \in Nat /\ RingSize > 0
    /\ MaxGap \in Nat /\ 1 <= MaxGap /\ MaxGap <= RingSize
    /\ Room \in Nat /\ RingSize <= Room /\ 4 * Room <= SeqSpace
    /\ RingSize >= 2 => 2 * RingSize <= Room
    /\ SeqSpace \div 2 \in Nat
    /\ 2 * Room <= SeqSpace \div 2 /\ 2 * (SeqSpace \div 2) <= SeqSpace
<1>1. /\ SeqSpace \in Nat /\ RingSize \in Nat /\ RingSize > 0
      /\ MaxGap \in Nat /\ 1 <= MaxGap /\ MaxGap <= RingSize
      /\ SeqSpace >= 4 * RingSize * RingSize
  BY SeqNumAssumption, PcmAssumption
<1>2. /\ RingSize * RingSize \in Nat /\ RingSize <= RingSize * RingSize
      /\ RingSize >= 2 => 2 * RingSize <= RingSize * RingSize
  <2>1. \A m, n \in Nat : n >= 1 => m <= n * m
    OBVIOUS
  <2>2. \A m, n \in Nat : n >= 2 => 2 * m <= n * m
    OBVIOUS
  <2> QED
    BY <1>1, <2>1, <2>2
<1>3. 4 * (RingSize * RingSize) <= SeqSpace
  <2>1. \A m \in Nat : 4 * m * m = 4 * (m * m)
    OBVIOUS
  <2> QED
    BY <1>1, <2>1
<1> QED
  BY <1>1, <1>2, <1>3 DEF Room

\* Of a set of numbers that lies in half the space above b, the distances from
\* b tell the order.
LEMMA DistOrder ==
    ASSUME NEW b \in SeqNumber, NEW x \in SeqNumber, NEW y \in SeqNumber,
           SeqDist(b, x) < SeqSpace \div 2, SeqDist(b, y) < SeqSpace \div 2
    PROVE  /\ SeqLt(x, y) <=> SeqDist(b, x) < SeqDist(b, y)
           /\ SeqLe(x, y) <=> SeqDist(b, x) <= SeqDist(b, y)
           /\ x = y <=> SeqDist(b, x) = SeqDist(b, y)
           /\ SeqDist(b, x) <= SeqDist(b, y)
                 => SeqDist(x, y) = SeqDist(b, y) - SeqDist(b, x)
<1> DEFINE h == SeqSpace \div 2
<1>1. /\ SeqSpace \in Nat /\ h \in Nat /\ 2 * h <= SeqSpace
      /\ b \in Int /\ 0 <= b /\ b < SeqSpace
      /\ x \in Int /\ 0 <= x /\ x < SeqSpace
      /\ y \in Int /\ 0 <= y /\ y < SeqSpace
  BY RoomFacts DEF SeqNumber
<1> DEFINE dx == SeqDist(b, x)
           dy == SeqDist(b, y)
<1>2. \A u, v \in SeqNumber :
         /\ u >= v => SeqDist(v, u) = u - v
         /\ u < v => SeqDist(v, u) = u - v + SeqSpace
  <2> SUFFICES ASSUME NEW u \in SeqNumber, NEW v \in SeqNumber
               PROVE  /\ u >= v => SeqDist(v, u) = u - v
                      /\ u < v => SeqDist(v, u) = u - v + SeqSpace
    OBVIOUS
  <2>1. u \in 0 .. SeqSpace - 1 /\ v \in 0 .. SeqSpace - 1
    BY DEF SeqNumber
  <2>2. u >= v => u - v \in 0 .. SeqSpace - 1
    BY <1>1, <2>1
  <2>3. u < v => u - v \in -SeqSpace .. -1
    BY <1>1, <2>1
  <2>4. u - v \in Int
    BY <1>1, <2>1
  <2> QED
    BY <1>1, <2>2, <2>3, <2>4, ModNear DEF SeqDist
<1>3. /\ dx = (IF x >= b THEN x - b ELSE x - b + SeqSpace)
      /\ dy = (IF y >= b THEN y - b ELSE y - b + SeqSpace)
      /\ SeqDist(y, x) = (IF x >= y THEN x - y ELSE x - y + SeqSpace)
      /\ SeqDist(x, y) = (IF y >= x THEN y - x ELSE y - x + SeqSpace)
  BY <1>1, <1>2
<1>4. dx < h /\ dy < h
  OBVIOUS
<1> HIDE DEF dx, dy, h
<1>5. SeqLt(x, y) <=> dx < dy
  BY <1>1, <1>3, <1>4 DEF SeqLt, h
<1>6. x = y <=> dx = dy
  BY <1>1, <1>3
<1>7. SeqLe(x, y) <=> dx <= dy
  BY <1>1, <1>3, <1>5, <1>6 DEF SeqLe
<1>8. dx <= dy => SeqDist(x, y) = dy - dx
  BY <1>1, <1>3
<1> QED
  BY <1>5, <1>6, <1>7, <1>8 DEF dx, dy

\* A multiple of the ring's size that is less than that is zero.
LEMMA SlotsRepeat ==
    ASSUME NEW b \in SeqNumber, NEW x \in SeqNumber, NEW y \in SeqNumber,
           Slot(x) = Slot(y),
           SeqDist(b, x) - SeqDist(b, y) < RingSize,
           SeqDist(b, y) - SeqDist(b, x) < RingSize
    PROVE  x = y
<1>1. /\ SeqSpace \in Nat /\ RingSize \in Nat /\ RingSize > 0
      /\ b \in Int /\ 0 <= b /\ b < SeqSpace
      /\ x \in Int /\ 0 <= x /\ x < SeqSpace
      /\ y \in Int /\ 0 <= y /\ y < SeqSpace
  BY RoomFacts DEF SeqNumber
<1>2. PICK m \in Nat : SeqSpace = RingSize * m
  <2>1. /\ RtpMod \in Nat /\ RtpMod > 0
        /\ SeqSpace % RtpMod = 0 /\ RtpMod % RingSize = 0
    BY SeqNumAssumption, PcmAssumption
  <2>2. \A u, v \in Nat : v > 0 => u = v * (u \div v) + (u % v) /\ u \div v \in Nat
    OBVIOUS
  <2> DEFINE k == SeqSpace \div RtpMod
             l == RtpMod \div RingSize
  <2>3. SeqSpace = RtpMod * k /\ k \in Nat
    BY <1>1, <2>1, <2>2
  <2>4. RtpMod = RingSize * l /\ l \in Nat
    BY <1>1, <2>1, <2>2
  <2> HIDE DEF k, l
  <2>5. \A u, v, w \in Nat : (u * v) * w = u * (v * w) /\ v * w \in Nat
    OBVIOUS
  <2> QED
    BY <1>1, <2>3, <2>4, <2>5
<1>3. \A u \in Nat : /\ u = RingSize * (u \div RingSize) + Slot(u)
                     /\ u \div RingSize \in Int
  <2>1. \A u, v \in Nat : v > 0 => u = v * (u \div v) + (u % v) /\ u \div v \in Int
    OBVIOUS
  <2> QED
    BY <1>1, <2>1 DEF Slot
<1> DEFINE i == x \div RingSize
           j == y \div RingSize
           d == SeqDist(b, x) - SeqDist(b, y)
<1>4. /\ i \in Int /\ j \in Int
      /\ x = RingSize * i + Slot(x) /\ y = RingSize * j + Slot(x)
  BY <1>1, <1>3
<1>5. Slot(x) \in Int
  BY <1>1, SlotType
<1> HIDE DEF i, j
<1>6. x - y = RingSize * (i - j)
  <2>1. \A u, v, w \in Int : u * (v - w) = u * v - u * w /\ u * v \in Int
    OBVIOUS
  <2> QED
    BY <1>1, <1>4, <1>5, <2>1
<1>7. \A z \in SeqNumber : SeqDist(b, z) \in {z - b, z - b + SeqSpace}
  <2> SUFFICES ASSUME NEW z \in SeqNumber
               PROVE  SeqDist(b, z) \in {z - b, z - b + SeqSpace}
    OBVIOUS
  <2>1. z - b \in Int /\ (z - b \in 0 .. SeqSpace - 1 \/ z - b \in -SeqSpace .. -1)
    BY <1>1 DEF SeqNumber
  <2> QED
    BY <2>1, ModNear DEF SeqDist
<1>8. d \in {x - y, x - y - SeqSpace, x - y + SeqSpace}
  BY <1>1, <1>7
<1>9. PICK n \in Int : d = RingSize * n
  <2>1. \A u, v, w \in Int : /\ u * v - u * w = u * (v - w)
                             /\ u * v + u * w = u * (v + w)
    OBVIOUS
  <2>2. /\ RingSize * (i - j) - RingSize * m = RingSize * (i - j - m)
        /\ RingSize * (i - j) + RingSize * m = RingSize * (i - j + m)
    BY <1>1, <1>2, <1>4, <2>1
  <2>3. d \in {RingSize * (i - j), RingSize * (i - j - m), RingSize * (i - j + m)}
    BY <1>2, <1>6, <1>8, <2>2
  <2>4. i - j \in Int /\ i - j - m \in Int /\ i - j + m \in Int
    BY <1>2, <1>4
  <2> HIDE DEF d
  <2> QED
    BY <2>3, <2>4
<1>10. n = 0
  <2>1. d < RingSize /\ -d < RingSize
    <3>1. SeqDist(b, x) \in Int /\ SeqDist(b, y) \in Int
      BY <1>1, <1>7
    <3> QED
      BY <1>1, <3>1
  <2>2. \A u, v \in Int : u > 0 /\ v >= 1 => u * v >= u
    OBVIOUS
  <2>3. \A u, v \in Int : u > 0 /\ v <= -1 => u * v <= -u
    OBVIOUS
  <2> HIDE DEF d
  <2> QED
    BY <1>1, <1>9, <2>1, <2>2, <2>3
<1>11. SeqDist(b, x) = SeqDist(b, y)
  <2>1. SeqDist(b, x) \in Int /\ SeqDist(b, y) \in Int
    BY <1>1, <1>7
  <2>2. d = 0
    BY <1>1, <1>9, <1>10
  <2> QED
    BY <2>1, <2>2
<1>12. x - b = y - b \/ x - b = y - b + SeqSpace \/ x - b + SeqSpace = y - b
  BY <1>1, <1>7, <1>11
<1> QED
  BY <1>1, <1>12

\* Distances of sums, and sums of distances.
LEMMA DistType == \A x, y \in SeqNumber : SeqDist(x, y) \in SeqNumber
<1>1. \A x, y \in SeqNumber : x - y \in Int
  BY SeqTypes
<1> QED
  BY <1>1, RoomFacts, SeqNumAssumption DEF SeqDist, SeqNumber

LEMMA DistNat == \A x, y \in SeqNumber : SeqDist(x, y) \in Nat
<1>1. SeqNumber \subseteq Nat
  BY SeqNumAssumption DEF SeqNumber
<1> QED
  BY <1>1, DistType

LEMMA DistValue ==
    \A x, y \in SeqNumber :
       SeqDist(x, y) = IF y >= x THEN y - x ELSE y - x + SeqSpace
<1> SUFFICES ASSUME NEW x \in SeqNumber, NEW y \in SeqNumber
             PROVE  SeqDist(x, y) = IF y >= x THEN y - x ELSE y - x + SeqSpace
  OBVIOUS
<1>1. /\ SeqSpace \in Nat /\ y - x \in Int
      /\ x \in 0 .. SeqSpace - 1 /\ y \in 0 .. SeqSpace - 1
  BY RoomFacts DEF SeqNumber
<1>2. y >= x => y - x \in 0 .. SeqSpace - 1
  BY <1>1
<1>3. y < x => y - x \in -SeqSpace .. -1
  BY <1>1
<1> QED
  BY <1>1, <1>2, <1>3, ModNear DEF SeqDist

LEMMA DistSelf == \A x \in SeqNumber : SeqDist(x, x) = 0
<1>1. \A x \in SeqNumber : x \in Int
  BY SeqTypes
<1> QED
  BY <1>1, DistValue

LEMMA AddDist ==
    ASSUME NEW x \in SeqNumber, NEW n \in Nat, n < SeqSpace
    PROVE  /\ SeqAdd(x, n) \in SeqNumber /\ SeqDist(x, SeqAdd(x, n)) = n
           /\ SeqAdd(x, -n) \in SeqNumber /\ SeqDist(SeqAdd(x, -n), x) = n
<1>1. /\ SeqSpace \in Nat /\ x \in Int /\ 0 <= x /\ x < SeqSpace
      /\ x + n \in Int /\ x + (-n) \in Int
  BY RoomFacts DEF SeqNumber
<1>2. SeqAdd(x, n) \in SeqNumber /\ SeqAdd(x, -n) \in SeqNumber
  BY <1>1, SeqAddType
<1>3. SeqAdd(x, n) = IF x + n < SeqSpace THEN x + n ELSE x + n - SeqSpace
  <2>1. x + n < SeqSpace => x + n \in 0 .. SeqSpace - 1
    BY <1>1
  <2>2. ~(x + n < SeqSpace) => x + n \in SeqSpace .. 2 * SeqSpace - 1
    BY <1>1
  <2> QED
    BY <1>1, <2>1, <2>2, ModNear DEF SeqAdd
<1>4. SeqAdd(x, -n) = IF x + (-n) >= 0 THEN x + (-n) ELSE x + (-n) + SeqSpace
  <2>1. x + (-n) >= 0 => x + (-n) \in 0 .. SeqSpace - 1
    BY <1>1
  <2>2. ~(x + (-n) >= 0) => x + (-n) \in -SeqSpace .. -1
    BY <1>1
  <2> QED
    BY <1>1, <2>1, <2>2, ModNear DEF SeqAdd
<1>5. SeqDist(x, SeqAdd(x, n)) = n
  BY <1>1, <1>2, <1>3, DistValue
<1>6. SeqDist(SeqAdd(x, -n), x) = n
  BY <1>1, <1>2, <1>4, DistValue
<1> QED
  BY <1>2, <1>5, <1>6

LEMMA DistSum ==
    ASSUME NEW x \in SeqNumber, NEW y \in SeqNumber, NEW z \in SeqNumber
    PROVE  /\ SeqDist(x, y) + SeqDist(y, z) < SeqSpace
                => SeqDist(x, z) = SeqDist(x, y) + SeqDist(y, z)
           /\ SeqDist(y, z) <= SeqDist(x, z)
                => SeqDist(x, y) = SeqDist(x, z) - SeqDist(y, z)
<1>1. /\ SeqSpace \in Nat
      /\ x \in Int /\ 0 <= x /\ x < SeqSpace
      /\ y \in Int /\ 0 <= y /\ y < SeqSpace
      /\ z \in Int /\ 0 <= z /\ z < SeqSpace
  BY RoomFacts DEF SeqNumber
<1> QED
  BY <1>1, DistValue

\* What insertion accepts lies near the head (vqec_pcm_insert_packet_check_range).
LEMMA AcceptedNear ==
    ASSUME NEW h \in SeqNumber, NEW s \in SeqNumber, RingSize >= 2,
           ~SeqLe(SeqAdd(h, RingSize), s), ~SeqLe(s, SeqAdd(h, -MaxGap)),
           NEW b \in SeqNumber, MaxGap <= SeqDist(b, h),
           SeqDist(b, h) + RingSize < SeqSpace \div 2
    PROVE  /\ SeqDist(b, s) > SeqDist(b, h) - MaxGap
           /\ SeqDist(b, s) < SeqDist(b, h) + RingSize
<1> DEFINE a == SeqAdd(h, -MaxGap)
           u == SeqAdd(h, RingSize)
<1>1. /\ SeqSpace \in Nat /\ SeqSpace \div 2 \in Nat
      /\ 2 * (SeqSpace \div 2) <= SeqSpace
      /\ RingSize \in Nat /\ MaxGap \in Nat /\ MaxGap <= RingSize
      /\ RingSize < SeqSpace /\ MaxGap < SeqSpace
      /\ MaxGap + RingSize < SeqSpace \div 2
  BY RoomFacts
<1>2. /\ a \in SeqNumber /\ SeqDist(a, h) = MaxGap
      /\ u \in SeqNumber /\ SeqDist(h, u) = RingSize
  BY <1>1, AddDist
<1> HIDE DEF a, u
<1>3. SeqDist(a, u) = MaxGap + RingSize
  BY <1>1, <1>2, DistSum
<1>4. SeqDist(a, s) \in Nat /\ SeqDist(b, h) \in Nat
  BY <1>2, DistType DEF SeqNumber
<1>5. SeqDist(a, s) < SeqSpace \div 2 /\ SeqDist(a, s) > 0
  <2>1. ~(SeqDist(a, s) >= SeqSpace \div 2) /\ s # a
    BY DEF SeqLe, SeqLt, a
  <2>2. SeqDist(a, s) # 0
    BY <1>1, <1>2, <2>1, DistValue DEF SeqNumber
  <2> QED
    BY <1>1, <1>4, <2>1, <2>2
<1>6. SeqDist(a, s) < MaxGap + RingSize
  <2>1. ~SeqLe(u, s)
    BY DEF u
  <2>2. SeqDist(a, u) < SeqSpace \div 2
    BY <1>1, <1>3
  <2>3. SeqLe(u, s) <=> SeqDist(a, u) <= SeqDist(a, s)
    BY <1>2, <1>5, <2>2, DistOrder
  <2> QED
    BY <1>1, <1>3, <1>4, <2>1, <2>3
<1>7. SeqDist(b, a) = SeqDist(b, h) - MaxGap
  BY <1>2, DistSum
<1>8. SeqDist(b, s) = SeqDist(b, a) + SeqDist(a, s)
  BY <1>1, <1>2, <1>4, <1>6, <1>7, DistSum
<1> QED
  BY <1>1, <1>4, <1>5, <1>6, <1>7, <1>8

LEMMA NumPaksZero ==
    ASSUME NEW p, PcmType(p)
    PROVE  NumPaks(p) = 0 <=> DOMAIN p.paks = {}
<1>1. IsFiniteSet(SeqNumber)
  BY SeqNumAssumption, FS_Interval DEF SeqNumber
<1>2. IsFiniteSet(DOMAIN p.paks)
  BY <1>1, FS_Subset DEF PcmType
<1> QED
  BY <1>2, FS_EmptySet DEF NumPaks

LEMMA RangeChecked ==
    ASSUME NEW p, PcmType(p), NEW low, NEW high,
           CheckRange(p, low, high) = "OK", DOMAIN p.paks # {}
    PROVE  /\ ~SeqLe(SeqAdd(p.head, RingSize), high)
           /\ ~SeqLe(high, SeqAdd(p.head, -MaxGap))
<1>1. NumPaks(p) # 0
  BY NumPaksZero
<1> QED
  BY <1>1 DEF CheckRange

-----------------------------------------------------------------------------
(***************************************************************************)
(* The views of the cache.                                                 *)
(***************************************************************************)
\* Head and tail are the ends of a run of less than half the number space.
Ends(p) ==
    DOMAIN p.paks # {} =>
        /\ p.head \in DOMAIN p.paks /\ p.tail \in DOMAIN p.paks
        /\ SeqDist(p.head, p.tail) < SeqSpace \div 2
        /\ \A s \in DOMAIN p.paks : SeqDist(p.head, s) <= SeqDist(p.head, p.tail)

Bits(p) == p.gapmap = {Slot(s) : s \in DOMAIN p.paks}

\* No two packets share a slot of the ring.
Apart(p) == \A x, y \in DOMAIN p.paks : Slot(x) = Slot(y) => x = y

Listed(p) ==
    /\ ToSet(p.inorder) = {s \in DOMAIN p.paks : ~p.paks[s].reordered}
    /\ \A i \in 1 .. Len(p.inorder) - 1 : SeqLt(p.inorder[i], p.inorder[i + 1])

Views(p) == PcmType(p) /\ Ends(p) /\ Bits(p) /\ Apart(p) /\ Listed(p)

\* What the views are made of.
SameViews(q, p) ==
    /\ q.paks = p.paks /\ q.gapmap = p.gapmap /\ q.inorder = p.inorder
    /\ q.head = p.head /\ q.tail = p.tail

LEMMA ViewsFrame ==
    ASSUME NEW p, NEW q, Views(p), PcmType(q), SameViews(q, p)
    PROVE  Views(q)
  BY DEF Views, SameViews, Ends, Bits, Apart, Listed

\* Above a number b half the space holds all packets.
Above(b, D) == \A s \in D : SeqDist(b, s) < SeqSpace \div 2

LEMMA EndsOrder ==
    ASSUME NEW p, PcmType(p), Ends(p), NEW s \in DOMAIN p.paks
    PROVE  SeqLe(p.head, s) /\ SeqLe(s, p.tail)
<1>1. /\ p.head \in SeqNumber /\ p.tail \in SeqNumber /\ s \in SeqNumber
      /\ SeqDist(p.head, p.tail) < SeqSpace \div 2
      /\ SeqDist(p.head, s) <= SeqDist(p.head, p.tail)
  BY DEF PcmType, Ends
<1>2. SeqDist(p.head, p.head) = 0
  BY <1>1, DistValue DEF SeqNumber
<1>3. /\ SeqDist(p.head, s) \in Nat /\ SeqDist(p.head, p.tail) \in Nat
      /\ SeqSpace \div 2 \in Nat
  BY <1>1, DistNat, RoomFacts
<1>4. /\ SeqDist(p.head, s) < SeqSpace \div 2
      /\ SeqDist(p.head, p.head) < SeqSpace \div 2
  BY <1>1, <1>2, <1>3
<1>5. SeqLe(p.head, s) <=> SeqDist(p.head, p.head) <= SeqDist(p.head, s)
  BY <1>1, <1>4, DistOrder
<1>6. SeqLe(s, p.tail) <=> SeqDist(p.head, s) <= SeqDist(p.head, p.tail)
  BY <1>1, <1>4, DistOrder
<1> QED
  BY <1>1, <1>2, <1>3, <1>5, <1>6

LEMMA OrderEnds ==
    ASSUME NEW p, PcmType(p), NEW b \in SeqNumber, Above(b, DOMAIN p.paks),
           DOMAIN p.paks # {} =>
              /\ p.head \in DOMAIN p.paks /\ p.tail \in DOMAIN p.paks
              /\ \A s \in DOMAIN p.paks : SeqLe(p.head, s) /\ SeqLe(s, p.tail)
    PROVE  Ends(p)
<1> SUFFICES ASSUME DOMAIN p.paks # {}
             PROVE  /\ SeqDist(p.head, p.tail) < SeqSpace \div 2
                    /\ \A s \in DOMAIN p.paks :
                          SeqDist(p.head, s) <= SeqDist(p.head, p.tail)
  BY DEF Ends
<1>1. /\ DOMAIN p.paks \subseteq SeqNumber
      /\ p.head \in DOMAIN p.paks /\ p.tail \in DOMAIN p.paks
  BY DEF PcmType
<1>2. \A x \in DOMAIN p.paks : SeqDist(b, x) \in Int
  BY <1>1, DistType DEF SeqNumber
<1>3. SeqSpace \div 2 \in Int
  BY RoomFacts
<1>4. ASSUME NEW s \in DOMAIN p.paks
      PROVE  /\ SeqDist(p.head, s) = SeqDist(b, s) - SeqDist(b, p.head)
             /\ SeqDist(b, p.head) <= SeqDist(b, s)
             /\ SeqDist(b, s) <= SeqDist(b, p.tail)
             /\ SeqDist(b, s) < SeqSpace \div 2
  <2>1. /\ SeqDist(b, s) < SeqSpace \div 2 /\ SeqDist(b, p.head) < SeqSpace \div 2
        /\ SeqDist(b, p.tail) < SeqSpace \div 2
    BY <1>1 DEF Above
  <2>2. SeqDist(b, p.head) <= SeqDist(b, s)
    BY <1>1, <2>1, DistOrder
  <2>3. SeqDist(b, s) <= SeqDist(b, p.tail)
    BY <1>1, <2>1, DistOrder
  <2> QED
    BY <1>1, <2>1, <2>2, <2>3, DistOrder
<1>5. SeqDist(b, p.head) >= 0
  BY <1>1, DistType DEF SeqNumber
<1> QED
  BY <1>1, <1>2, <1>3, <1>4, <1>5

-----------------------------------------------------------------------------
(***************************************************************************)
(* Insertion keeps the views in agreement.                                 *)
(***************************************************************************)
LEMMA UpdateViews ==
    ASSUME NEW p, PcmType(p), NEW s \in SeqNumber, NEW t \in Times
    PROVE  SameViews(UpdateCandidates(p, s, t), p)
<1> DEFINE tc == TimeoutCandidates(p, t)
           q == IF p.cands = <<>>
                THEN [p EXCEPT !.cands = AddCandidate(@, s, t)]
                ELSE IF t > Last(p.cands).ts + p.hold \div MaxCand
                THEN [tc EXCEPT !.cands = AddCandidate(@, s, t)]
                ELSE p
<1>1. DOMAIN p = PcmFields /\ DOMAIN tc = PcmFields
  BY TimeoutType DEF PcmType
<1>2. SameViews(tc, p)
  BY <1>1 DEF TimeoutCandidates, SameViews, PcmFields
<1>3. \A x : DOMAIN x = PcmFields =>
         /\ DOMAIN [x EXCEPT !.cands = AddCandidate(x.cands, s, t)] = PcmFields
         /\ SameViews([x EXCEPT !.cands = AddCandidate(x.cands, s, t)], x)
         /\ SameViews([x EXCEPT !.checked = TRUE], x)
  BY DEF SameViews, PcmFields
<1> HIDE DEF tc
<1>4. DOMAIN q = PcmFields /\ SameViews(q, p)
  <2>1. CASE p.cands = <<>>
    BY <1>1, <1>3, <2>1
  <2>2. CASE p.cands # <<>> /\ t > Last(p.cands).ts + p.hold \div MaxCand
    BY <1>1, <1>2, <1>3, <2>2 DEF SameViews
  <2>3. CASE p.cands # <<>> /\ ~(t > Last(p.cands).ts + p.hold \div MaxCand)
    BY <1>1, <2>3 DEF SameViews
  <2> QED
    BY <2>1, <2>2, <2>3
<1>5. UpdateCandidates(p, s, t) = [q EXCEPT !.checked = TRUE]
  BY DEF UpdateCandidates, q, tc
<1> HIDE DEF q
<1> QED
  BY <1>3, <1>4, <1>5 DEF SameViews

LEMMA PlaceViews ==
    ASSUME NEW p, Views(p), NEW s \in SeqNumber, NEW type, type \in PakTypes,
           NEW t \in Times, \A x \in DOMAIN p.paks : Slot(x) # Slot(s),
           NEW b \in SeqNumber, Above(b, DOMAIN p.paks \cup {s})
    PROVE  /\ Views(Place(p, s, type, t))
           /\ DOMAIN Place(p, s, type, t).paks = DOMAIN p.paks \cup {s}
<1> DEFINE D == DOMAIN p.paks
           E == D \cup {s}
           q == Put(p, s, type, t)
           r == Place(p, s, type, t)
           order == CameInOrder(p, s, type)
<1>1. /\ PcmType(p) /\ DOMAIN p = PcmFields /\ D \subseteq SeqNumber
      /\ Ends(p) /\ Bits(p) /\ Apart(p) /\ Listed(p)
  BY DEF Views, PcmType
<1>2. PcmType(q) /\ PcmType(r)
  BY <1>1, PutType, PlaceType
<1>3. IsFirst(p) <=> D = {}
  BY <1>1, NumPaksZero DEF IsFirst
<1>4. s \notin D
  OBVIOUS
<1>5. /\ q.paks = [x \in E |-> IF x = s THEN [type |-> type, ts |-> t,
                                              reordered |-> ~order]
                               ELSE p.paks[x]]
      /\ q.gapmap = p.gapmap \cup {Slot(s)}
      /\ q.head = IF IsFirst(p) \/ IsLow(p, s) THEN s ELSE p.head
      /\ q.tail = IF IsFirst(p) \/ IsHigh(p, s) THEN s ELSE p.tail
      /\ q.inorder = IF order THEN Append(p.inorder, s) ELSE p.inorder
  BY <1>1, PutFields
<1> HIDE DEF q
<1>6. DOMAIN q.paks = E
  BY <1>5
<1>7. Bits(q)
  BY <1>1, <1>5, <1>6 DEF Bits
<1>8. Apart(q)
  BY <1>1, <1>6 DEF Apart
<1>9. \A x, y \in E : /\ SeqLt(x, y) <=> SeqDist(b, x) < SeqDist(b, y)
                      /\ SeqLe(x, y) <=> SeqDist(b, x) <= SeqDist(b, y)
                      /\ SeqDist(b, x) \in Nat
  <2>1. E \subseteq SeqNumber
    BY <1>1
  <2>2. \A x \in E : SeqDist(b, x) < SeqSpace \div 2
    BY DEF Above
  <2> HIDE DEF E
  <2> QED
    BY <2>1, <2>2, DistOrder, DistNat
<1>10. Ends(q)
  <2>1. /\ q.head \in E /\ q.tail \in E
        /\ \A x \in E : SeqLe(q.head, x) /\ SeqLe(x, q.tail)
    <3>1. CASE IsFirst(p)
      <4>1. E = {s} /\ q.head = s /\ q.tail = s
        BY <1>3, <1>5, <3>1
      <4> QED
        BY <4>1 DEF SeqLe
    <3>2. CASE ~IsFirst(p)
      <4>1. /\ p.head \in D /\ p.tail \in D
            /\ \A x \in D : SeqLe(p.head, x) /\ SeqLe(x, p.tail)
        BY <1>1, <1>3, <3>2, EndsOrder DEF Ends
      <4>2. /\ q.head = IF SeqLt(s, p.head) THEN s ELSE p.head
            /\ q.tail = IF SeqLt(p.tail, s) THEN s ELSE p.tail
        BY <1>5, <3>2 DEF IsLow, IsHigh
      <4> QED
        BY <1>9, <4>1, <4>2
    <3> QED
      BY <3>1, <3>2
  <2> QED
    BY <1>2, <1>6, <2>1, OrderEnds
<1>11. Listed(q)
  <2>1. p.inorder \in Seq(SeqNumber) /\ Len(p.inorder) \in Nat
    BY <1>1 DEF PcmType
  <2>2. ToSet(q.inorder) = {x \in E : ~q.paks[x].reordered}
    <3>1. /\ \A x \in D : q.paks[x] = p.paks[x]
          /\ q.paks[s].reordered = ~order
      BY <1>4, <1>5
    <3>2. ToSet(p.inorder) = {x \in D : ~p.paks[x].reordered}
      BY <1>1 DEF Listed
    <3>3. order \in BOOLEAN
      BY DEF CameInOrder
    <3>4. CASE order
      <4>1. ToSet(q.inorder) = ToSet(p.inorder) \cup {s}
        <5>1. q.inorder = Append(p.inorder, s)
          BY <1>5, <3>4
        <5>2. /\ DOMAIN Append(p.inorder, s) = 1 .. Len(p.inorder) + 1
              /\ DOMAIN p.inorder = 1 .. Len(p.inorder)
              /\ \A i \in 1 .. Len(p.inorder) :
                    Append(p.inorder, s)[i] = p.inorder[i]
              /\ Append(p.inorder, s)[Len(p.inorder) + 1] = s
          BY <2>1
        <5> QED
          BY <2>1, <5>1, <5>2 DEF ToSet
      <4> QED
        BY <1>4, <3>1, <3>2, <3>4, <4>1
    <3>5. CASE ~order
      BY <1>4, <1>5, <3>1, <3>2, <3>5
    <3> QED
      BY <3>4, <3>5
  <2>3. ASSUME NEW i \in 1 .. Len(q.inorder) - 1
        PROVE  SeqLt(q.inorder[i], q.inorder[i + 1])
    <3>1. \A j \in 1 .. Len(p.inorder) - 1 :
             SeqLt(p.inorder[j], p.inorder[j + 1])
      BY <1>1 DEF Listed
    <3>2. CASE order
      <4>1. /\ q.inorder = Append(p.inorder, s)
            /\ Len(q.inorder) = Len(p.inorder) + 1
            /\ \A j \in 1 .. Len(p.inorder) : q.inorder[j] = p.inorder[j]
            /\ q.inorder[Len(p.inorder) + 1] = s
        BY <1>5, <2>1, <3>2
      <4>2. i \in 1 .. Len(p.inorder) /\ q.inorder[i] = p.inorder[i]
        BY <2>1, <4>1
      <4>3. CASE i = Len(p.inorder)
        <5>1. p.inorder[i] \in D
          <6>1. p.inorder[i] \in ToSet(p.inorder)
            BY <2>1, <4>2 DEF ToSet
          <6> QED
            BY <1>1, <6>1 DEF Listed
        <5>2. IsHigh(p, s) /\ ~IsFirst(p)
          BY <1>3, <3>2, <5>1 DEF CameInOrder
        <5>3. p.tail \in D /\ SeqLe(p.inorder[i], p.tail) /\ SeqLt(p.tail, s)
          BY <1>1, <1>3, <5>1, <5>2, EndsOrder DEF IsHigh, Ends
        <5>4. SeqLt(p.inorder[i], s)
          BY <1>9, <5>1, <5>3
        <5> QED
          BY <4>1, <4>2, <4>3, <5>4
      <4>4. CASE i # Len(p.inorder)
        <5>1. i \in 1 .. Len(p.inorder) - 1 /\ i + 1 \in 1 .. Len(p.inorder)
          BY <2>1, <4>2, <4>4
        <5> QED
          BY <3>1, <4>1, <5>1
      <4> QED
        BY <4>3, <4>4
    <3>3. CASE ~order
      BY <1>5, <3>1, <3>3
    <3> QED
      BY <3>2, <3>3
  <2> QED
    BY <1>6, <2>2, <2>3 DEF Listed
<1>12. Views(q)
  BY <1>2, <1>7, <1>8, <1>10, <1>11 DEF Views
<1>13. SameViews(r, q)
  <2>1. r = IF order THEN UpdateCandidates(q, s, t) ELSE q
    BY PlaceIsPut DEF q
  <2> QED
    BY <1>2, <2>1, UpdateViews DEF SameViews
<1> QED
  BY <1>2, <1>6, <1>12, <1>13, ViewsFrame DEF SameViews

\* A packet that the loop does not refuse at once.
Accepted(p, s, check) ==
    s \notin DOMAIN p.paks /\ (check => CheckRange(p, s, s) = "OK")

Inserted(r, p, s, check) ==
    /\ \/ DOMAIN r.paks = DOMAIN p.paks
       \/ Accepted(p, s, check) /\ DOMAIN r.paks = DOMAIN p.paks \cup {s}
    /\ DOMAIN r.paks # {}

LEMMA InsertOneViews ==
    ASSUME NEW p, Views(p), NEW s \in SeqNumber, NEW type, type \in PakTypes,
           NEW check, NEW t \in Times, NEW b \in SeqNumber,
           Accepted(p, s, check) => Above(b, DOMAIN p.paks \cup {s})
    PROVE  /\ Views(InsertOne(p, s, type, check, t))
           /\ Inserted(InsertOne(p, s, type, check, t), p, s, check)
<1> DEFINE r == InsertOne(p, s, type, check, t)
<1> SUFFICES /\ Views(r)
             /\ \/ DOMAIN r.paks = DOMAIN p.paks
                \/ /\ Accepted(p, s, check)
                   /\ DOMAIN r.paks = DOMAIN p.paks \cup {s}
             /\ DOMAIN r.paks # {}
  BY DEF Inserted
<1> DEFINE q == IF type = "PRIMARY" /\ ~p.primRcvd
                THEN [p EXCEPT !.primRcvd = TRUE, !.firstPrim = s] ELSE p
<1>1. PcmType(p) /\ DOMAIN p = PcmFields
  BY DEF Views, PcmType
<1>2. PcmType(q) /\ SameViews(q, p)
  <2> DEFINE u == [p EXCEPT !.primRcvd = TRUE, !.firstPrim = s]
  <2>1. PcmType(u)
    BY <1>1 DEF PcmType, PcmFields
  <2>2. SameViews(u, p)
    BY <1>1 DEF SameViews, PcmFields
  <2> HIDE DEF u
  <2>3. q \in {u, p}
    BY DEF u
  <2> QED
    BY <1>1, <2>1, <2>2, <2>3 DEF SameViews
<1>3. r = IF ~Accepted(p, s, check) THEN p
          ELSE IF \E x \in DOMAIN q.paks : Slot(x) = Slot(s) THEN q
          ELSE Place(q, s, type, t)
  BY DEF InsertOne, Accepted
<1> HIDE DEF q, r
<1>4. Views(q) /\ DOMAIN q.paks = DOMAIN p.paks
  BY <1>2, ViewsFrame DEF SameViews
<1>5. CASE ~Accepted(p, s, check)
  <2>1. r = p
    BY <1>3, <1>5
  <2>2. DOMAIN p.paks # {}
    <3> SUFFICES ASSUME DOMAIN p.paks = {} PROVE FALSE
      OBVIOUS
    <3>1. CheckRange(p, s, s) = "OK"
      BY <1>1, NumPaksZero DEF CheckRange
    <3> QED
      BY <1>5, <3>1 DEF Accepted
  <2> QED
    BY <2>1, <2>2
<1>6. CASE Accepted(p, s, check) /\ \E x \in DOMAIN q.paks : Slot(x) = Slot(s)
  <2>1. r = q
    BY <1>3, <1>6
  <2> QED
    BY <1>4, <1>6, <2>1
<1>7. CASE Accepted(p, s, check) /\ ~\E x \in DOMAIN q.paks : Slot(x) = Slot(s)
  <2>1. r = Place(q, s, type, t)
    BY <1>3, <1>7
  <2>2. Above(b, DOMAIN q.paks \cup {s})
    BY <1>4, <1>7
  <2>3. \A x \in DOMAIN q.paks : Slot(x) # Slot(s)
    BY <1>7
  <2>4. /\ Views(Place(q, s, type, t))
        /\ DOMAIN Place(q, s, type, t).paks = DOMAIN q.paks \cup {s}
    <3> DEFINE pl == Place(q, s, type, t)
    <3>1. Views(q) /\ type \in PakTypes /\ s \in SeqNumber /\ t \in Times
          /\ b \in SeqNumber
      BY <1>4
    <3>2. Views(pl) /\ DOMAIN pl.paks = DOMAIN q.paks \cup {s}
      BY <3>1, <2>2, <2>3, PlaceViews, Zenon
    <3> QED
      BY <3>2
  <2> QED
    BY <1>4, <1>7, <2>1, <2>4
<1> QED
  BY <1>5, <1>6, <1>7

\* The number the loop takes for the i-th packet of a vector.
Numbered(seqs, bump, i) == IF bump THEN BumpSeq(seqs[i]) ELSE seqs[i]

\* Numbers that lie together can be inserted unchecked.
LEMMA InsertAllViews ==
    ASSUME NEW p, Views(p), NEW seqs \in Seq(SeqNumber),
           NEW type, type \in PakTypes, NEW check, NEW bump,
           NEW t \in Times, NEW b \in SeqNumber, Above(b, DOMAIN p.paks),
           \A i \in 1 .. Len(seqs) :
              SeqDist(b, Numbered(seqs, bump, i)) < SeqSpace \div 2
    PROVE  Views(InsertAll(p, seqs, type, check, bump, t))
<1>1. PICK f : /\ f[0] = p
               /\ \A i \in 1 .. Len(seqs) :
                    f[i] = InsertOne(f[i - 1],
                                IF bump THEN BumpSeq(seqs[i]) ELSE seqs[i],
                                type, check, t)
               /\ f[Len(seqs)] = InsertAll(p, seqs, type, check, bump, t)
  BY InsertAllFold
<1> DEFINE A == {i \in 0 .. Len(seqs) :
                   Views(f[i]) /\ Above(b, DOMAIN f[i].paks)}
<1>2. Len(seqs) \in Nat /\ 0 \in A
  BY <1>1
<1>3. ASSUME NEW k \in 0 .. Len(seqs) - 1, k \in A
      PROVE  k + 1 \in A
  <2> DEFINE s == Numbered(seqs, bump, k + 1)
             r == f[k + 1]
  <2>1. k + 1 \in 1 .. Len(seqs) /\ (k + 1) - 1 = k
    BY <1>2
  <2>2. s \in SeqNumber
    BY <2>1, ElementOfSeq, SeqTypes DEF Numbered
  <2>3. Views(f[k]) /\ Above(b, DOMAIN f[k].paks)
    BY <1>3
  <2>4. r = InsertOne(f[k], s, type, check, t)
    BY <1>1, <2>1 DEF Numbered
  <2>5. Above(b, DOMAIN f[k].paks \cup {s})
    BY <2>1, <2>3 DEF Above
  <2> HIDE DEF s, r
  <2>6. Views(r) /\ DOMAIN r.paks \subseteq DOMAIN f[k].paks \cup {s}
    <3> DEFINE q == f[k]
    <3>1. /\ Views(q)
          /\ Accepted(q, s, check) => Above(b, DOMAIN q.paks \cup {s})
          /\ s \in SeqNumber /\ b \in SeqNumber /\ t \in Times
          /\ type \in PakTypes /\ r = InsertOne(q, s, type, check, t)
      BY <2>2, <2>3, <2>4, <2>5
    <3> HIDE DEF q
    <3>2. /\ Views(InsertOne(q, s, type, check, t))
          /\ Inserted(InsertOne(q, s, type, check, t), q, s, check)
      BY <3>1, InsertOneViews
    <3>3. Views(r) /\ Inserted(r, q, s, check)
      BY <3>1, <3>2
    <3> QED
      BY <3>3 DEF q, Inserted
  <2>7. Above(b, DOMAIN r.paks)
    BY <2>5, <2>6 DEF Above
  <2> QED
    BY <2>1, <2>6, <2>7 DEF r
<1> HIDE DEF A
<1>4. Len(seqs) \in A
  BY <1>2, <1>3, BoundedInduction
<1> QED
  BY <1>1, <1>4 DEF A

\* A vector that is checked packet by packet: each packet lies less than a
\* ring from the head, so all of them have room in half the number space.
LEMMA InsertAllChecked ==
    ASSUME NEW p, Views(p), NEW seqs \in Seq(SeqNumber), Len(seqs) > 0,
           Len(seqs) < RingSize, NEW type, type \in PakTypes, NEW check,
           \A q, s : Accepted(q, s, check) => CheckRange(q, s, s) = "OK",
           NEW bump, NEW t \in Times,
           DOMAIN p.paks # {} => SeqDist(p.head, p.tail) < RingSize
    PROVE  Views(InsertAll(p, seqs, type, check, bump, t))
<1>1. PICK f : /\ f[0] = p
               /\ \A i \in 1 .. Len(seqs) :
                    f[i] = InsertOne(f[i - 1],
                                IF bump THEN BumpSeq(seqs[i]) ELSE seqs[i],
                                type, check, t)
               /\ f[Len(seqs)] = InsertAll(p, seqs, type, check, bump, t)
  BY InsertAllFold
<1> DEFINE c == IF DOMAIN p.paks = {} THEN Numbered(seqs, bump, 1) ELSE p.head
           b == SeqAdd(c, -Room)
           M(i) == i * RingSize
<1>2. /\ Len(seqs) \in Nat /\ RingSize \in Nat /\ RingSize >= 2
      /\ MaxGap \in Nat /\ MaxGap <= RingSize
      /\ Room \in Nat /\ Room < SeqSpace
      /\ Room + 2 * RingSize <= SeqSpace \div 2 /\ SeqSpace \div 2 \in Nat
  BY RoomFacts
<1>3. /\ \A i \in 0 .. Len(seqs) : M(i) \in Nat
      /\ \A i \in 0 .. Len(seqs) - 1 :
            M(i + 1) = M(i) + RingSize /\ M(i + 1) + RingSize <= Room
      /\ M(0) = 0
  <2>1. \A u, v, w \in Nat : /\ u * w \in Nat /\ (u + 1) * w = u * w + w
                             /\ u <= v => u * w <= v * w
                             /\ 0 * w = 0
    OBVIOUS
  <2>2. ASSUME NEW i \in 0 .. Len(seqs) - 1
        PROVE  /\ M(i + 1) = M(i) + RingSize
               /\ M(i + 1) + RingSize <= Room
    <3>1. i \in Nat /\ i + 1 \in Nat /\ (i + 1) + 1 \in Nat /\ (i + 1) + 1 <= RingSize
      BY <1>2
    <3>2. ((i + 1) + 1) * RingSize <= RingSize * RingSize
      BY <1>2, <2>1, <3>1
    <3> QED
      BY <1>2, <2>1, <3>1, <3>2 DEF Room
  <2> QED
    BY <1>2, <2>1, <2>2
<1>4. c \in SeqNumber
  <2>1. 1 \in 1 .. Len(seqs)
    BY <1>2
  <2>2. Numbered(seqs, bump, 1) \in SeqNumber
    BY <2>1, ElementOfSeq, SeqTypes DEF Numbered
  <2> QED
    BY <2>2 DEF Views, PcmType
<1>5. b \in SeqNumber /\ SeqDist(b, c) = Room
  BY <1>2, <1>4, AddDist
<1> DEFINE In(i) == /\ Views(f[i])
                    /\ \A x \in DOMAIN f[i].paks :
                          /\ Room <= SeqDist(b, x) + M(i)
                          /\ SeqDist(b, x) < Room + RingSize
                    /\ DOMAIN f[i].paks # {} => c \in DOMAIN f[i].paks
                    /\ DOMAIN f[i].paks = {} => i = 0
           A == {i \in 0 .. Len(seqs) : In(i)}
<1>6. In(0)
  <2>1. f[0] = p
    BY <1>1
  <2>2. ASSUME NEW x \in DOMAIN p.paks
        PROVE  /\ Room <= SeqDist(b, x) + M(0)
               /\ SeqDist(b, x) < Room + RingSize
    <3>1. /\ x \in SeqNumber /\ c = p.head
          /\ SeqDist(p.head, x) <= SeqDist(p.head, p.tail)
          /\ p.tail \in SeqNumber
      BY <2>2 DEF Views, PcmType, Ends
    <3>2. SeqDist(c, x) < RingSize /\ SeqDist(c, x) \in Nat
      <4>1. SeqDist(c, x) \in Nat /\ SeqDist(c, p.tail) \in Nat
        BY <1>4, <3>1, DistNat
      <4> QED
        BY <1>2, <2>2, <3>1, <4>1
    <3> HIDE DEF b, c, M
    <3>3. SeqDist(b, x) = Room + SeqDist(c, x)
      BY <1>2, <1>4, <1>5, <3>1, <3>2, DistSum, RoomFacts
    <3> QED
      BY <1>2, <1>3, <3>2, <3>3
  <2>3. DOMAIN p.paks # {} => c \in DOMAIN p.paks
    BY DEF Views, Ends
  <2> QED
    BY <2>1, <2>2, <2>3
<1> HIDE DEF b, M
<1>7. ASSUME NEW k \in 0 .. Len(seqs) - 1, k \in A
      PROVE  k + 1 \in A
  <2> DEFINE s == Numbered(seqs, bump, k + 1)
             q == f[k]
             r == f[k + 1]
             D == DOMAIN q.paks
  <2>1. k + 1 \in 1 .. Len(seqs) /\ (k + 1) - 1 = k
    BY <1>2
  <2>2. s \in SeqNumber
    BY <2>1, ElementOfSeq, SeqTypes DEF Numbered
  <2>3. In(k)
    BY <1>7
  <2>4. r = InsertOne(q, s, type, check, t)
    BY <1>1, <2>1 DEF Numbered
  <2>5. PcmType(q) /\ Ends(q) /\ D \subseteq SeqNumber
    BY <2>3 DEF Views, PcmType
  <2>6. M(k) \in Nat /\ M(k + 1) \in Nat /\ M(k + 1) = M(k) + RingSize /\ M(k) + 2 * RingSize <= Room
    BY <1>2, <1>3
  <2>7. D = {} => s = c
    <3> SUFFICES ASSUME D = {} PROVE s = c
      OBVIOUS
    <3>1. k = 0
      BY <2>3
    <3>2. q = p
      BY <1>1, <3>1
    <3> QED
      BY <3>1, <3>2 DEF c
  <2>8. ASSUME Accepted(q, s, check)
        PROVE  Room <= SeqDist(b, s) + M(k + 1) /\ SeqDist(b, s) < Room + RingSize
    <3>1. CASE D = {}
      BY <1>2, <1>5, <2>6, <2>7, <3>1
    <3>2. CASE D # {}
      <4>1. q.head \in D /\ c \in D /\ q.head \in SeqNumber
        BY <2>3, <2>5, <3>2 DEF Ends
      <4>2. /\ Room <= SeqDist(b, q.head) + M(k)
            /\ SeqDist(b, q.head) < Room + RingSize
        BY <2>3, <4>1
      <4>3. SeqDist(b, q.head) \in Nat /\ SeqDist(b, s) \in Nat
        BY <1>5, <2>2, <4>1, DistNat
      <4>4. SeqDist(b, q.head) <= Room
        <5>1. SeqLe(q.head, c)
          BY <2>5, <4>1, EndsOrder
        <5>2. /\ SeqDist(b, q.head) < SeqSpace \div 2
              /\ SeqDist(b, c) < SeqSpace \div 2
          BY <1>2, <1>5, <4>2, <4>3
        <5> QED
          BY <1>4, <1>5, <4>1, <5>1, <5>2, DistOrder
      <4>5. CheckRange(q, s, s) = "OK"
        BY <2>8
      <4>6. /\ ~SeqLe(SeqAdd(q.head, RingSize), s)
            /\ ~SeqLe(s, SeqAdd(q.head, -MaxGap))
        BY <2>5, <3>2, <4>5, RangeChecked
      <4>7. /\ MaxGap <= SeqDist(b, q.head)
            /\ SeqDist(b, q.head) + RingSize < SeqSpace \div 2
        <5> DEFINE u == SeqDist(b, q.head)
                   m == M(k)
        <5> HIDE DEF u, m
        <5>1. /\ u \in Nat /\ m \in Nat /\ m + 2 * RingSize <= Room
              /\ Room <= u + m /\ u <= Room
          BY <2>6, <4>2, <4>3, <4>4 DEF u, m
        <5>2. MaxGap <= u /\ u + RingSize < SeqSpace \div 2
          BY <1>2, <5>1
        <5> QED
          BY <5>2 DEF u
      <4>8. /\ SeqDist(b, s) > SeqDist(b, q.head) - MaxGap
            /\ SeqDist(b, s) < SeqDist(b, q.head) + RingSize
        BY <1>2, <1>5, <2>2, <4>1, <4>6, <4>7, AcceptedNear
      <4> DEFINE u == SeqDist(b, q.head)
                 v == SeqDist(b, s)
                 m == M(k)
                 n == M(k + 1)
      <4> HIDE DEF u, v, m, n
      <4>9. /\ u \in Nat /\ v \in Nat /\ m \in Nat /\ n = m + RingSize
            /\ Room <= u + m /\ u <= Room
            /\ v > u - MaxGap /\ v < u + RingSize
        BY <2>6, <4>2, <4>3, <4>4, <4>8 DEF u, v, m, n
      <4>10. Room <= v + n /\ v < Room + RingSize
        BY <1>2, <4>9
      <4> QED
        BY <4>10 DEF v, n
    <3> QED
      BY <3>1, <3>2
  <2>9. \A x \in D : /\ Room <= SeqDist(b, x) + M(k + 1)
                     /\ SeqDist(b, x) < Room + RingSize
    <3> SUFFICES ASSUME NEW x \in D
                 PROVE  /\ Room <= SeqDist(b, x) + M(k + 1)
                        /\ SeqDist(b, x) < Room + RingSize
      OBVIOUS
    <3>1. SeqDist(b, x) \in Nat
      BY <1>5, <2>5, DistNat
    <3>2. Room <= SeqDist(b, x) + M(k) /\ SeqDist(b, x) < Room + RingSize
      BY <2>3
    <3> DEFINE v == SeqDist(b, x)
               m == M(k)
               n == M(k + 1)
    <3> HIDE DEF v, m, n
    <3>3. /\ v \in Nat /\ m \in Nat /\ n = m + RingSize
          /\ Room <= v + m /\ v < Room + RingSize
      BY <2>6, <3>1, <3>2 DEF v, m, n
    <3>4. Room <= v + n
      BY <1>2, <3>3
    <3> QED
      BY <3>2, <3>4 DEF v, n
  <2>10. Accepted(q, s, check) => Above(b, D \cup {s})
    <3> SUFFICES ASSUME Accepted(q, s, check), NEW x \in D \cup {s}
                 PROVE  SeqDist(b, x) < SeqSpace \div 2
      BY DEF Above
    <3>1. SeqDist(b, x) < Room + RingSize
      BY <2>8, <2>9
    <3>2. SeqDist(b, x) \in Nat
      BY <1>5, <2>2, <2>5, DistNat
    <3> QED
      BY <1>2, <3>1, <3>2
  <2>11. Views(q)
    BY <2>3
  <2> HIDE DEF s, q, r, c
  <2>12. /\ Views(InsertOne(q, s, type, check, t))
         /\ Inserted(InsertOne(q, s, type, check, t), q, s, check)
    BY <1>5, <2>2, <2>10, <2>11, InsertOneViews
  <2>13. Views(r) /\ Inserted(r, q, s, check)
    BY <2>4, <2>12
  <2>14. In(k + 1)
    <3>1. DOMAIN r.paks = D \/ (Accepted(q, s, check) /\ DOMAIN r.paks = D \cup {s})
      BY <2>13 DEF Inserted
    <3>2. DOMAIN r.paks # {}
      BY <2>13 DEF Inserted
    <3>3. \A x \in DOMAIN r.paks : /\ Room <= SeqDist(b, x) + M(k + 1)
                                   /\ SeqDist(b, x) < Room + RingSize
      BY <2>8, <2>9, <3>1
    <3>4. c \in DOMAIN r.paks
      <4>1. D # {} => c \in D
        BY <2>3 DEF q
      <4> QED
        BY <2>7, <3>1, <3>2, <4>1
    <3> QED
      BY <2>13, <3>2, <3>3, <3>4 DEF r
  <2> HIDE DEF In
  <2> QED
    BY <2>1, <2>14
<1>8. 0 \in A
  BY <1>2, <1>6
<1> HIDE DEF A
<1>9. Len(seqs) \in A
  BY <1>2, <1>7, <1>8, BoundedInduction
<1> QED
  BY <1>1, <1>9 DEF A

\* The numbers of a contiguous vector, also when they start anew.
LEMMA ShiftDist ==
    ASSUME NEW x \in SeqNumber, NEW y \in SeqNumber, NEW n \in Nat, n < SeqSpace
    PROVE  SeqDist(SeqAdd(x, n), SeqAdd(y, n)) = SeqDist(x, y)
<1>1. /\ SeqSpace \in Nat
      /\ x \in Int /\ 0 <= x /\ x < SeqSpace
      /\ y \in Int /\ 0 <= y /\ y < SeqSpace
  BY RoomFacts DEF SeqNumber
<1>2. \A z \in SeqNumber :
         /\ SeqAdd(z, n) \in SeqNumber
         /\ SeqAdd(z, n) = IF z + n < SeqSpace THEN z + n ELSE z + n - SeqSpace
  <2> SUFFICES ASSUME NEW z \in SeqNumber
               PROVE  /\ SeqAdd(z, n) \in SeqNumber
                      /\ SeqAdd(z, n) = IF z + n < SeqSpace THEN z + n
                                        ELSE z + n - SeqSpace
    OBVIOUS
  <2>1. z \in 0 .. SeqSpace - 1 /\ z + n \in Int
    BY <1>1 DEF SeqNumber
  <2>2. z + n < SeqSpace => z + n \in 0 .. SeqSpace - 1
    BY <1>1, <2>1
  <2>3. ~(z + n < SeqSpace) => z + n \in SeqSpace .. 2 * SeqSpace - 1
    BY <1>1, <2>1
  <2>4. SeqAdd(z, n) \in SeqNumber
    BY <2>1, SeqAddType
  <2> QED
    BY <1>1, <2>1, <2>2, <2>3, <2>4, ModNear DEF SeqAdd
<1> DEFINE u == SeqAdd(x, n)
           v == SeqAdd(y, n)
<1>3. /\ u = IF x + n < SeqSpace THEN x + n ELSE x + n - SeqSpace
      /\ v = IF y + n < SeqSpace THEN y + n ELSE y + n - SeqSpace
      /\ u \in SeqNumber /\ v \in SeqNumber
  BY <1>2
<1> HIDE DEF u, v
<1>4. SeqDist(u, v) = IF v >= u THEN v - u ELSE v - u + SeqSpace
  BY <1>3, DistValue
<1>5. SeqDist(x, y) = IF y >= x THEN y - x ELSE y - x + SeqSpace
  BY DistValue
<1>6. SeqDist(u, v) = SeqDist(x, y)
  BY <1>1, <1>3, <1>4, <1>5
<1> QED
  BY <1>6 DEF u, v

Contiguous(seqs) == \A i \in 2 .. Len(seqs) : seqs[i] = NextSeq(seqs[i - 1])

LEMMA ContiguousDist ==
    ASSUME NEW seqs \in Seq(SeqNumber), Contiguous(seqs), Len(seqs) < RingSize,
           NEW i \in 1 .. Len(seqs)
    PROVE  SeqDist(seqs[1], seqs[i]) = i - 1
<1> DEFINE A == {k \in 0 .. i - 1 : SeqDist(seqs[1], seqs[k + 1]) = k}
<1>1. /\ Len(seqs) \in Nat /\ i - 1 \in Nat /\ i <= Len(seqs)
      /\ RingSize < SeqSpace /\ RingSize \in Nat /\ SeqSpace \in Nat
  BY RoomFacts
<1>2. \A k \in 1 .. Len(seqs) : seqs[k] \in SeqNumber
  BY ElementOfSeq
<1>3. 0 \in A
  <2>1. seqs[1] \in SeqNumber /\ 0 + 1 = 1 /\ 0 \in 0 .. i - 1
    BY <1>1, <1>2
  <2>2. SeqDist(seqs[1], seqs[1]) = 0
    BY <2>1, DistValue DEF SeqNumber
  <2> QED
    BY <2>1, <2>2
<1>4. ASSUME NEW k \in 0 .. (i - 1) - 1, k \in A
      PROVE  k + 1 \in A
  <2>1. /\ k \in Nat /\ k + 1 \in 1 .. Len(seqs) /\ (k + 1) + 1 \in 2 .. Len(seqs)
        /\ ((k + 1) + 1) - 1 = k + 1 /\ k + 1 \in 0 .. i - 1
        /\ 1 \in 1 .. Len(seqs) /\ (k + 1) + 1 \in 1 .. Len(seqs)
        /\ k + 1 < SeqSpace
    BY <1>1
  <2> DEFINE u == seqs[k + 1]
             v == seqs[(k + 1) + 1]
  <2>2. v = NextSeq(u)
    BY <2>1 DEF Contiguous
  <2>3. /\ seqs[1] \in SeqNumber /\ u \in SeqNumber /\ v \in SeqNumber
        /\ SeqDist(seqs[1], u) = k
    BY <1>2, <1>4, <2>1
  <2> HIDE DEF u, v
  <2>4. SeqDist(u, v) = 1
    <3>1. 1 < SeqSpace /\ 1 \in Nat
      BY <1>1, <2>1
    <3> QED
      BY <2>2, <2>3, <3>1, AddDist DEF NextSeq
  <2>5. SeqDist(seqs[1], v) = k + 1
    <3>1. SeqDist(seqs[1], u) + SeqDist(u, v) < SeqSpace
      BY <1>1, <2>1, <2>3, <2>4
    <3>2. SeqDist(seqs[1], v) = SeqDist(seqs[1], u) + SeqDist(u, v)
      BY <2>3, <3>1, DistSum
    <3> QED
      BY <2>3, <2>4, <3>2
  <2> QED
    BY <2>1, <2>5 DEF v
<1> HIDE DEF A
<1>5. i - 1 \in A
  BY <1>1, <1>3, <1>4, BoundedInduction
<1>6. (i - 1) + 1 = i
  BY <1>1
<1> QED
  BY <1>5, <1>6 DEF A

\* A contiguous vector that passes the check as a whole.
LEMMA InsertContiguous ==
    ASSUME NEW p, Views(p), NEW seqs \in Seq(SeqNumber), Len(seqs) > 0,
           Len(seqs) < RingSize, Contiguous(seqs),
           CheckRange(p, seqs[1], seqs[Len(seqs)]) = "OK",
           NEW type, type \in PakTypes, NEW check, NEW bump,
           bump => DOMAIN p.paks = {}, NEW t \in Times,
           DOMAIN p.paks # {} => SeqDist(p.head, p.tail) < RingSize
    PROVE  Views(InsertAll(p, seqs, type, check, bump, t))
<1>1. /\ Len(seqs) \in Nat /\ RingSize \in Nat /\ RingSize >= 2
      /\ MaxGap \in Nat /\ MaxGap <= RingSize
      /\ Room \in Nat /\ Room < SeqSpace /\ 2 * RingSize <= Room
      /\ Room + 2 * RingSize <= SeqSpace \div 2 /\ SeqSpace \div 2 \in Nat
      /\ SeqSpace \in Nat
  BY RoomFacts
<1> DEFINE N(i) == Numbered(seqs, bump, i)
<1>2. \A i \in 1 .. Len(seqs) : seqs[i] \in SeqNumber /\ N(i) \in SeqNumber
  BY ElementOfSeq, SeqTypes DEF Numbered
<1>3. 1 \in 1 .. Len(seqs) /\ Len(seqs) \in 1 .. Len(seqs)
  BY <1>1
<1>4. CASE DOMAIN p.paks = {}
  <2>1. ASSUME NEW i \in 1 .. Len(seqs)
        PROVE  SeqDist(N(1), N(i)) < SeqSpace \div 2
    <3>1. SeqDist(seqs[1], seqs[i]) = i - 1
      BY ContiguousDist
    <3>2. 3 * RtpMod \in Nat /\ 3 * RtpMod < SeqSpace
      BY SeqNumAssumption
    <3>3. SeqDist(BumpSeq(seqs[1]), BumpSeq(seqs[i])) = i - 1
      BY <1>2, <1>3, <3>1, <3>2, ShiftDist DEF BumpSeq
    <3>4. SeqDist(N(1), N(i)) = i - 1
      BY <3>1, <3>3 DEF Numbered
    <3> QED
      BY <1>1, <3>4
  <2>2. Above(N(1), DOMAIN p.paks)
    BY <1>4 DEF Above
  <2>3. N(1) \in SeqNumber
    BY <1>2, <1>3
  <2> DEFINE b == N(1)
  <2>4. \A i \in 1 .. Len(seqs) :
           SeqDist(b, Numbered(seqs, bump, i)) < SeqSpace \div 2
    BY <2>1
  <2>5. b \in SeqNumber /\ Above(b, DOMAIN p.paks)
    BY <2>2, <2>3
  <2> HIDE DEF b
  <2> QED
    BY <2>4, <2>5, InsertAllViews
<1>5. CASE DOMAIN p.paks # {}
  <2> DEFINE h == p.head
             b == SeqAdd(h, -Room)
             z == seqs[Len(seqs)]
  <2>1. /\ PcmType(p) /\ Ends(p) /\ h \in SeqNumber /\ p.tail \in SeqNumber
        /\ DOMAIN p.paks \subseteq SeqNumber
    BY DEF Views, PcmType
  <2>2. b \in SeqNumber /\ SeqDist(b, h) = Room
    BY <1>1, <2>1, AddDist
  <2> HIDE DEF b
  <2>3. ASSUME NEW x \in DOMAIN p.paks
        PROVE  SeqDist(b, x) < SeqSpace \div 2
    <3>1. SeqDist(h, x) \in Nat /\ SeqDist(h, p.tail) \in Nat
      BY <2>1, DistNat
    <3>2. SeqDist(h, x) <= SeqDist(h, p.tail) /\ SeqDist(h, p.tail) < RingSize
      BY <1>5, <2>1 DEF Ends
    <3>3. SeqDist(h, x) < RingSize
      BY <1>1, <3>1, <3>2
    <3>4. SeqDist(b, x) = Room + SeqDist(h, x)
      BY <1>1, <2>1, <2>2, <3>1, <3>3, DistSum
    <3> QED
      BY <1>1, <3>1, <3>3, <3>4
  <2>4. z \in SeqNumber
    BY <1>2, <1>3
  <2>5. /\ SeqDist(b, z) > Room - MaxGap /\ SeqDist(b, z) < Room + RingSize
        /\ SeqDist(b, z) \in Nat
    <3>1. /\ ~SeqLe(SeqAdd(p.head, RingSize), z)
          /\ ~SeqLe(z, SeqAdd(p.head, -MaxGap))
      BY <1>5, <2>1, RangeChecked
    <3>2. MaxGap <= SeqDist(b, h) /\ SeqDist(b, h) + RingSize < SeqSpace \div 2
      BY <1>1, <2>2
    <3>3. SeqDist(b, z) \in Nat
      BY <2>2, <2>4, DistNat
    <3> HIDE DEF z
    <3> QED
      BY <1>1, <2>1, <2>2, <2>4, <3>1, <3>2, <3>3, AcceptedNear
  <2>6. ASSUME NEW i \in 1 .. Len(seqs)
        PROVE  SeqDist(b, Numbered(seqs, bump, i)) < SeqSpace \div 2
    <3> DEFINE x == seqs[i]
    <3>1. x = Numbered(seqs, bump, i) /\ x \in SeqNumber /\ seqs[1] \in SeqNumber
      BY <1>2, <1>3, <1>5 DEF Numbered
    <3>2. SeqDist(seqs[1], x) = i - 1 /\ SeqDist(seqs[1], z) = Len(seqs) - 1
      BY <1>3, ContiguousDist
    <3> HIDE DEF x, z
    <3>3. SeqDist(x, z) = Len(seqs) - i
      <4>1. /\ SeqDist(seqs[1], x) < SeqSpace \div 2
            /\ SeqDist(seqs[1], z) < SeqSpace \div 2
            /\ SeqDist(seqs[1], x) <= SeqDist(seqs[1], z)
        BY <1>1, <3>2
      <4> QED
        BY <1>1, <2>4, <3>1, <3>2, <4>1, DistOrder
    <3>4. SeqDist(x, z) <= SeqDist(b, z)
      BY <1>1, <2>5, <3>3
    <3>5. SeqDist(b, x) = SeqDist(b, z) - SeqDist(x, z)
      BY <2>2, <2>4, <3>1, <3>4, DistSum
    <3>6. SeqDist(b, x) < SeqSpace \div 2
      BY <1>1, <2>5, <3>3, <3>5
    <3> QED
      BY <3>1, <3>6
  <2>7. Above(b, DOMAIN p.paks)
    BY <2>3 DEF Above
  <2> QED
    BY <2>2, <2>6, <2>7, InsertAllViews
<1> QED
  BY <1>4, <1>5

LEMMA DistEqual ==
    ASSUME NEW h \in SeqNumber, NEW x \in SeqNumber, NEW y \in SeqNumber,
           SeqDist(h, x) = SeqDist(h, y)
    PROVE  x = y
<1>1. /\ SeqSpace \in Nat
      /\ h \in Int /\ 0 <= h /\ h < SeqSpace
      /\ x \in Int /\ 0 <= x /\ x < SeqSpace
      /\ y \in Int /\ 0 <= y /\ y < SeqSpace
  BY RoomFacts DEF SeqNumber
<1> DEFINE dx == SeqDist(h, x)
           dy == SeqDist(h, y)
<1>2. /\ dx = IF x >= h THEN x - h ELSE x - h + SeqSpace
      /\ dy = IF y >= h THEN y - h ELSE y - h + SeqSpace
      /\ dx = dy
  BY DistValue
<1> HIDE DEF dx, dy
<1> QED
  BY <1>1, <1>2

\* What a flush leaves, and a reset of the output does not touch.
LEMMA ResetViews ==
    ASSUME NEW p, Views(p)
    PROVE  /\ Views(Flush(p)) /\ DOMAIN Flush(p).paks = {}
           /\ Views(OutpReset(p, FALSE)) /\ SameViews(OutpReset(p, FALSE), p)
<1>1. PcmType(p) /\ DOMAIN p = PcmFields
  BY DEF Views, PcmType
<1>2. PcmType(Flush(p)) /\ PcmType(OutpReset(p, FALSE))
  BY <1>1, ResetType
<1>3. Views(OutpReset(p, FALSE)) /\ SameViews(OutpReset(p, FALSE), p)
  <2>1. SameViews(OutpReset(p, FALSE), p)
    BY <1>1 DEF OutpReset, SameViews, PcmFields
  <2> QED
    BY <1>2, <2>1, ViewsFrame
<1>4. /\ Flush(p).paks = <<>> /\ Flush(p).gapmap = {} /\ Flush(p).inorder = <<>>
  BY <1>1 DEF Flush, OutpReset, PcmFields
<1>5. DOMAIN Flush(p).paks = {}
  BY <1>4
<1>6. Ends(Flush(p)) /\ Bits(Flush(p)) /\ Apart(Flush(p))
  BY <1>4, <1>5 DEF Ends, Bits, Apart
<1>7. Listed(Flush(p))
  <2>1. ToSet(<<>>) = {} /\ Len(<<>>) = 0
    BY DEF ToSet
  <2> QED
    BY <1>4, <1>5, <2>1 DEF Listed
<1> QED
  BY <1>2, <1>3, <1>5, <1>6, <1>7 DEF Views

LEMMA InsertPacketsViews ==
    ASSUME NEW p, Views(p), NEW seqs \in Seq(SeqNumber), Len(seqs) > 0,
           Len(seqs) < RingSize, NEW type, type \in PakTypes,
           NEW contig, contig => Contiguous(seqs), NEW t \in Times,
           DOMAIN p.paks # {} => SeqDist(p.head, p.tail) < RingSize
    PROVE  Views(InsertPackets(p, seqs, type, contig, t))
<1> DEFINE over  == NumPaks(p) + Len(seqs) >= RingSize
           p1    == IF over THEN Flush(p) ELSE p
           under == NumPaks(p) = 0 /\ p1.lastValid /\ ~p.underrunDis
           p2    == IF under THEN OutpReset(p1, FALSE) ELSE p1
           range == IF contig THEN CheckRange(p2, seqs[1], seqs[Len(seqs)])
                    ELSE "SOME"
           check == range = "SOME"
           bump  == over \/ under
           r     == InsertAll(p2, seqs, type, check, bump, t)
<1>1. InsertPackets(p, seqs, type, contig, t) =
        IF range = "ALL" THEN p2 ELSE BurstCheck(r)
  BY DEF InsertPackets
<1>2. NumPaks(p) = 0 => DOMAIN p.paks = {}
  BY NumPaksZero DEF Views
<1>3. /\ Views(p1) /\ (over => DOMAIN p1.paks = {})
      /\ ~over => p1 = p
  BY ResetViews
<1> HIDE DEF over, p1
<1>4. /\ Views(p2) /\ SameViews(p2, p1)
  <2>1. SameViews(p1, p1)
    BY DEF SameViews
  <2> QED
    BY <1>3, <2>1, ResetViews
<1>5. bump => DOMAIN p2.paks = {}
  BY <1>2, <1>3, <1>4 DEF SameViews
<1>6. DOMAIN p2.paks # {} => SeqDist(p2.head, p2.tail) < RingSize
  BY <1>3, <1>4 DEF SameViews
<1> HIDE DEF under, p2, bump
<1>7. range \in {"ALL", "SOME", "OK"}
  BY DEF CheckRange
<1>8. range # "ALL" => Views(r)
  <2>1. CASE range = "SOME"
    <3>1. \A q, s : Accepted(q, s, check) => CheckRange(q, s, s) = "OK"
      BY <2>1 DEF Accepted
    <3> HIDE DEF check
    <3> QED
      BY <1>4, <1>5, <1>6, <3>1, InsertAllChecked
  <2>2. CASE range = "OK"
    <3>1. contig /\ CheckRange(p2, seqs[1], seqs[Len(seqs)]) = "OK"
      BY <2>2
    <3>2. Contiguous(seqs)
      BY <3>1
    <3> HIDE DEF check, range
    <3> QED
      BY <1>4, <1>5, <1>6, <3>1, <3>2, InsertContiguous
  <2> QED
    BY <1>7, <2>1, <2>2
<1> HIDE DEF r, range
<1>9. Views(r) => Views(BurstCheck(r))
  <2> SUFFICES ASSUME Views(r) PROVE Views(BurstCheck(r))
    OBVIOUS
  <2> DEFINE u == [r EXCEPT !.notified = TRUE, !.burstDone = TRUE]
  <2>1. PcmType(r) /\ DOMAIN r = PcmFields
    BY DEF Views, PcmType
  <2>2. PcmType(u)
    BY <2>1 DEF PcmType, PcmFields
  <2>3. SameViews(u, r)
    BY <2>1 DEF SameViews, PcmFields
  <2>4. BurstCheck(r) \in {u, r}
    BY DEF BurstCheck
  <2> HIDE DEF u
  <2> QED
    BY <2>2, <2>3, <2>4, ViewsFrame
<1> QED
  BY <1>1, <1>4, <1>8, <1>9

-----------------------------------------------------------------------------
(***************************************************************************)
(* Output keeps the views in agreement.                                    *)
(***************************************************************************)
\* The bitmap leads to the packet after the head.
LEMMA FindNextIsNext ==
    ASSUME NEW p, Views(p), DOMAIN p.paks # {}, p.head # p.tail,
           SeqDist(p.head, p.tail) < RingSize
    PROVE  /\ FindNext(p) \in DOMAIN p.paks \ {p.head}
           /\ \A x \in DOMAIN p.paks \ {p.head} :
                 SeqDist(p.head, FindNext(p)) <= SeqDist(p.head, x)
<1> DEFINE h == p.head
           D == DOMAIN p.paks
           n == NextSeq(h)
           a == SeqAdd(h, 2)
           set == {s \in SeqRange(a, p.tail) : Slot(s) \in p.gapmap}
<1>1. /\ h \in D /\ p.tail \in D /\ D \subseteq SeqNumber
      /\ h \in SeqNumber /\ p.tail \in SeqNumber
      /\ \A s \in D : SeqDist(h, s) <= SeqDist(h, p.tail)
      /\ None \notin D
  BY PcmAssumption DEF Views, PcmType, Ends
<1>2. /\ RingSize \in Nat /\ RingSize < SeqSpace \div 2 /\ SeqSpace \in Nat
      /\ SeqSpace \div 2 \in Nat /\ 2 * (SeqSpace \div 2) <= SeqSpace
      /\ 2 < SeqSpace
  BY RoomFacts
<1>3. /\ \A x \in SeqNumber : SeqDist(h, x) \in Nat
      /\ \A x \in SeqNumber : SeqDist(h, x) = 0 <=> x = h
  <2>1. SeqDist(h, h) = 0
    BY <1>1, DistSelf
  <2>2. \A x \in SeqNumber : SeqDist(h, x) = 0 <=> x = h
    <3> HIDE DEF h
    <3> QED
      BY <1>1, <2>1, DistEqual
  <2> QED
    BY <1>1, <2>2, DistNat
<1>4. \A x \in D \ {h} : SeqDist(h, x) >= 1 /\ SeqDist(h, x) < RingSize
  BY <1>1, <1>2, <1>3
<1>5. /\ n \in SeqNumber /\ SeqDist(h, n) = 1
      /\ a \in SeqNumber /\ SeqDist(h, a) = 2
  BY <1>1, <1>2, AddDist DEF NextSeq
<1>6. CASE n \in D
  <2>1. FindNext(p) = n
    BY <1>6 DEF FindNext
  <2>2. n # h
    BY <1>3, <1>5
  <2> QED
    BY <1>4, <1>5, <1>6, <2>1, <2>2
<1>7. CASE n \notin D
  <2>1. \A x \in D \ {h} : SeqDist(h, x) >= 2
    <3> SUFFICES ASSUME NEW x \in D \ {h}, SeqDist(h, x) = 1
                 PROVE  FALSE
      BY <1>1, <1>3, <1>4
    <3>1. x \in SeqNumber
      BY <1>1
    <3>2. x = n
      BY <1>1, <1>5, <3>1, DistEqual
    <3> QED
      BY <1>7, <3>2
  <2>2. ASSUME NEW x \in D \ {h}
        PROVE  x \in set
    <3>1. SeqDist(h, x) >= 2 /\ SeqDist(h, x) < RingSize /\ x \in SeqNumber
          /\ SeqDist(h, x) <= SeqDist(h, p.tail)
      BY <1>1, <1>4, <2>1
    <3>2. Slot(x) \in p.gapmap
      BY DEF Views, Bits
    <3>3. /\ SeqDist(h, p.tail) < SeqSpace \div 2 /\ SeqDist(h, x) < SeqSpace \div 2
          /\ SeqDist(h, a) < SeqSpace \div 2 /\ SeqDist(h, p.tail) \in Nat
          /\ SeqDist(h, a) <= SeqDist(h, x) /\ SeqDist(h, a) <= SeqDist(h, p.tail)
          /\ SeqDist(h, x) \in Nat
      BY <1>1, <1>2, <1>3, <1>5, <3>1
    <3> HIDE DEF a, h
    <3>4. /\ SeqLe(a, p.tail)
          /\ SeqDist(a, x) = SeqDist(h, x) - SeqDist(h, a)
          /\ SeqDist(a, p.tail) = SeqDist(h, p.tail) - SeqDist(h, a)
      BY <1>1, <1>5, <3>1, <3>3, DistOrder
    <3>5. x = SeqAdd(a, SeqDist(a, x))
      <4>1. SeqDist(a, x) \in Nat /\ SeqDist(a, x) < SeqSpace
        BY <1>2, <1>5, <3>1, <3>3, <3>4
      <4>2. /\ SeqAdd(a, SeqDist(a, x)) \in SeqNumber
            /\ SeqDist(a, SeqAdd(a, SeqDist(a, x))) = SeqDist(a, x)
        BY <1>5, <4>1, AddDist
      <4> DEFINE y == SeqAdd(a, SeqDist(a, x))
      <4>3. y \in SeqNumber /\ SeqDist(a, y) = SeqDist(a, x)
        BY <4>2
      <4> HIDE DEF y
      <4>4. x = y
        BY <1>5, <3>1, <4>3, DistEqual
      <4> QED
        BY <4>4 DEF y
    <3>6. SeqDist(a, x) \in 0 .. SeqDist(a, p.tail)
      BY <1>5, <3>1, <3>3, <3>4
    <3>7. x \in SeqRange(a, p.tail)
      BY <3>4, <3>5, <3>6 DEF SeqRange
    <3> QED
      BY <3>2, <3>7
  <2>3. set \in SUBSET SeqRange(a, p.tail) /\ set # {}
    BY <1>1, <2>2
  <2> DEFINE m == SeqMin(set)
  <2>4. m \in set /\ \A x \in set : SeqLe(m, x)
    <3> HIDE DEF set, a
    <3> QED
      BY <1>1, <1>5, <2>3, SeqMinType
  <2>5. /\ m \in SeqNumber
        /\ SeqDist(h, m) >= 2 /\ SeqDist(h, m) <= SeqDist(h, p.tail)
    <3> HIDE DEF m, a, h
    <3>1. SeqLe(a, p.tail) /\ m \in SeqRange(a, p.tail)
      BY <2>4 DEF SeqRange
    <3>2. PICK i \in 0 .. SeqDist(a, p.tail) : m = SeqAdd(a, i)
      BY <3>1 DEF SeqRange
    <3>3. SeqDist(h, p.tail) >= 2 /\ SeqDist(h, p.tail) < RingSize
      <4>1. p.tail \in D \ {h}
        BY <1>1 DEF h
      <4> QED
        BY <1>4, <2>1, <4>1
    <3>4. SeqDist(h, p.tail) \in Nat
      BY <1>1, <1>3
    <3>5. SeqDist(a, p.tail) = SeqDist(h, p.tail) - 2
      <4>1. /\ SeqDist(h, p.tail) < SeqSpace \div 2
            /\ SeqDist(h, a) < SeqSpace \div 2
            /\ SeqDist(h, a) <= SeqDist(h, p.tail)
        BY <1>2, <1>5, <3>3, <3>4
      <4>2. SeqDist(a, p.tail) = SeqDist(h, p.tail) - SeqDist(h, a)
        BY <1>1, <1>5, <4>1, DistOrder
      <4> QED
        BY <1>5, <4>2
    <3>6. i \in Nat /\ i <= SeqDist(h, p.tail) - 2 /\ i < SeqSpace
          /\ 2 + i < SeqSpace
      BY <1>2, <3>3, <3>4, <3>5
    <3>7. m \in SeqNumber /\ SeqDist(a, m) = i
      BY <1>5, <3>2, <3>6, AddDist
    <3>8. SeqDist(h, m) = 2 + i
      BY <1>1, <1>2, <1>5, <3>6, <3>7, DistSum
    <3> QED
      BY <3>4, <3>6, <3>7, <3>8
  <2>6. m \in D
    <3> HIDE DEF m
    <3>1. Slot(m) \in p.gapmap
      BY <2>4
    <3>2. PICK y \in D : Slot(y) = Slot(m)
      BY <3>1 DEF Views, Bits
    <3> HIDE DEF h, D
    <3>3. /\ SeqDist(h, y) \in Nat /\ SeqDist(h, y) < RingSize
          /\ SeqDist(h, m) \in Nat /\ SeqDist(h, m) < RingSize
          /\ y \in SeqNumber
      <4>1. SeqDist(h, p.tail) \in Nat /\ SeqDist(h, p.tail) < RingSize
        BY <1>1, <1>3 DEF h
      <4>2. y \in SeqNumber /\ SeqDist(h, y) <= SeqDist(h, p.tail)
        BY <1>1
      <4> QED
        BY <1>1, <1>2, <1>3, <2>5, <4>1, <4>2
    <3>4. y = m
      <4>1. /\ SeqDist(h, y) - SeqDist(h, m) < RingSize
            /\ SeqDist(h, m) - SeqDist(h, y) < RingSize
        BY <1>2, <3>3
      <4> QED
        BY <1>1, <2>5, <3>2, <3>3, <4>1, SlotsRepeat
    <3> QED
      BY <3>4
  <2>7. m # h
    BY <1>3, <2>5
  <2>8. FindNext(p) = m
    BY <1>7, <2>3, <2>6 DEF FindNext
  <2>9. ASSUME NEW x \in D \ {h}
        PROVE  SeqDist(h, m) <= SeqDist(h, x)
    <3>1. SeqLe(m, x) /\ x \in SeqNumber
      BY <1>1, <2>2, <2>4
    <3> HIDE DEF m, h
    <3>2. SeqDist(h, m) < SeqSpace \div 2 /\ SeqDist(h, x) < SeqSpace \div 2
      <4>1. SeqDist(h, p.tail) \in Nat /\ SeqDist(h, p.tail) < RingSize
        BY <1>1, <1>3 DEF h
      <4>2. SeqDist(h, m) \in Nat /\ SeqDist(h, x) \in Nat
        BY <1>3, <2>5, <3>1
      <4> QED
        BY <1>2, <1>4, <2>5, <4>1, <4>2
    <3> QED
      BY <1>1, <2>5, <3>1, <3>2, DistOrder
  <2> HIDE DEF m, set, a, n
  <2> QED
    BY <2>6, <2>7, <2>8, <2>9
<1> QED
  BY <1>6, <1>7

\* The first element of a list, if it is the one to remove.
LEMMA RemoveFirstFacts ==
    ASSUME NEW list \in Seq(SeqNumber), NEW e,
           \A i \in 2 .. Len(list) : list[i] # e
    PROVE  \/ RemoveFirst(list, e) = list /\ e \notin ToSet(list)
           \/ /\ Len(list) > 0 /\ list[1] = e
              /\ Len(RemoveFirst(list, e)) = Len(list) - 1
              /\ \A i \in 1 .. Len(list) - 1 :
                    RemoveFirst(list, e)[i] = list[i + 1]
<1>1. Len(list) \in Nat
  OBVIOUS
<1>2. CASE ~\E i \in 1 .. Len(list) : list[i] = e
  BY <1>2 DEF RemoveFirst, ToSet
<1>3. CASE \E i \in 1 .. Len(list) : list[i] = e
  <2> DEFINE I == {i \in 1 .. Len(list) : list[i] = e}
             k == SelectInSeq(list, LAMBDA v : v = e)
  <2>1. I = {1} /\ Len(list) > 0 /\ list[1] = e
    BY <1>1, <1>3
  <2>2. k = Min(I)
    BY <1>3 DEF SelectInSeq
  <2>3. k = 1
    <3> HIDE DEF I, k
    <3> QED
      BY <2>1, <2>2 DEF Min
  <2>4. RemoveFirst(list, e)
          = SubSeq(list, 1, k - 1) \o SubSeq(list, k + 1, Len(list))
    BY <1>3 DEF RemoveFirst, RemoveAt, k
  <2> HIDE DEF I, k
  <2>5. RemoveFirst(list, e) = SubSeq(list, 1, 0) \o SubSeq(list, 2, Len(list))
    BY <2>3, <2>4
  <2>6. /\ SubSeq(list, 1, 0) \in Seq(SeqNumber)
        /\ Len(SubSeq(list, 1, 0)) = 0
    BY <1>1, <2>1, SubSeqProperties
  <2>7. /\ SubSeq(list, 2, Len(list)) \in Seq(SeqNumber)
        /\ Len(SubSeq(list, 2, Len(list))) = Len(list) - 1
        /\ \A i \in 1 .. Len(list) - 1 :
              SubSeq(list, 2, Len(list))[i] = list[i + 1]
    BY <1>1, <2>1, SubSeqProperties
  <2> DEFINE u == SubSeq(list, 1, 0)
             w == SubSeq(list, 2, Len(list))
             r == RemoveFirst(list, e)
  <2>8. /\ r = u \o w /\ u \in Seq(SeqNumber) /\ w \in Seq(SeqNumber)
        /\ Len(u) = 0 /\ Len(w) = Len(list) - 1
        /\ \A i \in 1 .. Len(list) - 1 : w[i] = list[i + 1]
    BY <2>5, <2>6, <2>7
  <2> HIDE DEF u, w, r
  <2>9. /\ Len(r) = Len(list) - 1
        /\ \A i \in 1 .. Len(list) - 1 : r[i] = list[i + 1]
    BY <1>1, <2>8, ConcatProperties
  <2> QED
    BY <2>1, <2>9 DEF r
<1> QED
  BY <1>2, <1>3

\* The packets lie within one ring.
Close(p) == DOMAIN p.paks # {} => SeqDist(p.head, p.tail) < RingSize

LEMMA RemoveFields ==
    ASSUME NEW p, PcmType(p)
    PROVE  LET r == RemoveHead(p)
           IN  /\ r.head = IF p.tail = p.head \/ FindNext(p) = None THEN p.head
                           ELSE FindNext(p)
               /\ r.tail = p.tail
               /\ r.paks = [x \in DOMAIN p.paks \ {p.head} |-> p.paks[x]]
               /\ r.gapmap = p.gapmap \ {Slot(p.head)}
               /\ r.inorder = RemoveFirst(p.inorder, p.head)
<1>1. DOMAIN p = PcmFields
  BY DEF PcmType
<1> QED
  BY <1>1 DEF RemoveHead, PcmFields

\* The list of packets in order begins with the head, if that is one of them.
LEMMA RemoveListed ==
    ASSUME NEW p, Views(p), DOMAIN p.paks # {}
    PROVE  LET list == RemoveFirst(p.inorder, p.head)
           IN  /\ ToSet(list) = ToSet(p.inorder) \ {p.head}
               /\ \A i \in 1 .. Len(list) - 1 : SeqLt(list[i], list[i + 1])
<1> DEFINE h == p.head
           in == p.inorder
           list == RemoveFirst(in, h)
<1>1. /\ in \in Seq(SeqNumber) /\ Len(in) \in Nat /\ h \in SeqNumber
      /\ PcmType(p) /\ Ends(p) /\ h \in DOMAIN p.paks
      /\ ToSet(in) \subseteq DOMAIN p.paks
      /\ \A i \in 1 .. Len(in) - 1 : SeqLt(in[i], in[i + 1])
  BY DEF Views, PcmType, Ends, Listed
<1>2. ASSUME NEW i \in 2 .. Len(in), in[i] = h
      PROVE  FALSE
  <2>1. i - 1 \in 1 .. Len(in) /\ i - 1 \in 1 .. Len(in) - 1 /\ (i - 1) + 1 = i
    BY <1>1
  <2> DEFINE x == in[i - 1]
  <2>2. SeqLt(x, h) /\ x \in DOMAIN p.paks
    BY <1>1, <1>2, <2>1 DEF ToSet
  <2>3. SeqLe(h, x) /\ x \in SeqNumber
    BY <1>1, <2>2, EndsOrder DEF PcmType
  <2> HIDE DEF x, h
  <2>4. /\ SeqSpace \in Nat /\ SeqSpace > 0
        /\ SeqSpace \div 2 \in Nat /\ 2 * (SeqSpace \div 2) <= SeqSpace
        /\ SeqSpace \div 2 > 0
    BY RoomFacts
  <2>5. SeqDist(h, h) = 0
    BY <1>1, DistSelf
  <2>6. x # h
    BY <2>2, <2>4, <2>5 DEF SeqLt
  <2> DEFINE u == SeqDist(x, h)
             v == SeqDist(h, x)
  <2>7. u >= SeqSpace \div 2 /\ v >= SeqSpace \div 2
    BY <2>2, <2>3, <2>6 DEF SeqLt, SeqLe
  <2>8. v < SeqSpace \div 2
    <3>1. p.tail \in SeqNumber /\ v <= SeqDist(h, p.tail)
          /\ SeqDist(h, p.tail) < SeqSpace \div 2
      BY <1>1, <2>2 DEF Ends, PcmType, h
    <3>2. v \in Nat /\ SeqDist(h, p.tail) \in Nat
      BY <1>1, <2>3, <3>1, DistNat
    <3> HIDE DEF v
    <3> QED
      BY <2>4, <3>1, <3>2
  <2>9. v \in Nat
    BY <1>1, <2>3, DistNat
  <2> HIDE DEF v
  <2> QED
    BY <2>4, <2>7, <2>8, <2>9
<1>3. \/ list = in /\ h \notin ToSet(in)
      \/ /\ Len(in) > 0 /\ in[1] = h
         /\ Len(list) = Len(in) - 1
         /\ \A i \in 1 .. Len(in) - 1 : list[i] = in[i + 1]
  <2> HIDE DEF in, h
  <2> QED
    BY <1>1, <1>2, RemoveFirstFacts
<1> HIDE DEF list, in, h
<1>4. CASE list = in /\ h \notin ToSet(in)
  BY <1>1, <1>4 DEF list, in, h
<1>5. CASE /\ Len(in) > 0 /\ in[1] = h
           /\ Len(list) = Len(in) - 1
           /\ \A i \in 1 .. Len(in) - 1 : list[i] = in[i + 1]
  <2>1. ToSet(list) = ToSet(in) \ {h}
    <3>1. ASSUME NEW x \in ToSet(list)
          PROVE  x \in ToSet(in) \ {h}
      <4>1. PICK i \in 1 .. Len(list) : x = list[i]
        BY <3>1 DEF ToSet
      <4>2. i + 1 \in 2 .. Len(in) /\ i + 1 \in 1 .. Len(in) /\ x = in[i + 1]
        BY <1>1, <1>5, <4>1
      <4> QED
        BY <1>2, <4>2 DEF ToSet
    <3>2. ASSUME NEW x \in ToSet(in) \ {h}
          PROVE  x \in ToSet(list)
      <4>1. PICK i \in 1 .. Len(in) : x = in[i]
        BY <3>2 DEF ToSet
      <4>2. i # 1
        BY <1>5, <3>2, <4>1
      <4>3. i - 1 \in 1 .. Len(list) /\ i - 1 \in 1 .. Len(in) - 1 /\ (i - 1) + 1 = i
        BY <1>1, <1>5, <4>1, <4>2
      <4>4. x = list[i - 1]
        BY <1>5, <4>1, <4>3
      <4> QED
        BY <4>3, <4>4 DEF ToSet
    <3> QED
      BY <3>1, <3>2
  <2>2. ASSUME NEW i \in 1 .. Len(list) - 1
        PROVE  SeqLt(list[i], list[i + 1])
    <3>1. i \in 1 .. Len(in) - 1 /\ i + 1 \in 1 .. Len(in) - 1
      BY <1>1, <1>5
    <3>2. list[i] = in[i + 1] /\ list[i + 1] = in[(i + 1) + 1]
      BY <1>5, <3>1
    <3> QED
      BY <1>1, <3>1, <3>2
  <2> QED
    BY <2>1, <2>2 DEF list, in, h
<1> QED
  BY <1>3, <1>4, <1>5

LEMMA RemoveViews ==
    ASSUME NEW p, Views(p), Close(p), DOMAIN p.paks # {}
    PROVE  Views(RemoveHead(p)) /\ Close(RemoveHead(p))
<1> DEFINE r == RemoveHead(p)
           h == p.head
           D == DOMAIN p.paks
<1>1. /\ PcmType(p) /\ D \subseteq SeqNumber /\ h \in D /\ p.tail \in D
      /\ h \in SeqNumber /\ p.tail \in SeqNumber
      /\ SeqDist(h, p.tail) < RingSize
      /\ \A x \in D : SeqDist(h, x) <= SeqDist(h, p.tail)
  BY DEF Views, PcmType, Ends, Close
<1>2. PcmType(r)
  BY <1>1, RemoveType
<1>3. /\ r.head = IF p.tail = h \/ FindNext(p) = None THEN h ELSE FindNext(p)
      /\ r.tail = p.tail
      /\ r.paks = [x \in D \ {h} |-> p.paks[x]]
      /\ r.gapmap = p.gapmap \ {Slot(h)}
      /\ r.inorder = RemoveFirst(p.inorder, h)
  BY <1>1, RemoveFields
<1> HIDE DEF r
<1>4. DOMAIN r.paks = D \ {h}
  BY <1>3
<1>5. Bits(r)
  BY <1>1, <1>3, <1>4 DEF Views, Bits, Apart
<1>6. Apart(r)
  BY <1>4 DEF Views, Apart
<1>7. Listed(r)
  <2> DEFINE list == RemoveFirst(p.inorder, h)
  <2>1. /\ ToSet(list) = ToSet(p.inorder) \ {h}
        /\ \A i \in 1 .. Len(list) - 1 : SeqLt(list[i], list[i + 1])
    BY RemoveListed
  <2>2. ToSet(p.inorder) = {s \in D : ~p.paks[s].reordered}
    BY DEF Views, Listed
  <2>3. r.inorder = list
    BY <1>3
  <2> HIDE DEF list
  <2>4. {s \in DOMAIN r.paks : ~r.paks[s].reordered}
          = {s \in D : ~p.paks[s].reordered} \ {h}
    BY <1>3, <1>4
  <2> QED
    BY <2>1, <2>2, <2>3, <2>4 DEF Listed
<1>8. Ends(r) /\ Close(r)
  <2>1. CASE h = p.tail
    <3>1. ASSUME NEW x \in D PROVE x = h
      <4>1. x \in SeqNumber /\ SeqDist(h, x) <= SeqDist(h, h)
        BY <1>1, <2>1
      <4>2. SeqDist(h, h) = 0 /\ SeqDist(h, x) \in Nat
        <5>1. \A y \in SeqNumber : SeqDist(y, y) = 0
          BY DistSelf
        <5> QED
          BY <1>1, <4>1, <5>1, DistNat
      <4>3. SeqDist(h, x) = SeqDist(h, h)
        BY <4>1, <4>2
      <4> QED
        BY <1>1, <4>1, <4>3, DistEqual
    <3>2. DOMAIN r.paks = {}
      BY <1>4, <3>1
    <3> QED
      BY <3>2 DEF Ends, Close
  <2>2. CASE h # p.tail
    <3> DEFINE n == FindNext(p)
    <3>1. n \in D \ {h} /\ \A x \in D \ {h} : SeqDist(h, n) <= SeqDist(h, x)
      <4>1. /\ p.head # p.tail /\ SeqDist(p.head, p.tail) < RingSize
            /\ DOMAIN p.paks # {}
        BY <1>1, <2>2
      <4>2. /\ FindNext(p) \in DOMAIN p.paks \ {p.head}
            /\ \A x \in DOMAIN p.paks \ {p.head} :
                  SeqDist(p.head, FindNext(p)) <= SeqDist(p.head, x)
        BY <4>1, FindNextIsNext
      <4> QED
        BY <4>2
    <3>2. n # None
      BY <1>1, <3>1, PcmAssumption
    <3> HIDE DEF n
    <3>3. r.head = n /\ r.tail = p.tail
      BY <1>3, <2>2, <3>2 DEF n
    <3>4. /\ RingSize \in Nat /\ SeqSpace \div 2 \in Nat /\ RingSize < SeqSpace \div 2
      BY RoomFacts
    <3>5. \A x \in D : SeqDist(h, x) \in Nat
      BY <1>1, DistNat
    <3>6. ASSUME NEW x \in D \ {h}
          PROVE  SeqDist(n, x) = SeqDist(h, x) - SeqDist(h, n)
      <4>1. x \in SeqNumber /\ n \in SeqNumber /\ x \in D /\ n \in D
        BY <1>1, <3>1
      <4>2. SeqDist(h, x) < SeqSpace \div 2 /\ SeqDist(h, n) < SeqSpace \div 2
        BY <1>1, <3>4, <3>5, <4>1
      <4>3. SeqDist(h, n) <= SeqDist(h, x)
        BY <3>1
      <4> HIDE DEF h, D
      <4> QED
        BY <1>1, <4>1, <4>2, <4>3, DistOrder
    <3> HIDE DEF h, D
    <3>7. p.tail \in D \ {h}
      BY <1>1, <2>2
    <3>8. SeqDist(n, p.tail) = SeqDist(h, p.tail) - SeqDist(h, n)
      BY <3>6, <3>7
    <3>9. SeqDist(n, p.tail) < RingSize /\ SeqDist(n, p.tail) < SeqSpace \div 2
      BY <1>1, <3>1, <3>4, <3>5, <3>8
    <3>10. ASSUME NEW x \in D \ {h}
           PROVE  SeqDist(n, x) <= SeqDist(n, p.tail)
      <4>1. SeqDist(h, x) <= SeqDist(h, p.tail) /\ x \in D /\ n \in D
        BY <1>1, <3>1
      <4>2. SeqDist(n, x) = SeqDist(h, x) - SeqDist(h, n)
        BY <3>6
      <4> QED
        BY <1>1, <3>5, <3>8, <4>1, <4>2
    <3>11. Ends(r)
      BY <1>4, <3>1, <3>3, <3>7, <3>9, <3>10 DEF Ends
    <3> QED
      BY <3>3, <3>9, <3>11 DEF Close
  <2> QED
    BY <2>1, <2>2
<1> QED
  BY <1>2, <1>5, <1>6, <1>7, <1>8 DEF Views, r

LEMMA FutureViews ==
    ASSUME NEW p, Views(p), Close(p), NEW t \in Times
    PROVE  Views(HeadNotInFuture(p, t)) /\ Close(HeadNotInFuture(p, t))
<1> DEFINE ring == [p.paks EXCEPT ![p.head].ts = t]
           u == [p EXCEPT !.paks = ring]
           r == HeadNotInFuture(p, t)
<1>1. PcmType(p) /\ DOMAIN p = PcmFields /\ PcmType(r)
  BY FutureType DEF Views, PcmType
<1>2. CASE ~(DOMAIN p.paks # {} /\ p.paks[p.head].ts > t)
  BY <1>2 DEF HeadNotInFuture
<1>3. CASE DOMAIN p.paks # {} /\ p.paks[p.head].ts > t
  <2>1. r = u
    BY <1>3 DEF HeadNotInFuture
  <2>2. /\ DOMAIN ring = DOMAIN p.paks
        /\ \A x \in DOMAIN ring : ring[x].reordered = p.paks[x].reordered
    <3>1. \A x \in DOMAIN p.paks : p.paks[x] \in Pak
      BY <1>1 DEF PcmType
    <3>2. \A x \in DOMAIN p.paks :
             [p.paks[x] EXCEPT !.ts = t].reordered = p.paks[x].reordered
      BY <3>1 DEF Pak
    <3> QED
      BY <3>2
  <2> HIDE DEF ring
  <2>3. /\ r.paks = ring /\ r.gapmap = p.gapmap /\ r.inorder = p.inorder
        /\ r.head = p.head /\ r.tail = p.tail
    BY <1>1, <2>1 DEF PcmFields
  <2> HIDE DEF u, r
  <2>4. Ends(r) /\ Bits(r) /\ Apart(r) /\ Close(r)
    BY <2>2, <2>3 DEF Views, Ends, Bits, Apart, Close
  <2>5. Listed(r)
    <3>1. {s \in DOMAIN r.paks : ~r.paks[s].reordered}
            = {s \in DOMAIN p.paks : ~p.paks[s].reordered}
      BY <2>2, <2>3
    <3> QED
      BY <2>3, <3>1 DEF Views, Listed
  <2> QED
    BY <1>1, <2>4, <2>5 DEF Views, r
<1> QED
  BY <1>2, <1>3

\* A pass of the scheduler, and all of them.
LEMMA PassViews ==
    ASSUME NEW p, Views(p), Close(p), NEW t \in Times
    PROVE  Views(Pass(p, t)) /\ Close(Pass(p, t))
<1> DEFINE h == HeadNotInFuture(p, t)
           q == [h EXCEPT !.pend = None]
           r == RemoveHead(q)
           aborted == r.postAbort /\ ~(q.primRcvd /\ SeqLe(q.firstPrim, q.head))
           u == [r EXCEPT !.pend = q.head, !.lastPak = q.head,
                          !.lastValid = TRUE, !.postAbort = aborted]
<1>1. Views(h) /\ Close(h) /\ DOMAIN h = PcmFields
  BY FutureViews DEF Views, PcmType
<1>2. Pass(p, t) = IF Ready(q, t) THEN u ELSE q
  BY DEF Pass
<1> HIDE DEF h
<1>3. Views(q) /\ Close(q)
  <2>1. PcmType(q)
    BY <1>1 DEF Views, PcmType, PcmFields
  <2>2. SameViews(q, h)
    BY <1>1 DEF SameViews, PcmFields
  <2> HIDE DEF q
  <2> QED
    BY <1>1, <2>1, <2>2, ViewsFrame DEF Close, SameViews
<1>4. q.head \in SeqNumber
  BY <1>3 DEF Views, PcmType
<1> HIDE DEF q
<1>5. CASE Ready(q, t)
  <2>1. DOMAIN q.paks # {}
    BY <1>5 DEF Ready
  <2>2. Views(r) /\ Close(r)
    BY <1>3, <2>1, RemoveViews
  <2>3. PcmType(r) /\ DOMAIN r = PcmFields /\ aborted \in BOOLEAN
    BY <2>2 DEF Views, PcmType
  <2> HIDE DEF r, aborted
  <2>4. PcmType(u)
    BY <1>4, <2>3 DEF PcmType, PcmFields
  <2>5. SameViews(u, r)
    BY <2>3 DEF SameViews, PcmFields
  <2> HIDE DEF u
  <2>6. Views(u) /\ Close(u)
    BY <2>2, <2>4, <2>5, ViewsFrame DEF Close, SameViews
  <2> QED
    BY <1>2, <1>5, <2>6
<1>6. CASE ~Ready(q, t)
  BY <1>2, <1>3, <1>6
<1> QED
  BY <1>5, <1>6

LEMMA PassesViews ==
    ASSUME NEW p, Views(p), Close(p), NEW n \in Nat, NEW t \in Times
    PROVE  Views(Passes(p, n, t)) /\ Close(Passes(p, n, t))
<1>1. PICK f : /\ f[0] = p
               /\ \A i \in 1 .. n : f[i] = Pass(f[i - 1], t)
               /\ f[n] = Passes(p, n, t)
  BY PassesFold
<1> DEFINE A == {i \in 0 .. n : Views(f[i]) /\ Close(f[i])}
<1>2. 0 \in A
  BY <1>1
<1>3. ASSUME NEW k \in 0 .. n - 1, k \in A
      PROVE  k + 1 \in A
  <2>1. k + 1 \in 1 .. n /\ (k + 1) - 1 = k
    OBVIOUS
  <2>2. f[k + 1] = Pass(f[k], t) /\ Views(f[k]) /\ Close(f[k])
    BY <1>1, <1>3, <2>1
  <2>3. Views(f[k + 1]) /\ Close(f[k + 1])
    BY <2>2, PassViews
  <2> QED
    BY <2>1, <2>3
<1> HIDE DEF A
<1>4. n \in A
  BY <1>2, <1>3, BoundedInduction
<1> QED
  BY <1>1, <1>4 DEF A

\* The packets of the cache lie within one ring.  Insertion keeps the distance
\* of head and tail below the ring's size upwards only
\* (vqec_pcm_insert_packet_check_range): packets below the head can spread the
\* cache further, and then the views come apart.
WithinRing == Close(pcm)

LEMMA PcmInitViews == PcmInit => Views(pcm)
<1> SUFFICES ASSUME PcmInit PROVE Views(pcm)
  OBVIOUS
<1>1. PcmType(pcm)
  BY PcmInitType DEF PcmInv
<1>2. pcm.paks = <<>> /\ pcm.gapmap = {} /\ pcm.inorder = <<>>
  BY DEF PcmInit
<1>3. DOMAIN pcm.paks = {} /\ ToSet(pcm.inorder) = {} /\ Len(pcm.inorder) = 0
  BY <1>2 DEF ToSet
<1> QED
  BY <1>1, <1>2, <1>3 DEF Views, Ends, Bits, Apart, Listed

\* Every step of the cache keeps the views, if its packets lie within a ring.
LEMMA PcmNextViews ==
    ASSUME PcmInv, Views(pcm), WithinRing, PcmNext
    PROVE  Views(pcm')
<1>0. /\ PcmType(pcm) /\ DOMAIN pcm = PcmFields /\ now \in Times
      /\ Close(pcm) /\ PcmType(pcm')
  BY PcmNextType DEF PcmInv, PcmType, WithinRing
<1>a. \A q : SameViews(q, pcm) => Ends(q) /\ Close(q)
  BY <1>0 DEF Views, SameViews, Ends, Close
<1>1. ASSUME NEW v \in Vectors, RxPrimary(v)
      PROVE  Views(pcm')
  <2> DEFINE seqs == NumberPaks(pcm.lastRx, v)
             contig == \A i \in 2 .. Len(seqs) : seqs[i] = NextSeq(seqs[i - 1])
             p == [pcm EXCEPT !.lastRx = Last(seqs)]
  <2>1. v \in Seq(RtpNumber) /\ v # <<>> /\ Len(v) < RingSize
    BY PcmAssumption
  <2>2. seqs \in Seq(SeqNumber) /\ Len(seqs) = Len(v)
    BY <1>0, <2>1, NumberPaksType DEF PcmType
  <2>3. pcm' = InsertPackets(p, seqs, "PRIMARY", contig, now)
    BY <1>1 DEF RxPrimary
  <2>4. contig => Contiguous(seqs)
    BY DEF Contiguous
  <2> HIDE DEF seqs, contig
  <2>5. Len(seqs) > 0 /\ Len(seqs) < RingSize
    BY <2>1, <2>2, EmptySeq
  <2>6. Last(seqs) \in SeqNumber
    <3>1. Len(seqs) \in 1 .. Len(seqs)
      BY <2>2, <2>5
    <3> QED
      BY <2>2, <3>1, ElementOfSeq DEF Last
  <2>7. PcmType(p) /\ SameViews(p, pcm)
    BY <1>0, <2>6 DEF PcmType, PcmFields, SameViews
  <2> HIDE DEF p
  <2>8. Views(p) /\ (DOMAIN p.paks # {} => SeqDist(p.head, p.tail) < RingSize)
    BY <1>0, <2>7, ViewsFrame DEF Close, SameViews
  <2>9. Views(InsertPackets(p, seqs, "PRIMARY", contig, now))
    <3>1. "PRIMARY" \in PakTypes
      BY DEF PakTypes
    <3> QED
      BY <1>0, <2>2, <2>4, <2>5, <2>8, <3>1, InsertPacketsViews
  <2> QED
    BY <2>3, <2>9
<1>2. ASSUME NEW r \in Repairs, RxRepair(r)
      PROVE  Views(pcm')
  <2> DEFINE s == NearestToRtp(pcm.lastRx, r)
             p == [pcm EXCEPT !.lastRx = s]
  <2>1. s \in SeqNumber
    BY <1>0, NearestType, PcmAssumption DEF PcmType
  <2>2. pcm' \in {p, InsertPackets(p, <<s>>, "REPAIR", TRUE, now)}
    BY <1>2 DEF RxRepair
  <2> HIDE DEF s
  <2>3. PcmType(p) /\ SameViews(p, pcm)
    BY <1>0, <2>1 DEF PcmType, PcmFields, SameViews
  <2> HIDE DEF p
  <2>4. Views(p) /\ (DOMAIN p.paks # {} => SeqDist(p.head, p.tail) < RingSize)
    BY <1>0, <2>3, ViewsFrame DEF Close, SameViews
  <2>5. CASE pcm' = p
    BY <2>4, <2>5
  <2>6. CASE pcm' = InsertPackets(p, <<s>>, "REPAIR", TRUE, now)
    <3>1. "REPAIR" \in PakTypes
      BY DEF PakTypes
    <3> DEFINE one == <<s>>
    <3>2. /\ one \in Seq(SeqNumber) /\ Len(one) > 0 /\ Len(one) < RingSize
          /\ Contiguous(one)
      <4>1. Len(one) = 1 /\ one \in Seq(SeqNumber)
        BY <2>1
      <4>2. RingSize \in Nat /\ 1 < RingSize
        BY PcmAssumption
      <4> HIDE DEF one
      <4> QED
        BY <4>1, <4>2 DEF Contiguous
    <3> HIDE DEF one
    <3>3. Views(InsertPackets(p, one, "REPAIR", TRUE, now))
      BY <1>0, <2>4, <3>1, <3>2, InsertPacketsViews
    <3> QED
      BY <2>6, <3>3 DEF one
  <2> QED
    BY <2>2, <2>5, <2>6
<1>3. \A p : \A marked \in BOOLEAN :
         Views(p) => Views(RccAbortPcm(p, marked)) /\ Views(Flush(p))
  <2> SUFFICES ASSUME NEW p, Views(p), NEW marked \in BOOLEAN
               PROVE  Views(RccAbortPcm(p, marked)) /\ Views(Flush(p))
    OBVIOUS
  <2> DEFINE f == Flush(p)
             r == [f EXCEPT !.burstDone = TRUE, !.postAbort = marked,
                            !.abort = "actions"]
  <2>1. Views(f) /\ PcmType(f) /\ DOMAIN f = PcmFields
    BY ResetViews DEF Views, PcmType
  <2>2. RccAbortPcm(p, marked) = r
    BY DEF RccAbortPcm
  <2> HIDE DEF f
  <2>3. PcmType(r) /\ SameViews(r, f)
    BY <2>1 DEF PcmType, PcmFields, SameViews
  <2> HIDE DEF r
  <2>4. Views(r)
    BY <2>1, <2>3, ViewsFrame
  <2> QED
    BY <2>1, <2>2, <2>4 DEF f
<1>4. CASE OschedClockBack
  BY <1>3, <1>4 DEF OschedClockBack
<1>5. ASSUME NEW marked \in BOOLEAN, RccAbort(marked)
      PROVE  Views(pcm')
  BY <1>0, <1>3, <1>5 DEF RccAbort
<1>6. ASSUME NEW n \in 0 .. MaxPasses, OschedRun(n)
      PROVE  Views(pcm')
  <2> DEFINE p == IF pcm.checked THEN [pcm EXCEPT !.checked = FALSE]
                  ELSE TimeoutCandidates(pcm, now + 1)
  <2>1. pcm' = Passes(p, n, now + 1) /\ now + 1 \in Times
    BY <1>0, <1>6, TimesType DEF OschedRun
  <2>2. PcmType(p)
    <3>1. PcmType([pcm EXCEPT !.checked = FALSE])
      BY <1>0 DEF PcmType, PcmFields
    <3> QED
      BY <1>0, <3>1, TimeoutType
  <2>3. SameViews(p, pcm)
    BY <1>0 DEF TimeoutCandidates, SameViews, PcmFields
  <2> HIDE DEF p
  <2>4. Views(p) /\ Close(p)
    BY <1>0, <2>2, <2>3, ViewsFrame DEF Close, SameViews
  <2>5. n \in Nat
    OBVIOUS
  <2> QED
    BY <2>1, <2>4, <2>5, PassesViews
<1>7. CASE RccEnableEr
  <2>1. SameViews(pcm', pcm)
    BY <1>0, <1>7 DEF RccEnableEr, SameViews, PcmFields
  <2> QED
    BY <1>0, <2>1, ViewsFrame
<1>8. CASE UpdateFecDelay
  <2> DEFINE p == [pcm EXCEPT !.hold = FecHoldTime]
  <2>1. SameViews(p, pcm) /\ DOMAIN p = PcmFields
    BY <1>0 DEF SameViews, PcmFields
  <2>2. pcm' \in {p, TimeoutCandidates(p, Last(p.cands).ts)}
    BY <1>8 DEF UpdateFecDelay
  <2> HIDE DEF p
  <2>3. \A t : SameViews(TimeoutCandidates(p, t), p)
    BY <2>1 DEF TimeoutCandidates, SameViews, PcmFields
  <2>4. SameViews(pcm', pcm)
    BY <2>1, <2>2, <2>3 DEF SameViews
  <2> QED
    BY <1>0, <2>4, ViewsFrame
<1>9. CASE FailoverSource
  <2>1. SameViews(pcm', pcm)
    BY <1>0, <1>9 DEF FailoverSource, SameViews, PcmFields
  <2> QED
    BY <1>0, <2>1, ViewsFrame
<1>10. CASE ClockBack
  BY <1>10 DEF ClockBack
<1> QED
  BY <1>1, <1>2, <1>4, <1>5, <1>6, <1>7, <1>8, <1>9, <1>10 DEF PcmNext

LEMMA PcmStutterViews ==
    ASSUME PcmInv, Views(pcm), WithinRing, [PcmNext]_pcmVars
    PROVE  PcmInv' /\ Views(pcm')
<1>1. CASE PcmNext
  BY <1>1, PcmNextType, PcmNextViews DEF PcmInv
<1>2. CASE UNCHANGED pcmVars
  BY <1>2 DEF PcmInv, pcmVars
<1> QED
  BY <1>1, <1>2

\* What a cache with consistent views shows.
LEMMA ViewsShow ==
    ASSUME PcmInv, Views(pcm)
    PROVE  ViewsAgree
<1>1. PcmTypeOK
  BY DEF PcmInv, PcmType, PcmTypeOK, Times
<1>2. HeadTailExact
  BY EndsOrder DEF Views, Ends, HeadTailExact
<1>3. GapmapExact /\ InorderExact
  BY DEF Views, Bits, Listed, GapmapExact, InorderExact
<1> QED
  BY <1>1, <1>2, <1>3 DEF ViewsAgree

LEMMA NextShown ==
    ASSUME Views(pcm), WithinRing
    PROVE  NextPakFound
<1> SUFFICES ASSUME Cardinality(DOMAIN pcm.paks) > 1
             PROVE  FindNext(pcm) # None
  BY DEF NextPakFound
<1> DEFINE D == DOMAIN pcm.paks
<1>1. D # {}
  BY FS_EmptySet
<1>2. /\ PcmType(pcm) /\ D \subseteq SeqNumber /\ pcm.head \in D
      /\ \A x \in D : SeqDist(pcm.head, x) <= SeqDist(pcm.head, pcm.tail)
      /\ SeqDist(pcm.head, pcm.tail) < RingSize
  BY <1>1 DEF Views, Ends, PcmType, WithinRing, Close
<1>3. pcm.head # pcm.tail
  <2> SUFFICES ASSUME pcm.head = pcm.tail PROVE FALSE
    OBVIOUS
  <2>1. ASSUME NEW x \in D PROVE x = pcm.head
    <3>1. \A y \in SeqNumber : SeqDist(y, y) = 0
      BY DistSelf
    <3>2. x \in SeqNumber /\ pcm.head \in SeqNumber
      BY <1>2
    <3>3. SeqDist(pcm.head, x) <= SeqDist(pcm.head, pcm.head)
      BY <1>2
    <3>4. SeqDist(pcm.head, x) = SeqDist(pcm.head, pcm.head)
      BY <3>1, <3>2, <3>3, DistNat
    <3> QED
      BY <3>2, <3>4, DistEqual
  <2>2. D = {pcm.head}
    BY <1>2, <2>1
  <2>3. Cardinality({pcm.head}) = 1
    BY FS_Singleton
  <2> QED
    BY <2>2, <2>3
<1>4. FindNext(pcm) \in D
  BY <1>1, <1>2, <1>3, FindNextIsNext
<1> QED
  BY <1>2, <1>4, PcmAssumption

\* The values of the cache's fields keep their types, whatever happens.
THEOREM PcmTypeCorrect == PcmSpec => []PcmTypeOK
<1>1. PcmInit => PcmInv
  BY PcmInitType
<1>2. PcmInv /\ [PcmNext]_pcmVars => PcmInv'
  <2>1. PcmInv /\ PcmNext => PcmInv'
    BY PcmNextType DEF PcmInv
  <2>2. PcmInv /\ UNCHANGED pcmVars => PcmInv'
    BY DEF PcmInv, pcmVars
  <2> QED
    BY <2>1, <2>2
<1>3. PcmInv => PcmTypeOK
  BY DEF PcmInv, PcmType, PcmTypeOK, Times
<1> QED
  BY <1>1, <1>2, <1>3, PTL DEF PcmSpec

\* As long as its packets lie within a ring, the cache's views of them agree.
THEOREM CacheViewsAgree == PcmSpec /\ []WithinRing => []ViewsAgree
<1>1. PcmInit => PcmInv /\ Views(pcm)
  BY PcmInitType, PcmInitViews
<1>2. (PcmInv /\ Views(pcm)) /\ WithinRing /\ [PcmNext]_pcmVars
         => (PcmInv /\ Views(pcm))'
  BY PcmStutterViews
<1>3. PcmInv /\ Views(pcm) => ViewsAgree
  BY ViewsShow
<1> QED
  BY <1>1, <1>2, <1>3, PTL DEF PcmSpec

\* And the assertion that the next packet is found holds.
THEOREM NextPacketIsFound == PcmSpec /\ []WithinRing => []NextPakFound
<1>1. PcmInit => PcmInv /\ Views(pcm)
  BY PcmInitType, PcmInitViews
<1>2. (PcmInv /\ Views(pcm)) /\ WithinRing /\ [PcmNext]_pcmVars
         => (PcmInv /\ Views(pcm))'
  BY PcmStutterViews
<1>3. PcmInv /\ Views(pcm) /\ WithinRing => NextPakFound
  BY NextShown
<1> QED
  BY <1>1, <1>2, <1>3, PTL DEF PcmSpec

-----------------------------------------------------------------------------
(***************************************************************************)
(* The order of the output.                                                *)
(***************************************************************************)
Half == SeqSpace \div 2

\* The number before which another lies less than half the space.
LEMMA BeforeIsLess ==
    ASSUME NEW l \in SeqNumber, NEW s \in SeqNumber,
           0 < SeqDist(l, s), SeqDist(l, s) < Half
    PROVE  SeqLt(l, s) /\ ~SeqLe(s, l)
<1>1. /\ SeqSpace \in Nat /\ Half \in Nat /\ 2 * Half <= SeqSpace
      /\ l \in Int /\ 0 <= l /\ l < SeqSpace
      /\ s \in Int /\ 0 <= s /\ s < SeqSpace
  BY RoomFacts DEF SeqNumber, Half
<1> DEFINE u == SeqDist(l, s)
           v == SeqDist(s, l)
<1>2. /\ u = IF s >= l THEN s - l ELSE s - l + SeqSpace
      /\ v = IF l >= s THEN l - s ELSE l - s + SeqSpace
      /\ 0 < u /\ u < Half
  BY DistValue
<1> HIDE DEF u, v
<1>3. v >= Half /\ ~(u >= Half) /\ s # l
  BY <1>1, <1>2
<1> QED
  BY <1>3 DEF SeqLt, SeqLe, Half, u, v

\* Numbers within a ring of one that lies well after l.
LEMMA NearDist ==
    ASSUME NEW l \in SeqNumber, NEW h \in SeqNumber,
           NEW x \in SeqNumber, NEW y \in SeqNumber,
           SeqDist(h, x) < RingSize, SeqDist(h, y) < RingSize,
           SeqDist(l, x) <= Half - RingSize
    PROVE  /\ SeqDist(l, y) < Half \/ SeqDist(l, y) > SeqSpace - RingSize
           /\ RingSize <= SeqDist(l, x)
                => 0 < SeqDist(l, y) /\ SeqDist(l, y) < Half
<1>1. /\ SeqSpace \in Nat /\ Half \in Nat /\ 2 * Half <= SeqSpace
      /\ RingSize \in Nat /\ 2 * RingSize <= Half
      /\ l \in Int /\ 0 <= l /\ l < SeqSpace
      /\ h \in Int /\ 0 <= h /\ h < SeqSpace
      /\ x \in Int /\ 0 <= x /\ x < SeqSpace
      /\ y \in Int /\ 0 <= y /\ y < SeqSpace
  BY RoomFacts DEF SeqNumber, Half
<1> DEFINE hx == SeqDist(h, x)
           hy == SeqDist(h, y)
           lx == SeqDist(l, x)
           ly == SeqDist(l, y)
<1>2. /\ hx = IF x >= h THEN x - h ELSE x - h + SeqSpace
      /\ hy = IF y >= h THEN y - h ELSE y - h + SeqSpace
      /\ lx = IF x >= l THEN x - l ELSE x - l + SeqSpace
      /\ ly = IF y >= l THEN y - l ELSE y - l + SeqSpace
      /\ hx < RingSize /\ hy < RingSize /\ lx <= Half - RingSize
  BY DistValue
<1> HIDE DEF hx, hy, lx, ly
<1>3. /\ hx \in Int /\ hy \in Int /\ lx \in Int /\ ly \in Int
      /\ 0 <= hx /\ 0 <= hy /\ 0 <= lx /\ 0 <= ly /\ ly < SeqSpace
  BY <1>1, <1>2
<1>4. \/ ly - lx = hy - hx
      \/ ly - lx = hy - hx + SeqSpace
      \/ ly - lx = hy - hx - SeqSpace
      \/ ly - lx = hy - hx + 2 * SeqSpace
      \/ ly - lx = hy - hx - 2 * SeqSpace
  BY <1>1, <1>2
<1>5. \/ ly = lx + (hy - hx)
      \/ ly = lx + (hy - hx) + SeqSpace
  BY <1>1, <1>2, <1>3, <1>4
<1>6. /\ ly < Half \/ ly > SeqSpace - RingSize
      /\ RingSize <= lx => 0 < ly /\ ly < Half
  BY <1>1, <1>2, <1>3, <1>5
<1> QED
  BY <1>6 DEF ly, lx

\* What the order of the output depends on, besides the packets.
SameOutput(q, p) ==
    /\ q.lastValid = p.lastValid /\ q.lastPak = p.lastPak
    /\ q.rcc = p.rcc /\ q.underrunDis = p.underrunDis

\* All numbers of a set come after l.
After(l, D) == \A s \in D : 0 < SeqDist(l, s) /\ SeqDist(l, s) < Half

\* All packets come after l, the last one handed on, and one of them near
\* enough that so does whatever lies within a ring of it, or is refused.
Ordered(p, l) ==
    /\ p.lastValid => l = p.lastPak
    /\ DOMAIN p.paks = {} => p.lastValid
    /\ After(l, DOMAIN p.paks)
    /\ DOMAIN p.paks # {} =>
          \E c \in DOMAIN p.paks :
             /\ SeqDist(l, c) <= Half - RingSize
             /\ ~p.lastValid => RingSize <= SeqDist(l, c)

LEMMA OrderedFrame ==
    ASSUME NEW p, NEW q, NEW l, Ordered(p, l), DOMAIN q.paks = DOMAIN p.paks,
           SameOutput(q, p)
    PROVE  Ordered(q, l)
  BY DEF Ordered, SameOutput

LEMMA UpdateOutput ==
    ASSUME NEW p, DOMAIN p = PcmFields, NEW s, NEW t
    PROVE  /\ SameOutput(UpdateCandidates(p, s, t), p)
           /\ SameOutput(TimeoutCandidates(p, t), p)
<1> DEFINE tc == TimeoutCandidates(p, t)
           q == IF p.cands = <<>>
                THEN [p EXCEPT !.cands = AddCandidate(@, s, t)]
                ELSE IF t > Last(p.cands).ts + p.hold \div MaxCand
                THEN [tc EXCEPT !.cands = AddCandidate(@, s, t)]
                ELSE p
<1>1. SameOutput(tc, p) /\ DOMAIN tc = PcmFields
  BY DEF TimeoutCandidates, SameOutput, PcmFields
<1>2. \A x : DOMAIN x = PcmFields =>
         /\ DOMAIN [x EXCEPT !.cands = AddCandidate(x.cands, s, t)] = PcmFields
         /\ SameOutput([x EXCEPT !.cands = AddCandidate(x.cands, s, t)], x)
         /\ SameOutput([x EXCEPT !.checked = TRUE], x)
  BY DEF SameOutput, PcmFields
<1> HIDE DEF tc
<1>3. DOMAIN q = PcmFields /\ SameOutput(q, p)
  <2>1. CASE p.cands = <<>>
    BY <1>2, <2>1
  <2>2. CASE p.cands # <<>> /\ t > Last(p.cands).ts + p.hold \div MaxCand
    BY <1>1, <1>2, <2>2 DEF SameOutput
  <2>3. CASE p.cands # <<>> /\ ~(t > Last(p.cands).ts + p.hold \div MaxCand)
    BY <2>3 DEF SameOutput
  <2> QED
    BY <2>1, <2>2, <2>3
<1>4. UpdateCandidates(p, s, t) = [q EXCEPT !.checked = TRUE]
  BY DEF UpdateCandidates, q, tc
<1> HIDE DEF q
<1>5. SameOutput(UpdateCandidates(p, s, t), p)
  BY <1>2, <1>3, <1>4 DEF SameOutput
<1> QED
  BY <1>1, <1>5 DEF tc

\* What one pass of the insertion loop adds.
Added(r, p, s, check) ==
    /\ SameOutput(r, p)
    /\ DOMAIN r.paks \in {DOMAIN p.paks, DOMAIN p.paks \cup {s}}
    /\ s \in DOMAIN r.paks => s \in DOMAIN p.paks \/ Accepted(p, s, check)
    /\ DOMAIN p.paks = {} => s \in DOMAIN r.paks

LEMMA InsertOneAdds ==
    ASSUME NEW p, PcmType(p), NEW s \in SeqNumber, NEW type, type \in PakTypes,
           NEW check, NEW t \in Times
    PROVE  Added(InsertOne(p, s, type, check, t), p, s, check)
<1> DEFINE r == InsertOne(p, s, type, check, t)
           u == [p EXCEPT !.primRcvd = TRUE, !.firstPrim = s]
           q == IF type = "PRIMARY" /\ ~p.primRcvd THEN u ELSE p
           pl == Place(q, s, type, t)
           put == Put(q, s, type, t)
<1>1. DOMAIN p = PcmFields
  BY DEF PcmType
<1>2. DOMAIN q = PcmFields /\ SameOutput(q, p) /\ q.paks = p.paks /\ PcmType(q)
  <2>1. /\ DOMAIN u = PcmFields /\ SameOutput(u, p) /\ u.paks = p.paks
        /\ PcmType(u)
    BY <1>1 DEF SameOutput, PcmFields, PcmType
  <2>2. SameOutput(p, p)
    BY DEF SameOutput
  <2> HIDE DEF u
  <2> QED
    BY <1>1, <2>1, <2>2
<1>3. r = IF ~Accepted(p, s, check) THEN p
          ELSE IF \E x \in DOMAIN q.paks : Slot(x) = Slot(s) THEN q
          ELSE pl
  BY DEF InsertOne, Accepted
<1> HIDE DEF q, r
<1>4. SameOutput(pl, p) /\ DOMAIN pl.paks = DOMAIN p.paks \cup {s}
  <2>1. /\ DOMAIN put = PcmFields /\ DOMAIN put.paks = DOMAIN q.paks \cup {s}
        /\ PcmType(put)
    <3>1. DOMAIN Put(q, s, type, t).paks = DOMAIN q.paks \cup {s}
          /\ DOMAIN Put(q, s, type, t) = PcmFields
      BY <1>2 DEF Put, PcmFields
    <3>2. PcmType(Put(q, s, type, t))
      BY <1>2, PutType
    <3> QED
      BY <3>1, <3>2
  <2>2. SameOutput(put, q)
    BY <1>2 DEF Put, SameOutput, PcmFields
  <2>3. pl = IF CameInOrder(q, s, type) THEN UpdateCandidates(put, s, t) ELSE put
    BY PlaceIsPut
  <2> HIDE DEF put, pl
  <2>4. /\ SameOutput(UpdateCandidates(put, s, t), put)
        /\ SameViews(UpdateCandidates(put, s, t), put)
    BY <2>1, UpdateOutput, UpdateViews
  <2>5. SameOutput(pl, put) /\ pl.paks = put.paks
    BY <2>3, <2>4 DEF SameOutput, SameViews
  <2> QED
    BY <1>2, <2>1, <2>2, <2>5 DEF SameOutput
<1>5. SameOutput(p, p)
  BY DEF SameOutput
<1>6. DOMAIN p.paks = {} => Accepted(p, s, check)
  BY NumPaksZero DEF Accepted, CheckRange
<1> HIDE DEF pl
<1>7. /\ SameOutput(r, p)
      /\ DOMAIN r.paks \in {DOMAIN p.paks, DOMAIN p.paks \cup {s}}
      /\ s \in DOMAIN r.paks => s \in DOMAIN p.paks \/ Accepted(p, s, check)
      /\ DOMAIN p.paks = {} => s \in DOMAIN r.paks
  <2>1. CASE ~Accepted(p, s, check)
    BY <1>3, <1>5, <1>6, <2>1
  <2>2. CASE Accepted(p, s, check) /\ \E x \in DOMAIN q.paks : Slot(x) = Slot(s)
    <3>1. r = q
      BY <1>3, <2>2
    <3> QED
      BY <1>2, <2>2, <3>1
  <2>3. CASE Accepted(p, s, check) /\ ~\E x \in DOMAIN q.paks : Slot(x) = Slot(s)
    <3>1. r = pl
      BY <1>3, <2>3
    <3> QED
      BY <1>4, <2>3, <3>1
  <2> QED
    BY <2>1, <2>2, <2>3
<1> QED
  BY <1>7 DEF Added, r

\* The caches between the passes of the loop over a vector.
InsertLoop(f, p, seqs, type, check, bump, t) ==
    /\ f[0] = p
    /\ \A i \in 1 .. Len(seqs) : f[i] = InsertOne(f[i - 1],
                  IF bump THEN BumpSeq(seqs[i]) ELSE seqs[i],
                  type, check, t)
    /\ f[Len(seqs)] = InsertAll(p, seqs, type, check, bump, t)

LEMMA InsertAllLoop ==
    ASSUME NEW p, NEW seqs \in Seq(SeqNumber), NEW type, NEW check,
           NEW bump, NEW t
    PROVE  \E f : InsertLoop(f, p, seqs, type, check, bump, t)
  BY InsertAllFold DEF InsertLoop

\* What the loop over a vector adds.  A cache that is not empty checks each
\* packet against the last one handed on, unless told not to.
AllAdded(r, p, seqs, check, bump) ==
    /\ SameOutput(r, p)
    /\ DOMAIN p.paks \subseteq DOMAIN r.paks
    /\ \A s \in DOMAIN r.paks \ DOMAIN p.paks :
          /\ \E i \in 1 .. Len(seqs) : s = Numbered(seqs, bump, i)
          /\ check /\ DOMAIN p.paks # {} /\ p.lastValid
               => ~SeqLe(s, p.lastPak)
    /\ Len(seqs) > 0 /\ DOMAIN p.paks = {}
         => Numbered(seqs, bump, 1) \in DOMAIN r.paks

LEMMA InsertAllAdds ==
    ASSUME NEW p, PcmType(p), NEW seqs \in Seq(SeqNumber),
           NEW type, type \in PakTypes, NEW check, NEW bump, NEW t \in Times
    PROVE  AllAdded(InsertAll(p, seqs, type, check, bump, t),
                    p, seqs, check, bump)
<1>f. PICK f : InsertLoop(f, p, seqs, type, check, bump, t)
  BY InsertAllLoop
<1>1. /\ f[0] = p
      /\ \A i \in 1 .. Len(seqs) :
            f[i] = InsertOne(f[i - 1],
                        IF bump THEN BumpSeq(seqs[i]) ELSE seqs[i],
                        type, check, t)
      /\ f[Len(seqs)] = InsertAll(p, seqs, type, check, bump, t)
  BY <1>f DEF InsertLoop
<1> DEFINE New(s) ==
             /\ \E i \in 1 .. Len(seqs) : s = Numbered(seqs, bump, i)
             /\ check /\ DOMAIN p.paks # {} /\ p.lastValid
                  => ~SeqLe(s, p.lastPak)
           In(i) == /\ PcmType(f[i]) /\ SameOutput(f[i], p)
                    /\ DOMAIN p.paks \subseteq DOMAIN f[i].paks
                    /\ \A s \in DOMAIN f[i].paks \ DOMAIN p.paks : New(s)
                    /\ i > 0 /\ DOMAIN p.paks = {}
                         => Numbered(seqs, bump, 1) \in DOMAIN f[i].paks
           A == {i \in 0 .. Len(seqs) : In(i)}
<1>2. Len(seqs) \in Nat /\ 0 \in A
  <2>1. f[0] = p /\ Len(seqs) \in Nat
    BY <1>1
  <2>2. SameOutput(p, p)
    BY DEF SameOutput
  <2> HIDE DEF New
  <2>3. In(0)
    BY <2>1, <2>2
  <2> QED
    BY <2>1, <2>3
<1>3. ASSUME NEW k \in 0 .. Len(seqs) - 1, k \in A
      PROVE  k + 1 \in A
  <2> DEFINE s == Numbered(seqs, bump, k + 1)
             q == f[k]
             r == f[k + 1]
  <2>1. k + 1 \in 1 .. Len(seqs) /\ (k + 1) - 1 = k /\ k \in Nat
    BY <1>2
  <2>2. s \in SeqNumber
    BY <2>1, ElementOfSeq, SeqTypes DEF Numbered
  <2>3. In(k)
    BY <1>3
  <2>4. r = InsertOne(q, s, type, check, t)
    BY <1>1, <2>1 DEF Numbered
  <2>5. PcmType(q)
    BY <2>3
  <2> HIDE DEF q, r, s, New
  <2>6. PcmType(r) /\ Added(r, q, s, check)
    <3>1. Added(InsertOne(q, s, type, check, t), q, s, check)
      BY <2>2, <2>5, InsertOneAdds
    <3>2. PcmType(InsertOne(q, s, type, check, t))
      BY <2>2, <2>5, InsertOneType
    <3> QED
      BY <2>4, <3>1, <3>2
  <2>7. /\ SameOutput(q, p) /\ DOMAIN p.paks \subseteq DOMAIN q.paks
        /\ \A x \in DOMAIN q.paks \ DOMAIN p.paks : New(x)
    BY <2>3 DEF q
  <2>8. SameOutput(r, p) /\ DOMAIN p.paks \subseteq DOMAIN r.paks
    BY <2>6, <2>7 DEF Added, SameOutput
  <2>9. ASSUME s \in DOMAIN r.paks, s \notin DOMAIN q.paks
        PROVE  New(s)
    <3>1. \E i \in 1 .. Len(seqs) : s = Numbered(seqs, bump, i)
      BY <2>1 DEF s
    <3>2. ASSUME check, DOMAIN p.paks # {}, p.lastValid
          PROVE  ~SeqLe(s, p.lastPak)
      <4>1. CheckRange(q, s, s) = "OK"
        BY <2>6, <2>9, <3>2 DEF Added, Accepted
      <4>2. NumPaks(q) # 0
        BY <2>5, <2>7, <3>2, NumPaksZero
      <4>3. q.lastValid /\ q.lastPak = p.lastPak
        BY <2>7, <3>2 DEF SameOutput
      <4> QED
        BY <4>1, <4>2, <4>3 DEF CheckRange
    <3> QED
      BY <3>1, <3>2 DEF New
  <2>10. \A x \in DOMAIN r.paks \ DOMAIN p.paks : New(x)
    BY <2>6, <2>7, <2>9 DEF Added
  <2>11. DOMAIN p.paks = {} => Numbered(seqs, bump, 1) \in DOMAIN r.paks
    <3>1. CASE k = 0
      <4>1. s = Numbered(seqs, bump, 1) /\ q = p
        BY <1>1, <3>1 DEF s, q
      <4> QED
        BY <2>6, <4>1 DEF Added
    <3>2. CASE k # 0
      <4>1. k > 0
        BY <2>1, <3>2
      <4>2. DOMAIN p.paks = {} => Numbered(seqs, bump, 1) \in DOMAIN q.paks
        BY <2>3, <4>1 DEF q
      <4> QED
        BY <2>6, <4>2 DEF Added
    <3> QED
      BY <3>1, <3>2
  <2>12. In(k + 1)
    BY <2>6, <2>8, <2>10, <2>11 DEF r
  <2> HIDE DEF In
  <2> QED
    BY <2>1, <2>12
<1> HIDE DEF A
<1>4. Len(seqs) \in A
  BY <1>2, <1>3, BoundedInduction
<1> QED
  BY <1>1, <1>4 DEF A, AllAdded

\* The numbers of a contiguous vector after l, when the first one is.
LEMMA ContiguousAfter ==
    ASSUME NEW seqs \in Seq(SeqNumber), Contiguous(seqs), Len(seqs) < RingSize,
           NEW i \in 1 .. Len(seqs), NEW l \in SeqNumber, ~SeqLe(seqs[1], l)
    PROVE  /\ 0 < SeqDist(l, seqs[i])
           /\ SeqDist(l, seqs[i]) < SeqSpace - RingSize
<1>1. /\ SeqSpace \in Nat /\ Half \in Nat /\ 2 * Half <= SeqSpace
      /\ RingSize \in Nat /\ 2 * RingSize <= Half
      /\ Len(seqs) \in Nat /\ 1 \in 1 .. Len(seqs)
  BY RoomFacts DEF Half
<1> DEFINE x == seqs[1]
           y == seqs[i]
<1>2. x \in SeqNumber /\ y \in SeqNumber /\ SeqDist(x, y) = i - 1
  BY <1>1, ElementOfSeq, ContiguousDist
<1>3. x # l /\ ~(SeqDist(l, x) >= Half)
  BY DEF SeqLe, SeqLt, Half
<1> HIDE DEF x, y
<1>4. SeqDist(l, x) \in Nat /\ SeqDist(l, x) # 0
  <2>1. \A z \in SeqNumber : SeqDist(z, z) = 0
    BY DistSelf
  <2>2. SeqDist(l, x) # SeqDist(l, l)
    BY <1>2, <1>3, DistEqual
  <2> QED
    BY <1>2, <2>1, <2>2, DistNat
<1>5. SeqDist(l, x) + SeqDist(x, y) < SeqSpace - RingSize
  BY <1>1, <1>2, <1>3, <1>4
<1>6. SeqDist(l, y) = SeqDist(l, x) + SeqDist(x, y)
  <2>1. SeqDist(l, x) + SeqDist(x, y) < SeqSpace
    BY <1>1, <1>2, <1>4, <1>5
  <2> QED
    BY <1>2, <2>1, DistSum
<1>7. 0 < SeqDist(l, y) /\ SeqDist(l, y) < SeqSpace - RingSize
  BY <1>1, <1>2, <1>4, <1>5, <1>6
<1> QED
  BY <1>7 DEF y

\* Where insertion begins: with the cache as it is, or empty and anew.
LEMMA InsertPacketsOrder ==
    ASSUME NEW p, Views(p), NEW seqs \in Seq(SeqNumber), Len(seqs) > 0,
           Len(seqs) < RingSize, NEW type, type \in PakTypes,
           NEW contig, contig => Contiguous(seqs), NEW t \in Times,
           Close(p), ~p.underrunDis,
           NEW r, r = InsertPackets(p, seqs, type, contig, t), Close(r),
           NEW l \in SeqNumber, Ordered(p, l),
           RingSize <= SeqDist(l, BumpSeq(seqs[1])),
           SeqDist(l, BumpSeq(seqs[1])) <= Half - RingSize
    PROVE  Ordered(r, l) /\ r.rcc = p.rcc /\ r.underrunDis = p.underrunDis
<1> DEFINE over  == NumPaks(p) + Len(seqs) >= RingSize
           p1    == IF over THEN Flush(p) ELSE p
           under == NumPaks(p) = 0 /\ p1.lastValid /\ ~p.underrunDis
           p2    == IF under THEN OutpReset(p1, FALSE) ELSE p1
           range == IF contig THEN CheckRange(p2, seqs[1], seqs[Len(seqs)])
                    ELSE "SOME"
           check == range = "SOME"
           bump  == over \/ under
           u     == InsertAll(p2, seqs, type, check, bump, t)
           N(i)  == Numbered(seqs, bump, i)
<1>1. r = IF range = "ALL" THEN p2 ELSE BurstCheck(u)
  BY DEF InsertPackets
<1>2. /\ SeqSpace \in Nat /\ Half \in Nat /\ 2 * Half <= SeqSpace
      /\ RingSize \in Nat /\ 2 * RingSize <= Half
  BY RoomFacts DEF Half
<1>3. PcmType(p) /\ DOMAIN p = PcmFields
  BY DEF Views, PcmType
<1>4. NumPaks(p) = 0 <=> DOMAIN p.paks = {}
  BY <1>3, NumPaksZero
<1>5. PcmType(p1) /\ DOMAIN p1 = PcmFields /\ PcmType(p2)
      /\ DOMAIN p2 = PcmFields /\ Views(r)
  <2>1. PcmType(p1)
    BY <1>3, ResetType
  <2> HIDE DEF p1
  <2>2. PcmType(p2)
    BY <2>1, ResetType
  <2>3. Views(InsertPackets(p, seqs, type, contig, t))
    BY InsertPacketsViews DEF Close
  <2> QED
    BY <2>1, <2>2, <2>3 DEF PcmType
<1>6. /\ bump => DOMAIN p2.paks = {} /\ ~p2.lastValid
      /\ ~bump => p2 = p
      /\ p2.rcc = p.rcc /\ p2.underrunDis = p.underrunDis
  <2>1. /\ Flush(p).paks = <<>> /\ ~Flush(p).lastValid
        /\ Flush(p).rcc = p.rcc /\ Flush(p).underrunDis = p.underrunDis
    BY <1>3 DEF Flush, OutpReset, PcmFields
  <2>2. \A q : DOMAIN q = PcmFields =>
          LET o == OutpReset(q, FALSE)
          IN  /\ ~o.lastValid /\ o.paks = q.paks
              /\ o.rcc = q.rcc /\ o.underrunDis = q.underrunDis
    BY DEF OutpReset, PcmFields
  <2>3. /\ over => DOMAIN p1.paks = {} /\ ~p1.lastValid
        /\ ~over => p1 = p
        /\ p1.rcc = p.rcc /\ p1.underrunDis = p.underrunDis
    BY <2>1
  <2> HIDE DEF p1, over
  <2>4. /\ under => /\ ~p2.lastValid /\ p2.paks = p1.paks
                    /\ p2.rcc = p1.rcc /\ p2.underrunDis = p1.underrunDis
        /\ ~under => p2 = p1
    BY <1>5, <2>2
  <2>5. under => DOMAIN p.paks = {}
    BY <1>4
  <2> HIDE DEF p2, under
  <2> QED
    BY <2>3, <2>4, <2>5
<1>7. DOMAIN p.paks = {} => bump
  <2> SUFFICES ASSUME DOMAIN p.paks = {}, ~over
               PROVE  under
    OBVIOUS
  <2>1. p1 = p /\ p.lastValid
    BY DEF Ordered
  <2> QED
    BY <1>4, <2>1
<1>n. /\ bump => N(1) = BumpSeq(seqs[1])
      /\ ~bump => \A i : N(i) = seqs[i]
  BY Zenon DEF Numbered
<1> HIDE DEF over, p1, under, p2, bump
<1>a. PcmType(u) /\ AllAdded(u, p2, seqs, check, bump)
  <2> HIDE DEF check
  <2> QED
    BY <1>5, InsertAllType, InsertAllAdds
<1>8. PcmType(u) /\ SameOutput(u, p2) /\ DOMAIN p2.paks \subseteq DOMAIN u.paks
  BY <1>a, Zenon DEF AllAdded
<1>b. \A s \in DOMAIN u.paks \ DOMAIN p2.paks :
         /\ \E i \in 1 .. Len(seqs) : s = N(i)
         /\ range = "SOME" /\ DOMAIN p2.paks # {} /\ p2.lastValid
              => ~SeqLe(s, p2.lastPak)
  BY <1>a, Zenon DEF AllAdded
<1>c. DOMAIN p2.paks = {} => N(1) \in DOMAIN u.paks
  BY <1>a, Zenon DEF AllAdded
<1>9. SameOutput(BurstCheck(u), u) /\ BurstCheck(u).paks = u.paks
  <2>1. DOMAIN u = PcmFields
    BY <1>8 DEF PcmType
  <2> HIDE DEF u
  <2> QED
    BY <2>1 DEF BurstCheck, SameOutput, PcmFields
<1>10. PcmType(r) /\ \A x \in DOMAIN r.paks : x \in SeqNumber
  BY <1>5 DEF Views, PcmType
<1> HIDE DEF N
\* All packets lie within a ring of any one of them.
<1>11. ASSUME NEW c \in DOMAIN r.paks, NEW y \in DOMAIN r.paks,
              SeqDist(l, c) <= Half - RingSize
       PROVE  /\ SeqDist(l, y) < Half \/ SeqDist(l, y) > SeqSpace - RingSize
              /\ RingSize <= SeqDist(l, c)
                   => 0 < SeqDist(l, y) /\ SeqDist(l, y) < Half
  <2> DEFINE h == r.head
  <2>1. /\ h \in SeqNumber /\ r.tail \in SeqNumber
        /\ c \in SeqNumber /\ y \in SeqNumber
        /\ SeqDist(h, r.tail) < RingSize
        /\ SeqDist(h, c) <= SeqDist(h, r.tail)
        /\ SeqDist(h, y) <= SeqDist(h, r.tail)
    BY <1>5, <1>10 DEF Views, Ends, Close, PcmType
  <2> HIDE DEF h
  <2>2. SeqDist(h, c) < RingSize /\ SeqDist(h, y) < RingSize
    <3>1. SeqDist(h, c) \in Nat /\ SeqDist(h, y) \in Nat /\ SeqDist(h, r.tail) \in Nat
      BY <2>1, DistNat
    <3> QED
      BY <1>2, <2>1, <3>1
  <2> QED
    BY <1>11, <2>1, <2>2, NearDist
<1>12. CASE bump
  <2>1. range # "ALL"
    <3>1. NumPaks(p2) = 0
      BY <1>5, <1>6, <1>12, NumPaksZero
    <3> QED
      BY <3>1 DEF CheckRange
  <2> DEFINE c == BumpSeq(seqs[1])
  <2>2. /\ r.paks = u.paks /\ SameOutput(r, p2) /\ ~r.lastValid
        /\ c \in DOMAIN r.paks
    <3>1. r = BurstCheck(u)
      BY <1>1, <2>1
    <3> HIDE DEF u, check, range
    <3>2. N(1) = c
      BY <1>12, <1>n
    <3>3. r.paks = u.paks /\ SameOutput(r, u)
      BY <1>9, <3>1
    <3>4. DOMAIN p2.paks = {} /\ ~p2.lastValid
      BY <1>6, <1>12
    <3>5. SameOutput(u, p2) /\ N(1) \in DOMAIN u.paks
      BY <1>8, <1>c, <3>4
    <3> QED
      BY <3>2, <3>3, <3>4, <3>5 DEF SameOutput
  <2> HIDE DEF c, u
  <2>3. RingSize <= SeqDist(l, c) /\ SeqDist(l, c) <= Half - RingSize
    BY DEF c
  <2>4. After(l, DOMAIN r.paks)
    BY <1>11, <2>2, <2>3 DEF After
  <2> QED
    BY <1>6, <2>2, <2>3, <2>4 DEF Ordered, SameOutput
<1>13. CASE ~bump /\ range = "ALL"
  BY <1>1, <1>6, <1>13
<1>14. CASE ~bump /\ range # "ALL"
  <2>1. p2 = p /\ DOMAIN p.paks # {}
    BY <1>6, <1>7, <1>14
  <2>2. /\ r.paks = u.paks /\ SameOutput(r, p)
        /\ DOMAIN p.paks \subseteq DOMAIN r.paks
        /\ \A s \in DOMAIN r.paks \ DOMAIN p.paks :
              /\ \E i \in 1 .. Len(seqs) : s = seqs[i]
              /\ check /\ p.lastValid => ~SeqLe(s, p.lastPak)
    <3>1. r = BurstCheck(u)
      BY <1>1, <1>14
    <3> HIDE DEF u, range
    <3>2. r.paks = u.paks /\ SameOutput(r, u)
      BY <1>9, <3>1
    <3>3. /\ SameOutput(u, p) /\ DOMAIN p.paks \subseteq DOMAIN u.paks
          /\ \A s \in DOMAIN u.paks \ DOMAIN p.paks :
                /\ \E i \in 1 .. Len(seqs) : s = N(i)
                /\ check /\ p.lastValid => ~SeqLe(s, p.lastPak)
      <4>1. SameOutput(u, p) /\ DOMAIN p.paks \subseteq DOMAIN u.paks
        BY <1>8, <2>1
      <4>2. ASSUME NEW s \in DOMAIN u.paks \ DOMAIN p.paks
            PROVE  /\ \E i \in 1 .. Len(seqs) : s = N(i)
                   /\ range = "SOME" /\ p.lastValid
                        => ~SeqLe(s, p.lastPak)
        BY <1>b, <2>1, <4>2
      <4> QED
        BY <4>1, <4>2
    <3>4. \A i : N(i) = seqs[i]
      BY <1>14, <1>n
    <3> QED
      BY <3>2, <3>3, <3>4 DEF SameOutput
  <2>3. PICK c \in DOMAIN p.paks :
           /\ SeqDist(l, c) <= Half - RingSize
           /\ ~p.lastValid => RingSize <= SeqDist(l, c)
    BY <2>1 DEF Ordered
  <2>4. c \in DOMAIN r.paks
    BY <2>2
  <2>5. ASSUME NEW s \in DOMAIN r.paks
        PROVE  0 < SeqDist(l, s) /\ SeqDist(l, s) < Half
    <3>1. CASE ~p.lastValid
      BY <1>11, <2>3, <2>4, <3>1
    <3>2. CASE s \in DOMAIN p.paks
      BY <3>2 DEF Ordered, After
    <3>3. CASE p.lastValid /\ s \notin DOMAIN p.paks
      <4>1. l = p.lastPak
        BY <3>3 DEF Ordered
      <4>2. s \in SeqNumber /\ SeqDist(l, s) \in Nat
        BY <1>10, DistNat
      <4>3. SeqDist(l, s) < Half \/ SeqDist(l, s) > SeqSpace - RingSize
        BY <1>11, <2>3, <2>4
      <4>4. 0 < SeqDist(l, s) /\ SeqDist(l, s) < SeqSpace - RingSize
        <5>1. CASE range = "SOME"
          <6>1. ~SeqLe(s, l)
            BY <2>2, <3>3, <4>1, <5>1
          <6>2. s # l /\ ~(SeqDist(l, s) >= Half)
            BY <6>1 DEF SeqLe, SeqLt, Half
          <6>3. SeqDist(l, s) # 0
            <7>1. \A z \in SeqNumber : SeqDist(z, z) = 0
              BY DistSelf
            <7>2. SeqDist(l, s) # SeqDist(l, l)
              BY <4>2, <6>2, DistEqual
            <7> QED
              BY <7>1, <7>2
          <6> QED
            BY <1>2, <4>2, <6>2, <6>3
        <5>2. CASE range # "SOME"
          <6>1. contig /\ Contiguous(seqs)
            BY <5>2
          <6>2. CheckRange(p, seqs[1], seqs[Len(seqs)]) = "OK"
            BY <1>14, <2>1, <5>2 DEF CheckRange
          <6>3. NumPaks(p) # 0
            BY <1>4, <2>1
          <6>4. ~SeqLe(seqs[1], l)
            BY <3>3, <4>1, <6>2, <6>3 DEF CheckRange
          <6>5. PICK i \in 1 .. Len(seqs) : s = seqs[i]
            BY <2>2, <3>3
          <6> QED
            BY <6>1, <6>4, <6>5, ContiguousAfter
        <5> QED
          BY <5>1, <5>2
      <4> QED
        BY <1>2, <4>2, <4>3, <4>4
    <3> QED
      BY <3>1, <3>2, <3>3
  <2>6. After(l, DOMAIN r.paks)
    BY <2>5 DEF After
  <2> HIDE DEF u, check, range
  <2> QED
    BY <2>1, <2>2, <2>3, <2>4, <2>6 DEF Ordered, SameOutput
<1> QED
  BY <1>12, <1>13, <1>14

\* What comes of the flags of the output, whatever the packets are.
LEMMA InsertPacketsFlags ==
    ASSUME NEW p, PcmType(p), NEW seqs \in Seq(SeqNumber),
           NEW type, type \in PakTypes, NEW contig, NEW t \in Times
    PROVE  LET r == InsertPackets(p, seqs, type, contig, t)
           IN  /\ r.rcc = p.rcc /\ r.underrunDis = p.underrunDis
               /\ r.lastValid => p.lastValid
<1> DEFINE over  == NumPaks(p) + Len(seqs) >= RingSize
           p1    == IF over THEN Flush(p) ELSE p
           under == NumPaks(p) = 0 /\ p1.lastValid /\ ~p.underrunDis
           p2    == IF under THEN OutpReset(p1, FALSE) ELSE p1
           range == IF contig THEN CheckRange(p2, seqs[1], seqs[Len(seqs)])
                    ELSE "SOME"
           check == range = "SOME"
           bump  == over \/ under
           u     == InsertAll(p2, seqs, type, check, bump, t)
           r     == InsertPackets(p, seqs, type, contig, t)
           Same(x, y) == /\ x.rcc = y.rcc /\ x.underrunDis = y.underrunDis
                         /\ x.lastValid => y.lastValid
<1>1. r = IF range = "ALL" THEN p2 ELSE BurstCheck(u)
  BY DEF InsertPackets
<1>2. PcmType(p1) /\ Same(p1, p)
  <2>1. DOMAIN p = PcmFields
    BY DEF PcmType
  <2>2. Same(Flush(p), p) /\ PcmType(Flush(p))
    BY <2>1, ResetType DEF Flush, OutpReset, PcmFields
  <2>3. Same(p, p)
    OBVIOUS
  <2> QED
    BY <2>2, <2>3
<1>3. PcmType(p2) /\ Same(p2, p1)
  <2>1. DOMAIN p1 = PcmFields
    BY <1>2 DEF PcmType
  <2> HIDE DEF p1
  <2>2. Same(OutpReset(p1, FALSE), p1) /\ PcmType(OutpReset(p1, FALSE))
    BY <1>2, <2>1, ResetType DEF OutpReset, PcmFields
  <2>3. Same(p1, p1)
    OBVIOUS
  <2> QED
    BY <1>2, <2>2, <2>3
<1> HIDE DEF p1, under, over, p2
<1>4. PcmType(u) /\ SameOutput(u, p2)
  <2> HIDE DEF check, bump
  <2> QED
    BY <1>3, InsertAllType, InsertAllAdds DEF AllAdded
<1> HIDE DEF u, check, range
<1>5. Same(BurstCheck(u), u)
  <2>1. DOMAIN u = PcmFields
    BY <1>4 DEF PcmType
  <2> QED
    BY <2>1 DEF BurstCheck, PcmFields
<1>6. Same(BurstCheck(u), p) /\ Same(p2, p)
  <2>1. Same(u, p2)
    BY <1>4 DEF SameOutput
  <2> QED
    BY <1>2, <1>3, <1>5, <2>1
<1>7. Same(r, p)
  <2> HIDE DEF Same, r
  <2> QED
    BY <1>1, <1>6
<1> QED
  BY <1>7 DEF r

\* A vector is numbered from the packet received before.
LEMMA NumberPaksFirst ==
    ASSUME NEW last \in SeqNumber, NEW v \in Seq(RtpNumber), v # <<>>
    PROVE  NumberPaks(last, v)[1] = NearestToRtp(last, v[1])
<1> DEFINE x == NearestToRtp(last, v[1])
<1>1. PICK f : /\ f[0] = <<>>
               /\ \A i \in 1 .. Len(v) :
                    f[i] = Append(f[i - 1],
                                  NearestToRtp(IF f[i - 1] = <<>> THEN last
                                               ELSE Last(f[i - 1]), v[i]))
               /\ f[Len(v)] = NumberPaks(last, v)
  BY NumberPaksFold
<1> DEFINE A == {i \in 0 .. Len(v) :
                   i > 0 => /\ f[i] \in Seq(SeqNumber) /\ Len(f[i]) > 0
                            /\ f[i][1] = x}
<1>2. Len(v) \in Nat /\ Len(v) > 0 /\ 0 \in A
  BY EmptySeq
<1>3. ASSUME NEW k \in 0 .. Len(v) - 1, k \in A
      PROVE  k + 1 \in A
  <2>1. k + 1 \in 1 .. Len(v) /\ (k + 1) - 1 = k /\ k \in Nat
    BY <1>2
  <2> DEFINE before == IF f[k] = <<>> THEN last ELSE Last(f[k])
             new == NearestToRtp(before, v[k + 1])
  <2>2. f[k + 1] = Append(f[k], new)
    BY <1>1, <2>1
  <2>3. v[k + 1] \in RtpNumber
    BY <2>1, ElementOfSeq
  <2>4. CASE k = 0
    <3>1. f[k] = <<>> /\ new = x /\ k + 1 = 1
      <4>1. k + 1 = 1
        BY <2>4
      <4>2. f[k] = <<>>
        BY <1>1, <2>4, Zenon
      <4>3. before = last
        BY <4>2
      <4> HIDE DEF before
      <4> QED
        BY <4>1, <4>2, <4>3
    <3>2. x \in SeqNumber
      BY <2>3, <2>4, NearestType
    <3> HIDE DEF x, new
    <3>3. f[k + 1] = <<x>>
      BY <2>2, <3>1
    <3>4. <<x>> \in Seq(SeqNumber) /\ Len(<<x>>) = 1 /\ <<x>>[1] = x
      BY <3>2
    <3>5. f[k + 1] \in Seq(SeqNumber) /\ Len(f[k + 1]) > 0 /\ f[k + 1][1] = x
      BY <3>3, <3>4
    <3> QED
      BY <2>1, <3>5
  <2>5. CASE k # 0
    <3>1. f[k] \in Seq(SeqNumber) /\ Len(f[k]) > 0 /\ f[k][1] = x
      BY <1>3, <2>1, <2>5
    <3>2. before \in SeqNumber
      <4>1. Len(f[k]) \in 1 .. Len(f[k]) /\ f[k] # <<>>
        BY <3>1
      <4> QED
        BY <3>1, <4>1, ElementOfSeq DEF Last
    <3> HIDE DEF before
    <3>3. new \in SeqNumber
      BY <2>3, <3>2, NearestType
    <3> HIDE DEF x, new
    <3>4. /\ f[k + 1] \in Seq(SeqNumber) /\ Len(f[k + 1]) > 0
          /\ f[k + 1][1] = f[k][1]
      BY <2>2, <3>1, <3>3
    <3> QED
      BY <2>1, <3>1, <3>4
  <2> QED
    BY <2>4, <2>5
<1> HIDE DEF A
<1>4. Len(v) \in A
  BY <1>2, <1>3, BoundedInduction
<1>5. NumberPaks(last, v)[1] = x
  BY <1>1, <1>2, <1>4 DEF A
<1> QED
  BY <1>5

LEMMA DistAfter ==
    ASSUME NEW x \in SeqNumber, NEW y \in SeqNumber, NEW z \in SeqNumber,
           SeqDist(x, y) <= SeqDist(x, z)
    PROVE  SeqDist(y, z) = SeqDist(x, z) - SeqDist(x, y)
<1>1. /\ SeqSpace \in Nat
      /\ x \in Int /\ 0 <= x /\ x < SeqSpace
      /\ y \in Int /\ 0 <= y /\ y < SeqSpace
      /\ z \in Int /\ 0 <= z /\ z < SeqSpace
  BY RoomFacts DEF SeqNumber
<1> QED
  BY <1>1, DistValue

\* The packet received next has a number that is neither near the last one
\* handed on nor half the space after it, once the numbers start anew.
LEMMA NumberedNear ==
    ASSUME NEW l \in SeqNumber, NEW x \in SeqNumber, NEW r \in RtpNumber,
           SeqDist(SeqAdd(l, -(2 * RtpMod)), x) < Half - 2 * RtpMod
    PROVE  LET s == BumpSeq(NearestToRtp(x, r))
           IN  RingSize <= SeqDist(l, s) /\ SeqDist(l, s) <= Half - RingSize
<1> DEFINE d == (r - x) % RtpMod
           m == IF d >= RtpMod \div 2 THEN d - RtpMod ELSE d
           a == SeqAdd(l, -(2 * RtpMod))
           y == NearestToRtp(x, r)
           s == BumpSeq(y)
           H == RtpMod \div 2
<1>1. /\ SeqSpace \in Nat /\ RtpMod \in Nat /\ RtpMod > 0
      /\ H \in Nat /\ RtpMod = 2 * H /\ Half \in Nat /\ 2 * Half <= SeqSpace
      /\ RingSize \in Nat /\ RingSize <= H /\ 8 * RtpMod <= SeqSpace
      /\ 2 * RtpMod < SeqSpace /\ 3 * RtpMod < SeqSpace
  <2>1. /\ SeqSpace \in Nat /\ RtpMod \in Nat /\ RtpMod > 0 /\ RtpMod % 2 = 0
        /\ 8 * RtpMod <= SeqSpace /\ RingSize \in Nat /\ 2 * RingSize <= RtpMod
    <3>1. 2 * RingSize <= RtpMod
      BY PcmAssumption
    <3> QED
      BY <3>1, SeqNumAssumption, RoomFacts
  <2> QED
    BY <2>1 DEF Half
<1>2. x \in Int /\ r \in Int /\ d \in 0 .. RtpMod - 1
  <2>1. x \in Int /\ r \in Int
    BY SeqTypes DEF RtpNumber
  <2> QED
    BY <1>1, <2>1
<1>3. y = SeqAdd(x, m)
  BY DEF NearestToRtp
<1> HIDE DEF d
<1>4. m \in Int /\ -H <= m /\ m < H
  BY <1>1, <1>2
<1> HIDE DEF m, H
<1>5. y \in SeqNumber /\ s \in SeqNumber /\ SeqDist(y, s) = 3 * RtpMod
  <2>1. y \in SeqNumber
    BY NearestType
  <2> HIDE DEF y
  <2> QED
    BY <1>1, <2>1, AddDist DEF BumpSeq
<1>6. a \in SeqNumber /\ SeqDist(a, l) = 2 * RtpMod /\ SeqDist(a, x) \in Nat
      /\ SeqDist(a, x) < Half - 2 * RtpMod
  <2>1. a \in SeqNumber /\ SeqDist(a, l) = 2 * RtpMod
    BY <1>1, AddDist
  <2> HIDE DEF a
  <2> QED
    BY <2>1, DistNat DEF a
<1> HIDE DEF a, s
<1>7. SeqDist(x, s) = m + 3 * RtpMod
  <2>1. CASE m >= 0
    <3>1. SeqDist(x, y) = m
      BY <1>1, <1>3, <1>4, <2>1, AddDist
    <3> HIDE DEF y
    <3>2. SeqDist(x, y) + SeqDist(y, s) < SeqSpace
      BY <1>1, <1>4, <1>5, <3>1
    <3> QED
      BY <1>5, <3>1, <3>2, DistSum
  <2>2. CASE m < 0
    <3> DEFINE n == -m
    <3>1. n \in Nat /\ n < SeqSpace /\ m = -n
      BY <1>1, <1>4, <2>2
    <3> HIDE DEF n
    <3>2. SeqDist(y, x) = n
      BY <1>3, <3>1, AddDist
    <3> HIDE DEF y
    <3>3. SeqDist(y, x) <= SeqDist(y, s)
      BY <1>1, <1>4, <1>5, <3>1, <3>2
    <3>4. SeqDist(x, s) = SeqDist(y, s) - SeqDist(y, x)
      BY <1>5, <3>3, DistAfter
    <3> QED
      BY <1>1, <1>4, <1>5, <3>1, <3>2, <3>4
  <2> QED
    BY <1>4, <2>1, <2>2
<1> HIDE DEF y
<1>8. SeqDist(a, s) = SeqDist(a, x) + SeqDist(x, s)
  <2>1. SeqDist(a, x) + SeqDist(x, s) < SeqSpace
    BY <1>1, <1>4, <1>6, <1>7
  <2> QED
    BY <1>5, <1>6, <2>1, DistSum
<1>9. SeqDist(a, l) <= SeqDist(a, s)
  BY <1>1, <1>4, <1>6, <1>7, <1>8
<1>10. SeqDist(l, s) = SeqDist(a, s) - SeqDist(a, l)
  BY <1>5, <1>6, <1>9, DistAfter
<1>11. RingSize <= SeqDist(l, s) /\ SeqDist(l, s) <= Half - RingSize
  BY <1>1, <1>4, <1>6, <1>7, <1>8, <1>10
<1> QED
  BY <1>11 DEF s, y

\* What passes of the scheduler do: nothing to the order, or hand packets on.
Kept(q, p) == SameOutput(q, p) /\ DOMAIN q.paks = DOMAIN p.paks

Moved(q, p) ==
    /\ q.rcc = p.rcc /\ q.underrunDis = p.underrunDis
    /\ q.lastValid /\ q.lastPak \in DOMAIN p.paks
    /\ DOMAIN q.paks \subseteq DOMAIN p.paks
    /\ Ordered(q, q.lastPak)

LEMMA PassMoves ==
    ASSUME NEW p, Views(p), Close(p), NEW t \in Times
    PROVE  Kept(Pass(p, t), p) \/ Moved(Pass(p, t), p)
<1> DEFINE ring == [p.paks EXCEPT ![p.head].ts = t]
           h == HeadNotInFuture(p, t)
           q == [h EXCEPT !.pend = None]
           r == RemoveHead(q)
           aborted == r.postAbort /\ ~(q.primRcvd /\ SeqLe(q.firstPrim, q.head))
           u == [r EXCEPT !.pend = q.head, !.lastPak = q.head,
                          !.lastValid = TRUE, !.postAbort = aborted]
           w == Pass(p, t)
<1>1. DOMAIN p = PcmFields /\ PcmType(p)
  BY DEF Views, PcmType
<1>2. DOMAIN h = PcmFields /\ Kept(h, p) /\ h.head = p.head
  <2>1. CASE ~(DOMAIN p.paks # {} /\ p.paks[p.head].ts > t)
    BY <1>1, <2>1 DEF HeadNotInFuture, Kept, SameOutput
  <2>2. CASE DOMAIN p.paks # {} /\ p.paks[p.head].ts > t
    <3>1. h = [p EXCEPT !.paks = ring]
      BY <2>2 DEF HeadNotInFuture
    <3>2. DOMAIN ring = DOMAIN p.paks
      OBVIOUS
    <3> HIDE DEF ring, h
    <3> QED
      BY <1>1, <3>1, <3>2 DEF Kept, SameOutput, PcmFields
  <2> QED
    BY <2>1, <2>2
<1>3. w = IF Ready(q, t) THEN u ELSE q
  BY DEF Pass
<1> HIDE DEF h, w
<1>4. DOMAIN q = PcmFields /\ Kept(q, p) /\ q.head = p.head
  BY <1>2 DEF Kept, SameOutput, PcmFields
<1> HIDE DEF q
<1>5. CASE ~Ready(q, t)
  BY <1>3, <1>4, <1>5 DEF w
<1>6. CASE Ready(q, t)
  <2>1. DOMAIN p.paks # {}
    BY <1>4, <1>6 DEF Ready, Kept
  <2>2. /\ r.rcc = q.rcc /\ r.underrunDis = q.underrunDis
        /\ DOMAIN r.paks = DOMAIN q.paks \ {q.head} /\ DOMAIN r = PcmFields
    BY <1>4 DEF RemoveHead, PcmFields
  <2> HIDE DEF r, aborted
  <2>3. /\ w.rcc = p.rcc /\ w.underrunDis = p.underrunDis
        /\ w.lastValid /\ w.lastPak = p.head
        /\ DOMAIN w.paks = DOMAIN p.paks \ {p.head}
    BY <1>3, <1>4, <1>6, <2>2 DEF Kept, SameOutput, PcmFields
  <2>4. /\ p.head \in DOMAIN p.paks /\ p.head \in SeqNumber
        /\ \A x \in DOMAIN p.paks \ {p.head} :
              0 < SeqDist(p.head, x) /\ SeqDist(p.head, x) <= Half - RingSize
    <3> DEFINE g == p.head
    <3>1. /\ g \in DOMAIN p.paks /\ DOMAIN p.paks \subseteq SeqNumber
          /\ p.tail \in DOMAIN p.paks
          /\ SeqDist(g, p.tail) < RingSize
          /\ \A x \in DOMAIN p.paks : SeqDist(g, x) <= SeqDist(g, p.tail)
      BY <2>1 DEF Views, PcmType, Ends, Close
    <3>2. /\ Half \in Nat /\ RingSize \in Nat /\ 2 * RingSize <= Half
      BY RoomFacts DEF Half
    <3> HIDE DEF g
    <3>3. ASSUME NEW x \in DOMAIN p.paks \ {g}
          PROVE  0 < SeqDist(g, x) /\ SeqDist(g, x) <= Half - RingSize
      <4>1. x \in SeqNumber /\ g \in SeqNumber /\ p.tail \in SeqNumber
        BY <3>1
      <4>2. SeqDist(g, x) \in Nat /\ SeqDist(g, p.tail) \in Nat
        BY <4>1, DistNat
      <4>3. SeqDist(g, x) # 0
        <5>1. \A z \in SeqNumber : SeqDist(z, z) = 0
          BY DistSelf
        <5>2. SeqDist(g, x) # SeqDist(g, g)
          BY <3>3, <4>1, DistEqual
        <5> QED
          BY <4>1, <5>1, <5>2
      <4>4. SeqDist(g, x) <= SeqDist(g, p.tail) /\ SeqDist(g, p.tail) < RingSize
        BY <3>1
      <4> QED
        BY <3>2, <4>2, <4>3, <4>4
    <3> QED
      BY <3>1, <3>3 DEF g
  <2>5. Ordered(w, w.lastPak)
    <3>1. After(p.head, DOMAIN w.paks)
      <4>1. ASSUME NEW x \in DOMAIN w.paks
            PROVE  0 < SeqDist(p.head, x) /\ SeqDist(p.head, x) < Half
        <5>1. x \in DOMAIN p.paks \ {p.head} /\ x \in SeqNumber
          BY <2>3 DEF Views, PcmType
        <5>2. SeqDist(p.head, x) \in Nat
          BY <2>4, <5>1, DistNat
        <5>3. Half \in Nat /\ RingSize \in Nat /\ RingSize > 0
          BY RoomFacts DEF Half
        <5>4. 0 < SeqDist(p.head, x) /\ SeqDist(p.head, x) <= Half - RingSize
          BY <2>4, <5>1
        <5> QED
          BY <5>2, <5>3, <5>4
      <4> QED
        BY <4>1 DEF After
    <3>2. \A x \in DOMAIN w.paks : SeqDist(p.head, x) <= Half - RingSize
      BY <2>3, <2>4
    <3> QED
      BY <2>3, <3>1, <3>2 DEF Ordered
  <2>6. Moved(w, p)
    BY <2>3, <2>4, <2>5 DEF Moved
  <2> QED
    BY <2>6 DEF w
<1> QED
  BY <1>5, <1>6

LEMMA PassesMove ==
    ASSUME NEW p, Views(p), Close(p), NEW n \in Nat, NEW t \in Times
    PROVE  Kept(Passes(p, n, t), p) \/ Moved(Passes(p, n, t), p)
<1>1. PICK f : /\ f[0] = p
               /\ \A i \in 1 .. n : f[i] = Pass(f[i - 1], t)
               /\ f[n] = Passes(p, n, t)
  BY PassesFold
<1> DEFINE In(i) == /\ Views(f[i]) /\ Close(f[i])
                    /\ Kept(f[i], p) \/ Moved(f[i], p)
           A == {i \in 0 .. n : In(i)}
<1>2. 0 \in A
  <2>1. Kept(p, p)
    BY DEF Kept, SameOutput
  <2>2. In(0)
    BY <1>1, <2>1
  <2> QED
    BY <2>2
<1>3. ASSUME NEW k \in 0 .. n - 1, k \in A
      PROVE  k + 1 \in A
  <2> DEFINE q == f[k]
             r == f[k + 1]
  <2>1. k + 1 \in 1 .. n /\ (k + 1) - 1 = k
    OBVIOUS
  <2>2. /\ r = Pass(q, t) /\ Views(q) /\ Close(q)
        /\ Kept(q, p) \/ Moved(q, p)
    BY <1>1, <1>3, <2>1
  <2> HIDE DEF q, r
  <2>3. Views(r) /\ Close(r) /\ (Kept(r, q) \/ Moved(r, q))
    <3>1. Views(Pass(q, t)) /\ Close(Pass(q, t))
      BY <2>2, PassViews
    <3>2. Kept(Pass(q, t), q) \/ Moved(Pass(q, t), q)
      BY <2>2, PassMoves
    <3> QED
      BY <2>2, <3>1, <3>2
  <2>4. Kept(r, p) \/ Moved(r, p)
    <3>1. CASE Moved(r, q)
      <4>1. /\ q.rcc = p.rcc /\ q.underrunDis = p.underrunDis
            /\ DOMAIN q.paks \subseteq DOMAIN p.paks
        BY <2>2 DEF Kept, Moved, SameOutput
      <4>2. Moved(r, p)
        BY <3>1, <4>1 DEF Moved
      <4> QED
        BY <4>2
    <3>2. CASE Kept(r, q) /\ Kept(q, p)
      BY <3>2 DEF Kept, SameOutput
    <3>3. CASE Kept(r, q) /\ Moved(q, p)
      <4>1. Ordered(r, q.lastPak) /\ r.lastPak = q.lastPak
        BY <3>3, OrderedFrame DEF Kept, Moved, SameOutput
      <4>2. Moved(r, p)
        BY <3>3, <4>1 DEF Kept, Moved, SameOutput
      <4> QED
        BY <4>2
    <3> QED
      BY <2>2, <2>3, <3>1, <3>2, <3>3
  <2>5. In(k + 1)
    BY <2>3, <2>4 DEF r
  <2> HIDE DEF In
  <2> QED
    BY <2>1, <2>5
<1> HIDE DEF A
<1>4. n \in A
  BY <1>2, <1>3, BoundedInduction
<1> QED
  BY <1>1, <1>4 DEF A

\* The packet received last is numbered no more than two RTP generations
\* before the last one handed on, and not almost half the space after it.
RxNear ==
    ~pcm.rcc /\ lastOut # None
        => SeqDist(SeqAdd(lastOut, -(2 * RtpMod)), pcm.lastRx)
              < Half - 2 * RtpMod

\* Without a rapid channel change the packets come after the last one handed
\* on, which the scheduler remembers until the numbers start anew.
OutOrder ==
    /\ lastOut \in SeqNumber \cup {None}
    /\ ~pcm.rcc => /\ ~pcm.underrunDis
                   /\ pcm.lastValid => lastOut = pcm.lastPak
                   /\ lastOut # None => Ordered(pcm, lastOut)

\* The step of OutputIncreasing.
Increases ==
    ~pcm.rcc /\ lastOut # None /\ lastOut' # lastOut /\ lastOut' # None
        => SeqLt(lastOut, lastOut')

\* What a step has done that leaves the order alone.
LEMMA OutOrderFrame ==
    ASSUME OutOrder, DOMAIN pcm'.paks = DOMAIN pcm.paks, SameOutput(pcm', pcm),
           lastOut' = lastOut
    PROVE  OutOrder' /\ Increases
<1>1. lastOut # None => (Ordered(pcm, lastOut) => Ordered(pcm', lastOut))
  BY OrderedFrame
<1> QED
  BY <1>1 DEF OutOrder, Increases, SameOutput

\* Insertion into a cache that differs from pcm in the number received last.
LEMMA InsertOutOrder ==
    ASSUME PcmInv, OutOrder, WithinRing, WithinRing', lastOut' = lastOut,
           NEW p, Views(p), DOMAIN p.paks = DOMAIN pcm.paks,
           SameOutput(p, pcm), Close(p),
           NEW seqs \in Seq(SeqNumber), Len(seqs) > 0, Len(seqs) < RingSize,
           NEW type, type \in PakTypes, NEW contig, contig => Contiguous(seqs),
           pcm' = InsertPackets(p, seqs, type, contig, now),
           ~pcm.rcc /\ lastOut # None
             => /\ RingSize <= SeqDist(lastOut, BumpSeq(seqs[1]))
                /\ SeqDist(lastOut, BumpSeq(seqs[1])) <= Half - RingSize
    PROVE  OutOrder' /\ Increases
<1>1. PcmType(p) /\ now \in Times
  BY DEF Views, PcmInv
<1>2. Increases
  BY DEF Increases
<1>3. /\ pcm'.rcc = p.rcc /\ pcm'.underrunDis = p.underrunDis
      /\ pcm'.lastValid => p.lastValid
  BY <1>1, InsertPacketsFlags
<1>4. p.rcc = pcm.rcc /\ p.underrunDis = pcm.underrunDis
      /\ p.lastValid = pcm.lastValid /\ p.lastPak = pcm.lastPak
  BY DEF SameOutput
<1>5. lastOut' \in SeqNumber \cup {None}
  BY DEF OutOrder
<1>6. ASSUME ~pcm.rcc, lastOut # None
      PROVE  Ordered(pcm', lastOut)
  <2> DEFINE r == InsertPackets(p, seqs, type, contig, now)
  <2>1. lastOut \in SeqNumber /\ Ordered(pcm, lastOut) /\ ~p.underrunDis
    BY <1>4, <1>6 DEF OutOrder
  <2>2. Ordered(p, lastOut)
    BY <2>1, OrderedFrame
  <2>3. Close(r)
    BY DEF WithinRing
  <2>4. /\ RingSize <= SeqDist(lastOut, BumpSeq(seqs[1]))
        /\ SeqDist(lastOut, BumpSeq(seqs[1])) <= Half - RingSize
    BY <1>6
  <2> HIDE DEF r
  <2>5. r = InsertPackets(p, seqs, type, contig, now)
    BY DEF r
  <2>6. Ordered(r, lastOut)
    BY <1>1, <2>1, <2>2, <2>3, <2>4, <2>5, InsertPacketsOrder
  <2> QED
    BY <2>6 DEF r
<1>7. ASSUME ~pcm.rcc, pcm'.lastValid
      PROVE  lastOut = pcm'.lastPak
  <2>1. lastOut = pcm.lastPak /\ pcm.lastPak \in SeqNumber
    BY <1>3, <1>4, <1>7 DEF OutOrder, PcmInv, PcmType
  <2>2. lastOut # None
    BY <2>1, PcmAssumption
  <2> QED
    BY <1>6, <1>7, <2>2 DEF Ordered
<1> QED
  BY <1>2, <1>3, <1>4, <1>5, <1>6, <1>7 DEF OutOrder

LEMMA NextOutOrder ==
    ASSUME PcmInv, Views(pcm), OutOrder, WithinRing, WithinRing', RxNear, PcmNext
    PROVE  OutOrder' /\ Increases
<1>0. /\ PcmType(pcm) /\ DOMAIN pcm = PcmFields /\ now \in Times
      /\ Close(pcm) /\ pcm.lastRx \in SeqNumber
  BY DEF PcmInv, PcmType, WithinRing
<1>1. ASSUME NEW v \in Vectors, RxPrimary(v)
      PROVE  OutOrder' /\ Increases
  <2> DEFINE seqs == NumberPaks(pcm.lastRx, v)
             contig == \A i \in 2 .. Len(seqs) : seqs[i] = NextSeq(seqs[i - 1])
             p == [pcm EXCEPT !.lastRx = Last(seqs)]
  <2>1. v \in Seq(RtpNumber) /\ v # <<>> /\ Len(v) < RingSize
    BY PcmAssumption
  <2>2. /\ seqs \in Seq(SeqNumber) /\ Len(seqs) = Len(v)
        /\ seqs[1] = NearestToRtp(pcm.lastRx, v[1])
    BY <1>0, <2>1, NumberPaksType, NumberPaksFirst
  <2>3. pcm' = InsertPackets(p, seqs, "PRIMARY", contig, now)
        /\ lastOut' = lastOut
    BY <1>1 DEF RxPrimary
  <2>4. contig => Contiguous(seqs)
    BY DEF Contiguous
  <2> HIDE DEF seqs, contig
  <2>5. Len(seqs) > 0 /\ Len(seqs) < RingSize
    BY <2>1, <2>2, EmptySeq
  <2>6. Last(seqs) \in SeqNumber
    <3>1. Len(seqs) \in 1 .. Len(seqs)
      BY <2>2, <2>5
    <3> QED
      BY <2>2, <3>1, ElementOfSeq DEF Last
  <2>7. PcmType(p) /\ SameViews(p, pcm) /\ SameOutput(p, pcm)
    BY <1>0, <2>6 DEF PcmType, PcmFields, SameViews, SameOutput
  <2> HIDE DEF p
  <2>8. Views(p) /\ Close(p) /\ DOMAIN p.paks = DOMAIN pcm.paks
    BY <1>0, <2>7, ViewsFrame DEF Close, SameViews
  <2>9. v[1] \in RtpNumber
    <3>1. 1 \in 1 .. Len(v)
      BY <2>2, <2>5
    <3> QED
      BY <2>1, <3>1, ElementOfSeq
  <2>10. ~pcm.rcc /\ lastOut # None
           => /\ RingSize <= SeqDist(lastOut, BumpSeq(seqs[1]))
              /\ SeqDist(lastOut, BumpSeq(seqs[1])) <= Half - RingSize
    BY <1>0, <2>2, <2>9, NumberedNear DEF RxNear, OutOrder
  <2>11. "PRIMARY" \in PakTypes
    BY DEF PakTypes
  <2> QED
    BY <2>2, <2>3, <2>4, <2>5, <2>7, <2>8, <2>10, <2>11, InsertOutOrder
<1>2. ASSUME NEW rtp \in Repairs, RxRepair(rtp)
      PROVE  OutOrder' /\ Increases
  <2> DEFINE s == NearestToRtp(pcm.lastRx, rtp)
             p == [pcm EXCEPT !.lastRx = s]
  <2>1. s \in SeqNumber /\ rtp \in RtpNumber
    BY <1>0, NearestType, PcmAssumption
  <2>2. pcm' \in {p, InsertPackets(p, <<s>>, "REPAIR", TRUE, now)}
        /\ lastOut' = lastOut
    BY <1>2 DEF RxRepair
  <2>3. ~pcm.rcc /\ lastOut # None
           => /\ RingSize <= SeqDist(lastOut, BumpSeq(s))
              /\ SeqDist(lastOut, BumpSeq(s)) <= Half - RingSize
    BY <1>0, <2>1, NumberedNear DEF RxNear, OutOrder
  <2> HIDE DEF s
  <2>4. PcmType(p) /\ SameViews(p, pcm) /\ SameOutput(p, pcm)
    BY <1>0, <2>1 DEF PcmType, PcmFields, SameViews, SameOutput
  <2> HIDE DEF p
  <2>5. Views(p) /\ Close(p) /\ DOMAIN p.paks = DOMAIN pcm.paks
    BY <1>0, <2>4, ViewsFrame DEF Close, SameViews
  <2>6. CASE pcm' = p
    BY <2>2, <2>4, <2>5, <2>6, OutOrderFrame
  <2>7. CASE pcm' = InsertPackets(p, <<s>>, "REPAIR", TRUE, now)
    <3>1. "REPAIR" \in PakTypes
      BY DEF PakTypes
    <3> DEFINE one == <<s>>
    <3>2. /\ one \in Seq(SeqNumber) /\ Len(one) > 0 /\ Len(one) < RingSize
          /\ Contiguous(one) /\ one[1] = s
      <4>1. Len(one) = 1 /\ one \in Seq(SeqNumber) /\ one[1] = s
        BY <2>1
      <4>2. RingSize \in Nat /\ 1 < RingSize
        BY PcmAssumption
      <4> HIDE DEF one
      <4> QED
        BY <4>1, <4>2 DEF Contiguous
    <3>3. pcm' = InsertPackets(p, one, "REPAIR", TRUE, now)
      BY <2>7
    <3> HIDE DEF one
    <3> QED
      BY <2>2, <2>3, <2>4, <2>5, <3>1, <3>2, <3>3, InsertOutOrder
  <2> QED
    BY <2>2, <2>6, <2>7
<1>3. CASE OschedClockBack
  <2>1. lastOut' = None
    BY <1>3 DEF OschedClockBack
  <2>2. \A q \in {Flush(pcm), RccAbortPcm(pcm, TRUE)} :
           /\ q.rcc = pcm.rcc /\ q.underrunDis = pcm.underrunDis
           /\ ~q.lastValid
    BY <1>0 DEF RccAbortPcm, Flush, OutpReset, PcmFields
  <2>3. pcm' \in {Flush(pcm), RccAbortPcm(pcm, TRUE)}
    BY <1>3 DEF OschedClockBack
  <2>4. /\ pcm'.rcc = pcm.rcc /\ pcm'.underrunDis = pcm.underrunDis
        /\ ~pcm'.lastValid
    BY <2>2, <2>3
  <2> QED
    BY <2>1, <2>4 DEF OutOrder, Increases
<1>4. ASSUME NEW marked \in BOOLEAN, RccAbort(marked)
      PROVE  OutOrder' /\ Increases
  <2>1. lastOut' = lastOut /\ pcm.rcc /\ pcm'.rcc = pcm.rcc
    BY <1>0, <1>4 DEF RccAbort, RccAbortPcm, Flush, OutpReset, PcmFields
  <2> QED
    BY <2>1 DEF OutOrder, Increases
<1>5. ASSUME NEW n \in 0 .. MaxPasses, OschedRun(n)
      PROVE  OutOrder' /\ Increases
  <2> DEFINE p == IF pcm.checked THEN [pcm EXCEPT !.checked = FALSE]
                  ELSE TimeoutCandidates(pcm, now + 1)
  <2>1. /\ pcm' = Passes(p, n, now + 1) /\ now + 1 \in Times
        /\ lastOut' = IF pcm'.lastValid THEN pcm'.lastPak ELSE lastOut
    BY <1>0, <1>5, TimesType DEF OschedRun
  <2>2. PcmType(p) /\ SameViews(p, pcm) /\ SameOutput(p, pcm)
    <3>1. LET c == [pcm EXCEPT !.checked = FALSE]
          IN  PcmType(c) /\ SameViews(c, pcm) /\ SameOutput(c, pcm)
      BY <1>0 DEF PcmType, PcmFields, SameViews, SameOutput
    <3>2. LET c == TimeoutCandidates(pcm, now + 1)
          IN  PcmType(c) /\ SameViews(c, pcm) /\ SameOutput(c, pcm)
      BY <1>0, TimeoutType DEF TimeoutCandidates, PcmFields, SameViews, SameOutput
    <3> QED
      BY <3>1, <3>2
  <2> HIDE DEF p
  <2>3. Views(p) /\ Close(p) /\ DOMAIN p.paks = DOMAIN pcm.paks
    BY <1>0, <2>2, ViewsFrame DEF Close, SameViews
  <2>4. Kept(pcm', p) \/ Moved(pcm', p)
    <3>1. n \in Nat
      OBVIOUS
    <3> QED
      BY <2>1, <2>3, <3>1, PassesMove
  <2>5. CASE Kept(pcm', p)
    <3>1. DOMAIN pcm'.paks = DOMAIN pcm.paks /\ SameOutput(pcm', pcm)
      BY <2>2, <2>3, <2>5 DEF Kept, SameOutput
    <3>2. CASE pcm.rcc
      <4>1. lastOut' \in SeqNumber \cup {None} /\ pcm'.rcc
        BY <1>0, <2>1, <3>1, <3>2 DEF OutOrder, SameOutput, PcmType
      <4> QED
        BY <3>2, <4>1 DEF OutOrder, Increases
    <3>3. CASE ~pcm.rcc
      <4>1. lastOut' = lastOut
        BY <2>1, <3>1, <3>3 DEF OutOrder, SameOutput
      <4> QED
        BY <3>1, <4>1, OutOrderFrame
    <3> QED
      BY <3>2, <3>3
  <2>6. CASE Moved(pcm', p)
    <3> DEFINE x == pcm'.lastPak
    <3>1. /\ lastOut' = x /\ x \in DOMAIN pcm.paks /\ x \in SeqNumber
          /\ x # None
          /\ pcm'.rcc = pcm.rcc /\ pcm'.underrunDis = pcm.underrunDis
          /\ Ordered(pcm', x)
      <4>1. x \in DOMAIN pcm.paks /\ lastOut' = x
        BY <2>1, <2>3, <2>6 DEF Moved
      <4>2. x \in SeqNumber
        BY <1>0, <4>1 DEF PcmType
      <4>3. x # None
        BY <4>2, PcmAssumption
      <4>4. /\ pcm'.rcc = pcm.rcc /\ pcm'.underrunDis = pcm.underrunDis
            /\ Ordered(pcm', x)
        BY <2>2, <2>6 DEF Moved, SameOutput
      <4> QED
        BY <4>1, <4>2, <4>3, <4>4
    <3>2. OutOrder'
      BY <3>1 DEF OutOrder
    <3>3. ASSUME ~pcm.rcc, lastOut # None
          PROVE  SeqLt(lastOut, lastOut')
      <4>1. lastOut \in SeqNumber /\ Ordered(pcm, lastOut)
        BY <3>3 DEF OutOrder
      <4>2. 0 < SeqDist(lastOut, x) /\ SeqDist(lastOut, x) < Half
        BY <3>1, <4>1 DEF Ordered, After
      <4> HIDE DEF x
      <4> QED
        BY <3>1, <4>1, <4>2, BeforeIsLess
    <3> QED
      BY <3>2, <3>3 DEF Increases
  <2> QED
    BY <2>4, <2>5, <2>6
<1>6. CASE RccEnableEr
  <2>1. /\ lastOut' = lastOut /\ pcm.rcc
        /\ pcm'.rcc = pcm.rcc /\ pcm'.lastValid = pcm.lastValid
    BY <1>0, <1>6 DEF RccEnableEr, PcmFields
  <2> QED
    BY <2>1 DEF OutOrder, Increases
<1>7. CASE UpdateFecDelay
  <2> DEFINE p == [pcm EXCEPT !.hold = FecHoldTime]
  <2>1. SameViews(p, pcm) /\ SameOutput(p, pcm) /\ DOMAIN p = PcmFields
    BY <1>0 DEF SameViews, SameOutput, PcmFields
  <2>2. pcm' \in {p, TimeoutCandidates(p, Last(p.cands).ts)}
        /\ lastOut' = lastOut
    BY <1>7 DEF UpdateFecDelay
  <2> HIDE DEF p
  <2>3. \A t : /\ SameViews(TimeoutCandidates(p, t), p)
               /\ SameOutput(TimeoutCandidates(p, t), p)
    BY <2>1 DEF TimeoutCandidates, SameViews, SameOutput, PcmFields
  <2>4. SameViews(pcm', pcm) /\ SameOutput(pcm', pcm)
    BY <2>1, <2>2, <2>3 DEF SameViews, SameOutput
  <2>5. DOMAIN pcm'.paks = DOMAIN pcm.paks
    BY <2>4 DEF SameViews
  <2> QED
    BY <2>2, <2>4, <2>5, OutOrderFrame
<1>8. CASE FailoverSource
  <2>1. /\ DOMAIN pcm'.paks = DOMAIN pcm.paks /\ SameOutput(pcm', pcm)
        /\ lastOut' = lastOut
    BY <1>0, <1>8 DEF FailoverSource, SameOutput, PcmFields
  <2> QED
    BY <2>1, OutOrderFrame
<1>9. CASE ClockBack
  <2>1. pcm' = pcm /\ lastOut' = lastOut
    BY <1>9 DEF ClockBack
  <2> QED
    BY <2>1, OutOrderFrame DEF SameOutput
<1> QED
  BY <1>1, <1>2, <1>3, <1>4, <1>5, <1>6, <1>7, <1>8, <1>9 DEF PcmNext

\* Packets are handed on in the order of their numbers, over under-runs and
\* overflows, when no rapid channel change starts the channel, the packets of
\* the cache lie within a ring, and reception stays near the output.
THEOREM OutputInOrder ==
    PcmSpec /\ []WithinRing /\ []RxNear => OutputIncreasing
<1>1. PcmInit => PcmInv /\ Views(pcm) /\ OutOrder
  <2>1. PcmInit => OutOrder
    BY DEF PcmInit, OutOrder
  <2> QED
    BY <2>1, PcmInitType, PcmInitViews
<1>2. (PcmInv /\ Views(pcm) /\ OutOrder) /\ WithinRing /\ WithinRing' /\ RxNear
        /\ [PcmNext]_pcmVars
         => (PcmInv /\ Views(pcm) /\ OutOrder)' /\ [Increases]_pcmVars
  <2> SUFFICES ASSUME PcmInv, Views(pcm), OutOrder, WithinRing, WithinRing',
                      RxNear, [PcmNext]_pcmVars
               PROVE  /\ PcmInv' /\ Views(pcm)' /\ OutOrder'
                      /\ [Increases]_pcmVars
    OBVIOUS
  <2>1. PcmInv' /\ Views(pcm')
    BY PcmStutterViews
  <2>2. OutOrder' /\ [Increases]_pcmVars
    <3>1. CASE PcmNext
      BY <3>1, NextOutOrder
    <3>2. CASE UNCHANGED pcmVars
      BY <3>2 DEF OutOrder, Ordered, After, pcmVars
    <3> QED
      BY <3>1, <3>2
  <2> QED
    BY <2>1, <2>2
<1> QED
  BY <1>1, <1>2, PTL DEF PcmSpec, OutputIncreasing, Increases

-----------------------------------------------------------------------------
(***************************************************************************)
(* Gap reports.                                                            *)
(***************************************************************************)
LEMMA InternalTypes ==
    ASSUME NEW p, NEW a \in SeqNumber, NEW b \in SeqNumber
    PROVE  /\ GetGapsInternal(p, a, b).gaps \subseteq SeqNumber
           /\ GetGapsInternal(p, a, b).high \in SeqNumber
<1> DEFINE miss == {s \in SeqRange(a, b) : Slot(s) \notin p.gapmap}
           ends == {s \in miss : s # b /\ NextSeq(s) \notin miss}
           full == {e \in ends : Cardinality({x \in ends : SeqLe(x, e)})
                                     = GapBufMax}
           upto == {s \in miss : SeqLe(s, SeqMin(full))}
<1>1. GetGapsInternal(p, a, b) =
        IF full = {} THEN [gaps |-> miss, more |-> FALSE, high |-> b]
        ELSE [gaps |-> upto, more |-> TRUE, high |-> SeqMin(full)]
  BY DEF GetGapsInternal
<1>2. full \in SUBSET SeqRange(a, b) /\ miss \subseteq SeqRange(a, b)
      /\ upto \subseteq SeqRange(a, b)
  OBVIOUS
<1> HIDE DEF miss, full, upto
<1>3. SeqRange(a, b) \subseteq SeqNumber
  BY SeqRangeType
<1>4. full # {} => SeqMin(full) \in SeqNumber
  BY <1>2, <1>3, SeqMinType
<1> QED
  BY <1>1, <1>2, <1>3, <1>4

LEMMA GapsTypes ==
    ASSUME NEW p, PcmType(p), NEW t
    PROVE  /\ PcmType(GetGaps(p, t).pcm)
           /\ GetGaps(p, t).gaps \subseteq SeqNumber
<1> DEFINE tc == TimeoutCandidates(p, t)
           q == IF p.polled THEN p ELSE [tc EXCEPT !.polled = TRUE]
           g == GetGapsInternal(q, GapStart(q), q.highestEr)
           r == [q EXCEPT !.srcStart = None, !.lastReq = g.high]
<1>1. GetGaps(p, t) =
        IF DOMAIN p.paks = {} THEN [pcm |-> p, gaps |-> {}, more |-> FALSE]
        ELSE [pcm |-> r, gaps |-> g.gaps, more |-> g.more]
  BY DEF GetGaps
<1>2. PcmType(tc)
  BY TimeoutType
<1> HIDE DEF tc
<1>3. PcmType(q)
  BY <1>2 DEF PcmType, PcmFields
<1> HIDE DEF q
<1>4. GapStart(q) \in SeqNumber /\ q.highestEr \in SeqNumber
  BY <1>3, SeqTypes DEF GapStart, PcmType
<1>5. g.gaps \subseteq SeqNumber /\ g.high \in SeqNumber
  BY <1>4, InternalTypes
<1> HIDE DEF g
<1>6. PcmType(r)
  BY <1>3, <1>5 DEF PcmType, PcmFields
<1> HIDE DEF r
<1> QED
  BY <1>1, <1>5, <1>6

\* The gaps of all pages, by induction along the pages.
LEMMA PagesTypes ==
    ASSUME NEW p, PcmType(p), NEW t
    PROVE  /\ PcmType(Pages(p, t).pcm)
           /\ Pages(p, t).gaps \subseteq SeqNumber
<1>1. PICK f : /\ f[0] = [pcm |-> p, gaps |-> {}, more |-> TRUE]
               /\ \A i \in 1 .. RingSize : f[i] = NextPage(f[i - 1], t)
               /\ f[RingSize] = Pages(p, t)
  BY PagesFold
<1> DEFINE A == {i \in 0 .. RingSize :
                   PcmType(f[i].pcm) /\ f[i].gaps \subseteq SeqNumber}
<1>2. RingSize \in Nat /\ 0 \in A
  BY <1>1, PcmAssumption
<1>3. ASSUME NEW k \in 0 .. RingSize - 1, k \in A
      PROVE  k + 1 \in A
  <2>1. k + 1 \in 1 .. RingSize /\ (k + 1) - 1 = k /\ k + 1 \in 0 .. RingSize
    BY <1>2
  <2>2. f[k + 1] = NextPage(f[k], t)
    BY <1>1, <2>1
  <2>3. PcmType(f[k].pcm) /\ f[k].gaps \subseteq SeqNumber
    BY <1>3
  <2> DEFINE g == GetGaps(f[k].pcm, t)
  <2>4. PcmType(g.pcm) /\ g.gaps \subseteq SeqNumber
    BY <2>3, GapsTypes
  <2>5. f[k + 1] \in {f[k], [pcm |-> g.pcm, gaps |-> f[k].gaps \cup g.gaps,
                             more |-> g.more]}
    BY <2>2 DEF NextPage
  <2> HIDE DEF g
  <2> QED
    BY <2>1, <2>3, <2>4, <2>5
<1> HIDE DEF A
<1>4. RingSize \in A
  BY <1>2, <1>3, BoundedInduction
<1> QED
  BY <1>1, <1>4 DEF A

\* What has been paid for so far and what is left of n tokens.
NackCounts(a, on, n) ==
    /\ DOMAIN a = {"fci", "cur", "count", "tokens", "broken"}
    /\ a.count \in Nat /\ a.tokens \in Nat
    /\ on => a.count + a.tokens = n

\* Each missing number costs a token if there is one, and is skipped otherwise.
LEMMA EncodeOneCounts ==
    ASSUME NEW a, NEW s, NEW on \in BOOLEAN, NEW starts, NEW n \in Nat,
           NackCounts(a, on, n)
    PROVE  NackCounts(EncodeOne(a, s, on, starts), on, n)
<1> DEFINE b == [a EXCEPT !.count = @ + 1, !.tokens = IF on THEN @ - 1 ELSE @,
                          !.broken = FALSE]
           fields == Append(b.fci, a.cur)
           bits == b.cur.blp \cup {SeqDist(a.cur.pid, s) - 1}
           first == [pid |-> s, blp |-> {}]
<1>1. EncodeOne(a, s, on, starts) \in
        {a, [a EXCEPT !.broken = FALSE]} \cup
        (IF on /\ a.tokens = 0 THEN {}
         ELSE {[b EXCEPT !.broken = TRUE], [b EXCEPT !.cur = first],
               [b EXCEPT !.fci = fields, !.cur = first],
               [b EXCEPT !.cur.blp = bits]})
  BY DEF EncodeOne
<1>2. NackCounts([a EXCEPT !.broken = FALSE], on, n)
  BY DEF NackCounts
<1>3. ~(on /\ a.tokens = 0) => NackCounts(b, on, n)
  BY DEF NackCounts
<1> HIDE DEF b, fields, bits, first
<1>4. NackCounts(b, on, n) =>
        /\ NackCounts([b EXCEPT !.broken = TRUE], on, n)
        /\ NackCounts([b EXCEPT !.cur = first], on, n)
        /\ NackCounts([b EXCEPT !.fci = fields, !.cur = first], on, n)
        /\ NackCounts([b EXCEPT !.cur.blp = bits], on, n)
  BY DEF NackCounts
<1> QED
  BY <1>1, <1>2, <1>3, <1>4

\* The NACK asks for no more repairs than there are tokens, by induction along
\* the missing numbers.
LEMMA NackWithinTokens ==
    ASSUME NEW gaps \in SUBSET SeqNumber, NEW b, b.on \in BOOLEAN,
           b.tokens \in Nat
    PROVE  /\ ConstructNack(gaps, b).count \in Nat
           /\ b.on => ConstructNack(gaps, b).count <= b.tokens
<1> DEFINE N == Cardinality(gaps)
<1>1. N \in Nat
  <2>1. IsFiniteSet(SeqNumber)
    BY FS_Interval, SeqNumAssumption DEF SeqNumber
  <2> QED
    BY <2>1, FS_Subset, FS_CardinalityType
<1>2. PICK f : /\ f[0] = NackStart(b)
               /\ \A i \in 1 .. N :
                    f[i] = EncodeOne(f[i - 1], InOrder(gaps)[i],
                                b.on, PreSeq(InOrder(gaps)[i]) \notin gaps)
               /\ f[N] = EncodeAll(gaps, b)
  BY <1>1, EncodeAllFold
<1> HIDE DEF N
<1> DEFINE A == {i \in 0 .. N : NackCounts(f[i], b.on, b.tokens)}
<1>3. 0 \in A
  <2>1. NackCounts(NackStart(b), b.on, b.tokens)
    BY DEF NackCounts, NackStart
  <2> QED
    BY <1>1, <1>2, <2>1
<1>4. ASSUME NEW k \in 0 .. N - 1, k \in A
      PROVE  k + 1 \in A
  <2>1. k + 1 \in 1 .. N /\ (k + 1) - 1 = k /\ k + 1 \in 0 .. N
    BY <1>1
  <2>2. f[k + 1] = EncodeOne(f[k], InOrder(gaps)[k + 1],
                       b.on, PreSeq(InOrder(gaps)[k + 1]) \notin gaps)
    BY <1>2, <2>1
  <2>3. NackCounts(f[k + 1], b.on, b.tokens)
    BY <1>4, <2>2, EncodeOneCounts
  <2> QED
    BY <2>1, <2>3
<1> HIDE DEF A
<1>5. N \in A
  BY <1>1, <1>3, <1>4, BoundedInduction
<1>6. NackCounts(EncodeAll(gaps, b), b.on, b.tokens)
  BY <1>2, <1>5 DEF A
<1>7. ConstructNack(gaps, b).count = EncodeAll(gaps, b).count
  BY DEF ConstructNack
<1> QED
  BY <1>6, <1>7 DEF NackCounts

-----------------------------------------------------------------------------
(***************************************************************************)
(* The token bucket.                                                       *)
(***************************************************************************)
Bucket == [on : BOOLEAN, tokens : 0 .. TokenBurst, last : Nat]

\* Division by the period.
LEMMA WholePeriods ==
    \A x \in Nat, q \in Nat :
       /\ x \div TokenPeriod \in Nat
       /\ q * TokenPeriod \in Nat
       /\ (x \div TokenPeriod) * TokenPeriod <= x
       /\ q * TokenPeriod <= x => q <= x \div TokenPeriod
       /\ (x + q * TokenPeriod) \div TokenPeriod = x \div TokenPeriod + q
<1> SUFFICES ASSUME NEW x \in Nat, NEW q \in Nat
             PROVE  /\ x \div TokenPeriod \in Nat
                    /\ q * TokenPeriod \in Nat
                    /\ (x \div TokenPeriod) * TokenPeriod <= x
                    /\ q * TokenPeriod <= x => q <= x \div TokenPeriod
                    /\ (x + q * TokenPeriod) \div TokenPeriod
                           = x \div TokenPeriod + q
  OBVIOUS
<1>1. TokenPeriod \in Nat \ {0}
  BY GapReporterAssumption
<1>2. x \div TokenPeriod \in Nat /\ q * TokenPeriod \in Nat
  BY <1>1
<1>3. (x \div TokenPeriod) * TokenPeriod <= x
  BY <1>1
<1>4. q * TokenPeriod <= x => q <= x \div TokenPeriod
  BY <1>1
<1>5. (x + q * TokenPeriod) \div TokenPeriod = x \div TokenPeriod + q
  BY <1>1
<1> QED
  BY <1>2, <1>3, <1>4, <1>5

\* A credit never overfills the bucket, and as time goes on earns no more than
\* the whole periods that have passed.
LEMMA CreditBounds ==
    ASSUME NEW b \in Bucket, NEW t \in Nat
    PROVE  /\ Credit(b, t) \in Bucket /\ Credit(b, t).on = b.on
           /\ b.last <= t =>
                /\ Credit(b, t).last <= t
                /\ Credit(b, t).tokens + b.last \div TokenPeriod
                     <= b.tokens + Credit(b, t).last \div TokenPeriod
<1> DEFINE n == (t - b.last) \div TokenPeriod
<1>1. /\ TokenBurst \in Nat /\ TokenPeriod \in Nat
      /\ b.tokens \in Nat /\ b.tokens <= TokenBurst /\ b.last \in Nat
  BY GapReporterAssumption DEF Bucket
<1>2. ASSUME NEW c, NEW x \in 0 .. TokenBurst, NEW l \in Nat,
             c = [b EXCEPT !.tokens = x, !.last = l]
      PROVE  c \in Bucket /\ c.on = b.on /\ c.tokens = x /\ c.last = l
  BY <1>2 DEF Bucket
<1>3. CASE t < b.last
  <2>1. Credit(b, t) = [b EXCEPT !.tokens = TokenBurst, !.last = t]
    BY <1>3 DEF Credit
  <2>2. TokenBurst \in 0 .. TokenBurst /\ ~(b.last <= t)
    BY <1>1, <1>3
  <2> QED
    BY <1>2, <2>1, <2>2
<1>4. CASE b.last <= t
  <2>1. n \in Nat /\ n * TokenPeriod \in Nat /\ n * TokenPeriod <= t - b.last
    <3>1. t - b.last \in Nat
      BY <1>1, <1>4
    <3> QED
      BY <3>1, WholePeriods
  <2> HIDE DEF n
  <2>2. b.last + n * TokenPeriod \in Nat /\ b.last + n * TokenPeriod <= t
    BY <1>1, <1>4, <2>1
  <2>3. (b.last + n * TokenPeriod) \div TokenPeriod = b.last \div TokenPeriod + n
    BY <1>1, <2>1, WholePeriods
  <2>4. b.last \div TokenPeriod \in Nat /\ t \div TokenPeriod \in Nat
    BY <1>1, WholePeriods
  <2>5. b.last \div TokenPeriod + n <= t \div TokenPeriod
    <3> DEFINE q == b.last \div TokenPeriod + n
    <3>1. (b.last \div TokenPeriod) * TokenPeriod <= b.last
      BY <1>1, WholePeriods
    <3>2. q * TokenPeriod <= t
      BY <1>1, <2>1, <2>2, <2>4, <3>1
    <3> QED
      BY <2>1, <2>4, <3>2, WholePeriods
  <2>6. CASE n + b.tokens > TokenBurst
    <3>1. Credit(b, t) = [b EXCEPT !.tokens = TokenBurst, !.last = t]
      BY <2>6 DEF Credit, n
    <3>2. /\ Credit(b, t) \in Bucket /\ Credit(b, t).on = b.on
          /\ Credit(b, t).tokens = TokenBurst /\ Credit(b, t).last = t
      <4>1. TokenBurst \in 0 .. TokenBurst
        BY <1>1
      <4> QED
        BY <1>2, <3>1, <4>1
    <3> QED
      BY <1>1, <2>1, <2>4, <2>5, <2>6, <3>2
  <2>7. CASE ~(n + b.tokens > TokenBurst)
    <3> DEFINE l == b.last + n * TokenPeriod
    <3>1. Credit(b, t) = [b EXCEPT !.tokens = b.tokens + n, !.last = l]
      BY <1>1, <1>4, <2>7 DEF Credit, n
    <3>2. b.tokens + n \in 0 .. TokenBurst /\ l \in Nat /\ l <= t
          /\ l \div TokenPeriod = b.last \div TokenPeriod + n
      BY <1>1, <2>1, <2>2, <2>3, <2>7
    <3> HIDE DEF l
    <3>3. /\ Credit(b, t) \in Bucket /\ Credit(b, t).on = b.on
          /\ Credit(b, t).tokens = b.tokens + n /\ Credit(b, t).last = l
      BY <1>2, <3>1, <3>2
    <3> QED
      BY <1>1, <2>1, <2>4, <3>2, <3>3
  <2> QED
    BY <2>6, <2>7
<1> QED
  BY <1>1, <1>3, <1>4

-----------------------------------------------------------------------------
(***************************************************************************)
(* The inductive invariant.                                                *)
(***************************************************************************)
\* What was asked for and what may still be asked for is what the bucket held
\* and earned up to its last credit.
IInv ==
    /\ PcmInv /\ drained \in Nat
    /\ tb \in Bucket
    /\ tb.on /\ jumps = 0 =>
          /\ tb.last <= now
          /\ drained + tb.tokens <= TokenBurst + tb.last \div TokenPeriod

LEMMA InitIInv == Init => IInv
<1> SUFFICES ASSUME Init PROVE IInv
  OBVIOUS
<1>1. PcmInv
  BY PcmInitType DEF Init
<1>2. now = 0 /\ jumps = 0 /\ drained = 0
      /\ tb.tokens = TokenBurst /\ tb.last = 0 /\ tb \in Bucket
  BY GapReporterAssumption DEF Init, PcmInit, Bucket
<1>3. tb.last \div TokenPeriod \in Nat
  BY <1>2, WholePeriods
<1> QED
  BY <1>1, <1>2, <1>3, GapReporterAssumption DEF IInv

LEMMA ReportIInv == IInv /\ Report => IInv'
<1> SUFFICES ASSUME IInv, Report PROVE IInv'
  OBVIOUS
<1> DEFINE b == IF tb.on THEN Credit(tb, now) ELSE tb
           g == Pages(pcm, now)
           n == ConstructNack(g.gaps, b).count
<1>1. /\ pcm' = g.pcm
      /\ tb' = IF tb.on THEN [b EXCEPT !.tokens = @ - n] ELSE b
      /\ drained' = drained + n /\ UNCHANGED <<now, jumps, back>>
  BY DEF Report
<1>2. /\ PcmInv /\ now \in Nat /\ jumps \in Nat /\ drained \in Nat
      /\ tb \in Bucket
  BY DEF IInv, PcmInv, Times
<1>3. b \in Bucket /\ b.on = tb.on
  BY <1>2, CreditBounds
<1>4. PcmType(g.pcm) /\ g.gaps \in SUBSET SeqNumber
  BY <1>2, PagesTypes DEF PcmInv
<1>5. tb.on \in BOOLEAN /\ b.on \in BOOLEAN /\ b.tokens \in Nat
      /\ b.tokens <= TokenBurst /\ b.last \in Nat
  BY <1>2, <1>3, GapReporterAssumption DEF Bucket
<1>6. tb.on /\ jumps = 0 =>
        /\ b.last <= now
        /\ drained + b.tokens <= TokenBurst + b.last \div TokenPeriod
  <2> SUFFICES ASSUME tb.on, jumps = 0
               PROVE  /\ b.last <= now
                      /\ drained + b.tokens
                            <= TokenBurst + b.last \div TokenPeriod
    OBVIOUS
  <2>1. /\ tb.last <= now
        /\ drained + tb.tokens <= TokenBurst + tb.last \div TokenPeriod
    BY DEF IInv
  <2>2. /\ b.last <= now
        /\ b.tokens + tb.last \div TokenPeriod
             <= tb.tokens + b.last \div TokenPeriod
    BY <1>2, <2>1, CreditBounds
  <2>3. tb.last \in Nat /\ tb.tokens \in Nat /\ TokenBurst \in Nat
    BY <1>2, GapReporterAssumption DEF Bucket
  <2>4. tb.last \div TokenPeriod \in Nat /\ b.last \div TokenPeriod \in Nat
    BY <1>5, <2>3, WholePeriods
  <2> HIDE DEF b
  <2> QED
    BY <1>2, <1>5, <2>1, <2>2, <2>3, <2>4
<1> HIDE DEF b, g
<1>7. n \in Nat /\ (b.on => n <= b.tokens)
  BY <1>4, <1>5, NackWithinTokens
<1> HIDE DEF n
<1>8. CASE tb.on
  <2>1. /\ tb' \in Bucket /\ tb'.on = tb.on
        /\ tb'.tokens = b.tokens - n /\ tb'.last = b.last
    <3>1. tb' = [b EXCEPT !.tokens = b.tokens - n]
      BY <1>1, <1>8
    <3>2. b.tokens - n \in 0 .. TokenBurst
      BY <1>3, <1>5, <1>7, <1>8, GapReporterAssumption
    <3> QED
      BY <1>3, <3>1, <3>2 DEF Bucket
  <2>2. b.last \div TokenPeriod \in Nat /\ TokenBurst \in Nat
    BY <1>5, WholePeriods, GapReporterAssumption
  <2> QED
    BY <1>1, <1>2, <1>4, <1>5, <1>6, <1>7, <1>8, <2>1, <2>2 DEF IInv, PcmInv
<1>9. CASE ~tb.on
  BY <1>1, <1>2, <1>3, <1>4, <1>7, <1>9 DEF IInv, PcmInv
<1> QED
  BY <1>8, <1>9

LEMMA NextIInv == IInv /\ [Next]_grVars => IInv'
<1> SUFFICES ASSUME IInv, [Next]_grVars PROVE IInv'
  OBVIOUS
<1>1. CASE PcmNext /\ UNCHANGED <<tb, asked, again, drained>>
  <2>1. /\ PcmType(pcm') /\ now' \in Times /\ back' \in BOOLEAN
        /\ jumps' \in Nat /\ jumps <= jumps'
        /\ jumps' = jumps => now <= now'
    BY <1>1, PcmNextType DEF IInv
  <2>2. /\ tb \in Bucket /\ tb.last \in Nat /\ jumps \in Nat
        /\ now \in Nat /\ now' \in Nat
    BY <2>1 DEF IInv, PcmInv, Bucket, Times
  <2>3. jumps' = 0 => jumps = 0 /\ now <= now'
    BY <2>1, <2>2
  <2> QED
    BY <1>1, <2>1, <2>2, <2>3 DEF IInv, PcmInv
<1>2. CASE Report
  BY <1>2, ReportIInv
<1>3. CASE UNCHANGED grVars
  BY <1>3 DEF IInv, PcmInv, grVars
<1> QED
  BY <1>1, <1>2, <1>3 DEF Next

\* The numbers of the cache stay sequence numbers and the bucket's account is
\* right, whatever packets come and whenever the gap reporter runs
\* (vqec_pcm.c, vqe_token_bucket.c).
THEOREM PolicerInvariance == Spec => []IInv
<1> QED
  BY InitIInv, NextIInv, PTL DEF Spec

\* The policer keeps what the gap reporter asks for within the burst and what
\* time has earned since the start (tb_credit_tokens_internal, tb_drain_tokens,
\* vqec_gap_reporter_construct_generic_nack).
THEOREM RepairsArePoliced == Spec => []PolicerBounds
<1>1. IInv => PolicerBounds
  <2> SUFFICES ASSUME IInv, tb.on
               PROVE  /\ tb.tokens \in 0 .. TokenBurst
                      /\ jumps = 0 =>
                           drained <= TokenBurst + now \div TokenPeriod
    BY DEF PolicerBounds
  <2>1. /\ tb.tokens \in 0 .. TokenBurst /\ tb.last \in Nat /\ now \in Nat
        /\ drained \in Nat /\ TokenBurst \in Nat
    BY GapReporterAssumption DEF IInv, PcmInv, Bucket, Times
  <2>2. ASSUME jumps = 0
        PROVE  drained <= TokenBurst + now \div TokenPeriod
    <3>1. /\ tb.last <= now
          /\ drained + tb.tokens <= TokenBurst + tb.last \div TokenPeriod
      BY <2>2 DEF IInv
    <3>2. tb.last \div TokenPeriod \in Nat /\ now \div TokenPeriod \in Nat
          /\ (tb.last \div TokenPeriod) * TokenPeriod <= tb.last
      BY <2>1, WholePeriods
    <3>3. tb.last \div TokenPeriod <= now \div TokenPeriod
      <4> DEFINE q == tb.last \div TokenPeriod
      <4>1. q \in Nat /\ q * TokenPeriod <= tb.last
        BY <3>2
      <4> HIDE DEF q
      <4>2. q * TokenPeriod \in Nat
        BY <2>1, <4>1, WholePeriods
      <4>3. q * TokenPeriod <= now
        BY <2>1, <3>1, <4>1, <4>2
      <4>4. q <= now \div TokenPeriod
        BY <2>1, <4>1, <4>3, WholePeriods
      <4> QED
        BY <4>4 DEF q
    <3> QED
      BY <2>1, <3>1, <3>2, <3>3
  <2> QED
    BY <2>1, <2>2
<1> QED
  BY <1>1, PolicerInvariance, PTL

-----------------------------------------------------------------------------
(***************************************************************************)
(* What was reported, what may be, and the packets come in this order.     *)
(***************************************************************************)
\* Places, counted from one ring before the first number.
Base == SeqAdd(0, -RingSize)
Pos(s) == SeqDist(Base, s)

LEMMA PosFacts ==
    /\ Base \in SeqNumber
    /\ \A s \in SeqNumber : Pos(s) \in Nat /\ Pos(s) < SeqSpace
    /\ Pos(0) = RingSize
<1>1. RingSize \in Nat /\ RingSize < SeqSpace
  BY RoomFacts
<1>2. 0 \in SeqNumber
  BY SeqTypes
<1>3. Base \in SeqNumber /\ Pos(0) = RingSize
  BY <1>1, <1>2, AddDist DEF Base, Pos
<1>4. ASSUME NEW s \in SeqNumber PROVE Pos(s) \in Nat /\ Pos(s) < SeqSpace
  <2>1. SeqDist(Base, s) \in SeqNumber
    BY <1>3, DistType
  <2> QED
    BY <2>1, RoomFacts DEF Pos, SeqNumber
<1> QED
  BY <1>3, <1>4

\* In the first half of the space the places tell the order.
LEMMA PosOrder ==
    ASSUME NEW x \in SeqNumber, NEW y \in SeqNumber, Pos(x) < Half, Pos(y) < Half
    PROVE  /\ SeqLt(x, y) <=> Pos(x) < Pos(y)
           /\ SeqLe(x, y) <=> Pos(x) <= Pos(y)
           /\ x = y <=> Pos(x) = Pos(y)
           /\ Pos(x) <= Pos(y) => SeqDist(x, y) = Pos(y) - Pos(x)
<1>1. Base \in SeqNumber
  BY PosFacts
<1> QED
  BY <1>1, DistOrder DEF Pos, Half

\* Candidates lie between the last number that may be reported and the tail,
\* the older before the newer.
CandsBetween(c, h, l) ==
    /\ \A i \in 1 .. Len(c) : Pos(h) <= Pos(c[i].seq) /\ Pos(c[i].seq) <= Pos(l)
    /\ \A i, j \in 1 .. Len(c) : i <= j => Pos(c[i].seq) <= Pos(c[j].seq)

CandOrder(p) ==
    /\ RingSize <= Pos(p.tail)
    /\ Pos(p.lastReq) <= Pos(p.highestEr) /\ Pos(p.highestEr) <= Pos(p.tail)
    /\ CandsBetween(p.cands, p.highestEr, p.tail)
    /\ p.srcStart # None => Pos(p.srcStart) <= Pos(p.tail) + 1

\* What the order of the reports depends on, besides the candidates.
SameMarks(q, p) ==
    q.lastReq = p.lastReq

SameEnd(q, p) == q.tail = p.tail /\ q.lastRx = p.lastRx

LEMMA TimeoutIs ==
    ASSUME NEW p, PcmType(p), NEW t
    PROVE  \E old \in 0 .. Len(p.cands) :
             /\ p.cands = <<>> => old = 0
             /\ TimeoutCandidates(p, t) =
                  [p EXCEPT !.cands = SubSeq(p.cands, old + 1, Len(p.cands)),
                            !.highestEr = IF p.cands = <<>> THEN p.highestEr
                                          ELSE IF old < Len(p.cands)
                                          THEN p.cands[old + 1].seq
                                          ELSE p.cands[old].seq]
<1> DEFINE Olds == {i \in DOMAIN p.cands :
                      \A j \in 1 .. i : t > p.cands[j].ts + p.hold}
           old == Cardinality(Olds)
<1>1. p.cands \in Seq(Cand) /\ Len(p.cands) \in Nat
      /\ DOMAIN p.cands = 1 .. Len(p.cands)
  BY DEF PcmType
<1>2. old \in Nat /\ old <= Len(p.cands)
  <2>1. IsFiniteSet(1 .. Len(p.cands))
        /\ Cardinality(1 .. Len(p.cands)) = Len(p.cands)
    BY <1>1, FS_Interval
  <2>2. Olds \in SUBSET (1 .. Len(p.cands))
    BY <1>1
  <2> HIDE DEF Olds
  <2>3. IsFiniteSet(Olds) /\ Cardinality(Olds) <= Cardinality(1 .. Len(p.cands))
    BY <2>1, <2>2, FS_Subset
  <2> QED
    BY <2>1, <2>3, FS_CardinalityType
<1>3. TimeoutCandidates(p, t) =
        [p EXCEPT !.cands = SubSeq(p.cands, old + 1, Len(p.cands)),
                  !.highestEr = IF p.cands = <<>> THEN p.highestEr
                                ELSE IF old < Len(p.cands)
                                     THEN p.cands[old + 1].seq
                                     ELSE p.cands[old].seq]
  BY DEF TimeoutCandidates, old
<1> HIDE DEF old
<1>4. old \in 0 .. Len(p.cands) /\ (p.cands = <<>> => old = 0)
  BY <1>1, <1>2
<1> QED
  BY <1>3, <1>4

\* A later beginning, of the same list or of what is left of it.
LEMMA CandsLater ==
    ASSUME NEW c \in Seq(Cand), NEW h \in SeqNumber, NEW l \in SeqNumber,
           CandsBetween(c, h, l), NEW old \in 0 .. Len(c), c # <<>>,
           NEW g, g = IF old < Len(c) THEN c[old + 1].seq ELSE c[old].seq
    PROVE  /\ Pos(h) <= Pos(g) /\ Pos(g) <= Pos(l)
           /\ CandsBetween(SubSeq(c, old + 1, Len(c)), g, l)
<1> DEFINE d == SubSeq(c, old + 1, Len(c))
<1>1. Len(c) \in Nat /\ Len(c) > 0
  BY EmptySeq
<1>2. \A i \in 1 .. Len(c) : c[i].seq \in SeqNumber
  <2>1. \A i \in 1 .. Len(c) : c[i] \in Cand
    BY ElementOfSeq
  <2> QED
    BY <2>1 DEF Cand
<1>3. \A i \in 1 .. Len(c) : Pos(c[i].seq) \in Nat
  BY <1>2, PosFacts
<1>4. /\ Len(d) = Len(c) - old
      /\ \A i \in 1 .. Len(d) : d[i] = c[old + i]
  BY <1>1, SubSeqProperties
<1> DEFINE k == IF old < Len(c) THEN old + 1 ELSE old
<1>5. k \in 1 .. Len(c) /\ g = c[k].seq /\ (\A i \in 1 .. Len(d) : k <= old + i)
  BY <1>1, <1>4
<1>6. \A i \in 1 .. Len(d) : old + i \in 1 .. Len(c)
  BY <1>1, <1>4
<1> HIDE DEF d, k
<1>7. /\ \A i \in 1 .. Len(c) :
            Pos(h) <= Pos(c[i].seq) /\ Pos(c[i].seq) <= Pos(l)
      /\ \A i, j \in 1 .. Len(c) : i <= j => Pos(c[i].seq) <= Pos(c[j].seq)
  BY DEF CandsBetween
<1>8. Pos(h) <= Pos(g) /\ Pos(g) <= Pos(l)
  BY <1>5, <1>7
<1>9. \A i \in 1 .. Len(d) : Pos(g) <= Pos(d[i].seq) /\ Pos(d[i].seq) <= Pos(l)
  BY <1>4, <1>5, <1>6, <1>7
<1>10. ASSUME NEW i \in 1 .. Len(d), NEW j \in 1 .. Len(d), i <= j
       PROVE  Pos(d[i].seq) <= Pos(d[j].seq)
  <2>1. old + i \in 1 .. Len(c) /\ old + j \in 1 .. Len(c) /\ old + i <= old + j
    BY <1>6, <1>10
  <2> QED
    BY <1>4, <1>7, <2>1
<1>11. CandsBetween(d, g, l)
  BY <1>9, <1>10 DEF CandsBetween
<1> QED
  BY <1>8, <1>11 DEF d

\* Candidates that time out keep the order.
LEMMA TimeoutOrder ==
    ASSUME NEW p, PcmType(p), CandOrder(p), NEW t,
           NEW q, q = TimeoutCandidates(p, t)
    PROVE  /\ CandOrder(q) /\ SameMarks(q, p) /\ SameEnd(q, p) /\ PcmType(q)
           /\ q.srcStart = p.srcStart
<1>1. PICK old \in 0 .. Len(p.cands) :
             /\ p.cands = <<>> => old = 0
             /\ q = [p EXCEPT !.cands = SubSeq(p.cands, old + 1, Len(p.cands)),
                              !.highestEr = IF p.cands = <<>> THEN p.highestEr
                                            ELSE IF old < Len(p.cands)
                                            THEN p.cands[old + 1].seq
                                            ELSE p.cands[old].seq]
  BY TimeoutIs
<1>2. DOMAIN p = PcmFields /\ p.cands \in Seq(Cand)
      /\ p.highestEr \in SeqNumber /\ p.tail \in SeqNumber /\ p.lastReq \in SeqNumber
  BY DEF PcmType
<1>3. /\ q.cands = SubSeq(p.cands, old + 1, Len(p.cands))
      /\ q.highestEr = IF p.cands = <<>> THEN p.highestEr
                       ELSE IF old < Len(p.cands) THEN p.cands[old + 1].seq
                       ELSE p.cands[old].seq
      /\ SameMarks(q, p) /\ SameEnd(q, p) /\ q.srcStart = p.srcStart
  BY <1>1, <1>2 DEF PcmFields, SameMarks, SameEnd
<1>4. PcmType(q)
  BY TimeoutType
<1>5. /\ Pos(p.highestEr) <= Pos(q.highestEr)
      /\ Pos(q.highestEr) <= Pos(p.tail)
      /\ CandsBetween(q.cands, q.highestEr, p.tail)
  <2>1. CASE p.cands = <<>>
    <3>1. Len(q.cands) = 0
      <4>1. Len(p.cands) = 0 /\ old = 0
        BY <1>1, <2>1
      <4> QED
        BY <1>2, <1>3, <4>1, SubSeqProperties
    <3>2. q.highestEr = p.highestEr
      BY <1>3, <2>1
    <3>3. CandsBetween(q.cands, q.highestEr, p.tail)
      BY <3>1 DEF CandsBetween
    <3>4. Pos(p.highestEr) \in Nat
      BY <1>2, PosFacts
    <3> QED
      BY <3>2, <3>3, <3>4 DEF CandOrder
  <2>2. CASE p.cands # <<>>
    <3>1. q.highestEr = IF old < Len(p.cands) THEN p.cands[old + 1].seq
                        ELSE p.cands[old].seq
      BY <1>3, <2>2
    <3>2. CandsBetween(p.cands, p.highestEr, p.tail)
      BY DEF CandOrder
    <3> QED
      BY <1>2, <1>3, <2>2, <3>1, <3>2, CandsLater
  <2> QED
    BY <2>1, <2>2
<1>6. Pos(p.lastReq) \in Nat /\ Pos(p.highestEr) \in Nat /\ Pos(q.highestEr) \in Nat
  <2>1. q.highestEr \in SeqNumber
    BY <1>4 DEF PcmType
  <2> QED
    BY <1>2, <2>1, PosFacts
<1>7. CandOrder(q)
  BY <1>3, <1>5, <1>6 DEF CandOrder, SameMarks, SameEnd
<1> QED
  BY <1>3, <1>4, <1>7

\* A candidate at the tail is later than all others.
LEMMA AddOrder ==
    ASSUME NEW c \in Seq(Cand), NEW h \in SeqNumber, NEW s \in SeqNumber,
           CandsBetween(c, h, s), Pos(h) <= Pos(s), NEW t \in Times
    PROVE  CandsBetween(AddCandidate(c, s, t), h, s)
<1> DEFINE e == [seq |-> s, ts |-> t]
           b == IF Len(c) = MaxCand THEN Tail(c) ELSE c
<1>1. e \in Cand /\ e.seq = s
  BY DEF Cand, Times
<1> HIDE DEF e
<1>2. b \in Seq(Cand) /\ CandsBetween(b, h, s)
  <2>1. CASE Len(c) = MaxCand
    <3>1. c # <<>> /\ Len(c) \in Nat
      BY <2>1, PcmAssumption, EmptySeq
    <3>2. /\ Tail(c) \in Seq(Cand) /\ Len(Tail(c)) = Len(c) - 1
          /\ \A i \in 1 .. Len(Tail(c)) : Tail(c)[i] = c[i + 1]
      BY <3>1, HeadTailProperties
    <3>3. \A i \in 1 .. Len(Tail(c)) : i + 1 \in 1 .. Len(c)
      BY <3>1, <3>2
    <3>4. /\ \A i \in 1 .. Len(c) :
                Pos(h) <= Pos(c[i].seq) /\ Pos(c[i].seq) <= Pos(s)
          /\ \A i, j \in 1 .. Len(c) : i <= j => Pos(c[i].seq) <= Pos(c[j].seq)
      BY DEF CandsBetween
    <3>5. ASSUME NEW i \in 1 .. Len(Tail(c)), NEW j \in 1 .. Len(Tail(c)), i <= j
          PROVE  Pos(Tail(c)[i].seq) <= Pos(Tail(c)[j].seq)
      <4>1. i + 1 \in 1 .. Len(c) /\ j + 1 \in 1 .. Len(c) /\ i + 1 <= j + 1
        BY <3>3, <3>5
      <4> QED
        BY <3>2, <3>4, <4>1
    <3>6. CandsBetween(Tail(c), h, s)
      BY <3>2, <3>3, <3>4, <3>5 DEF CandsBetween
    <3> QED
      BY <2>1, <3>2, <3>6
  <2>2. CASE Len(c) # MaxCand
    BY <2>2
  <2> QED
    BY <2>1, <2>2
<1> HIDE DEF b
<1> DEFINE d == Append(b, e)
<1>3. /\ Len(b) \in Nat /\ Len(d) = Len(b) + 1 /\ d[Len(b) + 1] = e
      /\ \A i \in 1 .. Len(b) : d[i] = b[i]
  BY <1>1, <1>2, AppendProperties
<1>4. AddCandidate(c, s, t) = d
  BY DEF AddCandidate, b, e
<1> HIDE DEF d
<1>5. Pos(s) \in Nat
  BY PosFacts
<1>6. /\ \A i \in 1 .. Len(b) :
            Pos(h) <= Pos(b[i].seq) /\ Pos(b[i].seq) <= Pos(s)
      /\ \A i, j \in 1 .. Len(b) : i <= j => Pos(b[i].seq) <= Pos(b[j].seq)
  BY <1>2 DEF CandsBetween
<1>7. \A i \in 1 .. Len(d) : i \in 1 .. Len(b) \/ (i = Len(b) + 1 /\ d[i].seq = s)
  BY <1>1, <1>3
<1>8. \A i \in 1 .. Len(d) : Pos(h) <= Pos(d[i].seq) /\ Pos(d[i].seq) <= Pos(s)
  BY <1>3, <1>5, <1>6, <1>7
<1>9. ASSUME NEW i \in 1 .. Len(d), NEW j \in 1 .. Len(d), i <= j
      PROVE  Pos(d[i].seq) <= Pos(d[j].seq)
  <2>1. CASE j = Len(b) + 1
    BY <1>7, <1>8, <2>1, <1>3
  <2>2. CASE j # Len(b) + 1
    <3>1. i \in 1 .. Len(b) /\ j \in 1 .. Len(b)
      BY <1>3, <1>9, <2>2
    <3> QED
      BY <1>3, <1>6, <1>9, <3>1
  <2> QED
    BY <2>1, <2>2
<1> QED
  BY <1>4, <1>8, <1>9 DEF CandsBetween

LEMMA UpdateOrder ==
    ASSUME NEW p, PcmType(p), CandOrder(p), NEW t \in Times,
           NEW q, q = UpdateCandidates(p, p.tail, t)
    PROVE  CandOrder(q) /\ SameMarks(q, p) /\ SameEnd(q, p)
<1> DEFINE s  == p.tail
           tc == TimeoutCandidates(p, t)
           u == IF p.cands = <<>>
                THEN [p EXCEPT !.cands = AddCandidate(@, s, t)]
                ELSE IF t > Last(p.cands).ts + p.hold \div MaxCand
                THEN [tc EXCEPT !.cands = AddCandidate(@, s, t)]
                ELSE p
<1>1. s \in SeqNumber
  BY DEF PcmType
<1>2. PcmType(tc) /\ CandOrder(tc) /\ SameMarks(tc, p) /\ SameEnd(tc, p)
  BY TimeoutOrder
<1>3. ASSUME NEW x, PcmType(x), CandOrder(x), x.tail = s
      PROVE  LET y == [x EXCEPT !.cands = AddCandidate(x.cands, s, t)]
             IN  CandOrder(y) /\ SameMarks(y, x) /\ SameEnd(y, x) /\ DOMAIN y = PcmFields
  <2> DEFINE c == AddCandidate(x.cands, s, t)
             y == [x EXCEPT !.cands = c]
  <2>1. /\ DOMAIN x = PcmFields /\ x.cands \in Seq(Cand)
        /\ x.highestEr \in SeqNumber
    BY <1>3 DEF PcmType
  <2>2. CandsBetween(c, x.highestEr, s)
    BY <1>1, <1>3, <2>1, AddOrder DEF CandOrder
  <2> HIDE DEF c, s
  <2>3. /\ y.cands = c /\ y.highestEr = x.highestEr /\ y.srcStart = x.srcStart
        /\ SameMarks(y, x) /\ SameEnd(y, x) /\ DOMAIN y = PcmFields
    BY <2>1 DEF PcmFields, SameMarks, SameEnd
  <2> HIDE DEF y
  <2>4. CandOrder(y)
    BY <1>3, <2>2, <2>3 DEF CandOrder, SameMarks, SameEnd
  <2> QED
    BY <2>3, <2>4 DEF y, c
<1>4. DOMAIN p = PcmFields /\ SameMarks(p, p) /\ SameEnd(p, p)
  BY DEF PcmType, SameMarks, SameEnd
<1> HIDE DEF tc, s
<1>5. CandOrder(u) /\ SameMarks(u, p) /\ SameEnd(u, p) /\ DOMAIN u = PcmFields
  <2>1. CASE p.cands = <<>>
    BY <1>3, <2>1 DEF s
  <2>2. CASE p.cands # <<>> /\ t > Last(p.cands).ts + p.hold \div MaxCand
    <3>1. tc.tail = s
      BY <1>2 DEF SameEnd, s
    <3> QED
      BY <1>2, <1>3, <2>2, <3>1 DEF SameMarks, SameEnd
  <2>3. CASE p.cands # <<>> /\ ~(t > Last(p.cands).ts + p.hold \div MaxCand)
    BY <1>4, <2>3
  <2> QED
    BY <2>1, <2>2, <2>3
<1>6. q = [u EXCEPT !.checked = TRUE]
  BY DEF UpdateCandidates, u, tc, s
<1> HIDE DEF u
<1>7. /\ q.cands = u.cands /\ q.highestEr = u.highestEr
      /\ q.srcStart = u.srcStart /\ SameMarks(q, u) /\ SameEnd(q, u)
  BY <1>5, <1>6 DEF PcmFields, SameMarks, SameEnd
<1> QED
  BY <1>5, <1>7 DEF CandOrder, SameMarks, SameEnd

\* A packet in its place: a new tail is no earlier than the old one.
LEMMA PutOrder ==
    ASSUME NEW p, PcmType(p), CandOrder(p), NEW s \in SeqNumber,
           NEW type, NEW t,
           IsFirst(p) \/ IsHigh(p, s) => Pos(p.tail) <= Pos(s),
           NEW q, q = Put(p, s, type, t)
    PROVE  /\ CandOrder(q) /\ SameMarks(q, p)
           /\ CameInOrder(p, s, type) => q.tail = s
<1>1. DOMAIN p = PcmFields /\ p.tail \in SeqNumber /\ p.highestEr \in SeqNumber
      /\ p.cands \in Seq(Cand) /\ p.lastReq \in SeqNumber
      /\ p.srcStart \in SeqNumber \cup {None}
  BY DEF PcmType
<1>2. q.tail = IF IsFirst(p) \/ IsHigh(p, s) THEN s ELSE p.tail
  BY <1>1 DEF Put, PcmFields
<1>3. /\ q.cands = p.cands /\ q.highestEr = p.highestEr
      /\ q.lastReq = p.lastReq /\ q.srcStart = p.srcStart
  BY <1>1 DEF Put, PcmFields
<1>4. Pos(p.tail) <= Pos(q.tail) /\ q.tail \in SeqNumber
  <2>1. Pos(p.tail) \in Nat
    BY <1>1, PosFacts
  <2> QED
    BY <1>1, <1>2, <2>1
<1>5. /\ Pos(p.tail) \in Nat /\ Pos(q.tail) \in Nat /\ Pos(p.highestEr) \in Nat
      /\ Pos(p.lastReq) \in Nat
      /\ p.srcStart # None => Pos(p.srcStart) \in Nat
      /\ RingSize \in Nat
  BY <1>1, <1>4, PosFacts, RoomFacts
<1>6. \A i \in 1 .. Len(p.cands) : Pos(p.cands[i].seq) \in Nat
  <2>1. \A i \in 1 .. Len(p.cands) : p.cands[i] \in Cand
    BY <1>1, ElementOfSeq
  <2>2. \A i \in 1 .. Len(p.cands) : p.cands[i].seq \in SeqNumber
    BY <2>1 DEF Cand
  <2> QED
    BY <2>2, PosFacts
<1>7. CandsBetween(q.cands, q.highestEr, q.tail)
  <2>1. CandsBetween(p.cands, p.highestEr, p.tail)
    BY DEF CandOrder
  <2> QED
    BY <1>3, <1>4, <1>5, <1>6, <2>1 DEF CandsBetween
<1>8. /\ RingSize <= Pos(q.tail)
      /\ Pos(q.lastReq) <= Pos(q.highestEr) /\ Pos(q.highestEr) <= Pos(q.tail)
      /\ q.srcStart # None => Pos(q.srcStart) <= Pos(q.tail) + 1
  BY <1>3, <1>4, <1>5 DEF CandOrder
<1> QED
  BY <1>2, <1>3, <1>7, <1>8 DEF CandOrder, SameMarks, CameInOrder

TailIn(p) == DOMAIN p.paks # {} => p.tail \in DOMAIN p.paks

LEMMA PlaceOrder ==
    ASSUME NEW p, PcmType(p), CandOrder(p), NEW s \in SeqNumber,
           NEW type, type \in PakTypes, NEW t \in Times,
           IsFirst(p) \/ IsHigh(p, s) => Pos(p.tail) <= Pos(s),
           NEW r, r = Place(p, s, type, t)
    PROVE  CandOrder(r) /\ SameMarks(r, p)
<1> DEFINE q == Put(p, s, type, t)
<1>1. /\ CandOrder(q) /\ SameMarks(q, p) /\ PcmType(q)
      /\ CameInOrder(p, s, type) => q.tail = s
  BY PutOrder, PutType
<1>2. r = IF CameInOrder(p, s, type) THEN UpdateCandidates(q, s, t) ELSE q
  BY PlaceIsPut
<1> HIDE DEF q
<1>3. CASE CameInOrder(p, s, type)
  <2>1. r = UpdateCandidates(q, q.tail, t)
    BY <1>1, <1>2, <1>3
  <2>2. CandOrder(r) /\ SameMarks(r, q)
    BY <1>1, <2>1, UpdateOrder
  <2> QED
    BY <1>1, <2>2 DEF SameMarks
<1>4. CASE ~CameInOrder(p, s, type)
  BY <1>1, <1>2, <1>4
<1> QED
  BY <1>3, <1>4

LEMMA PlaceTailIn ==
    ASSUME NEW p, PcmType(p), TailIn(p), NEW s \in SeqNumber,
           NEW type, type \in PakTypes, NEW t \in Times,
           NEW r, r = Place(p, s, type, t)
    PROVE  TailIn(r) /\ s \in DOMAIN r.paks
<1> DEFINE q == Put(p, s, type, t)
<1>1. PcmType(q)
  BY PutType
<1>2. /\ q.tail = IF IsFirst(p) \/ IsHigh(p, s) THEN s ELSE p.tail
      /\ DOMAIN q.paks = DOMAIN p.paks \cup {s}
  <2>1. DOMAIN p = PcmFields
    BY DEF PcmType
  <2> QED
    BY <2>1 DEF Put, PcmFields
<1>3. IsFirst(p) <=> DOMAIN p.paks = {}
  BY NumPaksZero DEF IsFirst
<1>4. TailIn(q) /\ s \in DOMAIN q.paks
  BY <1>2, <1>3 DEF TailIn
<1>5. SameViews(r, q)
  <2>1. SameViews(UpdateCandidates(q, s, t), q) /\ SameViews(q, q)
    BY <1>1, UpdateViews DEF SameViews
  <2>2. r = IF CameInOrder(p, s, type) THEN UpdateCandidates(q, s, t) ELSE q
    BY PlaceIsPut
  <2> HIDE DEF q
  <2> QED
    BY <2>1, <2>2
<1> HIDE DEF q
<1> QED
  BY <1>4, <1>5 DEF TailIn, SameViews

\* One pass of the insertion loop.
LEMMA InsertOneOrder ==
    ASSUME NEW p, PcmType(p), TailIn(p), NEW s \in SeqNumber,
           NEW type, type \in PakTypes, NEW check, NEW t \in Times,
           NEW r, r = InsertOne(p, s, type, check, t)
    PROVE  /\ TailIn(r)
           /\ /\ CandOrder(p)
              /\ s \in DOMAIN r.paks /\ (IsFirst(p) \/ IsHigh(p, s))
                   => Pos(p.tail) <= Pos(s)
              => CandOrder(r) /\ SameMarks(r, p)
<1> DEFINE q == IF type = "PRIMARY" /\ ~p.primRcvd
                THEN [p EXCEPT !.primRcvd = TRUE, !.firstPrim = s] ELSE p
<1>1. PcmType(q)
  <2> DEFINE u == [p EXCEPT !.primRcvd = TRUE, !.firstPrim = s]
  <2>1. PcmType(u)
    BY DEF PcmType, PcmFields
  <2> QED
    BY <2>1
<1>2. r \in {p, q, Place(q, s, type, t)}
  BY DEF InsertOne
<1>3. /\ q.paks = p.paks /\ q.tail = p.tail /\ q.cands = p.cands
      /\ q.highestEr = p.highestEr /\ q.lastReq = p.lastReq
      /\ q.srcStart = p.srcStart
      /\ q.head = p.head
  <2>1. DOMAIN p = PcmFields
    BY DEF PcmType
  <2> QED
    BY <2>1 DEF PcmFields
<1> HIDE DEF q
<1>4. TailIn(q) /\ (CandOrder(p) => CandOrder(q)) /\ SameMarks(q, p)
  BY <1>3 DEF TailIn, CandOrder, SameMarks
<1>5. IsFirst(q) = IsFirst(p) /\ IsHigh(q, s) = IsHigh(p, s)
  BY <1>3 DEF IsFirst, IsHigh, NumPaks
<1>6. CASE r = Place(q, s, type, t)
  <2>1. TailIn(r) /\ s \in DOMAIN r.paks
    BY <1>1, <1>4, <1>6, PlaceTailIn
  <2>2. ASSUME CandOrder(p),
               IsFirst(p) \/ IsHigh(p, s) => Pos(p.tail) <= Pos(s)
        PROVE  CandOrder(r) /\ SameMarks(r, p)
    <3>1. IsFirst(q) \/ IsHigh(q, s) => Pos(q.tail) <= Pos(s)
      BY <1>3, <1>5, <2>2
    <3>2. CandOrder(r) /\ SameMarks(r, q)
      BY <1>1, <1>4, <1>6, <2>2, <3>1, PlaceOrder
    <3> QED
      BY <1>4, <3>2 DEF SameMarks
  <2> QED
    BY <2>1, <2>2
<1>7. SameMarks(p, p)
  BY DEF SameMarks
<1> QED
  BY <1>2, <1>4, <1>6, <1>7

\* The loop over a vector: a tail is overtaken by what ends up in the cache.
LEMMA InsertAllOrder ==
    ASSUME NEW p, PcmType(p), TailIn(p), CandOrder(p),
           NEW seqs \in Seq(SeqNumber), NEW type, type \in PakTypes,
           NEW check, NEW bump, NEW t \in Times,
           NEW r, r = InsertAll(p, seqs, type, check, bump, t),
           \A x, y \in DOMAIN r.paks : SeqLt(x, y) => Pos(x) <= Pos(y),
           DOMAIN p.paks = {} => Pos(p.tail) <= Pos(Numbered(seqs, bump, 1))
    PROVE  CandOrder(r) /\ SameMarks(r, p)
<1>f. PICK f : InsertLoop(f, p, seqs, type, check, bump, t)
  BY InsertAllLoop
<1> DEFINE s(k) == Numbered(seqs, bump, k)
           n == Len(seqs)
<1>1. /\ f[0] = p /\ f[n] = r /\ n \in Nat
      /\ \A k \in 0 .. n - 1 : f[k + 1] = InsertOne(f[k], s(k + 1), type, check, t)
  <2>1. n \in Nat
    OBVIOUS
  <2>2. \A i \in 1 .. n : f[i] = InsertOne(f[i - 1], s(i), type, check, t)
    BY <1>f DEF InsertLoop, Numbered
  <2>3. ASSUME NEW k \in 0 .. n - 1
        PROVE  f[k + 1] = InsertOne(f[k], s(k + 1), type, check, t)
    <3>1. k + 1 \in 1 .. n /\ (k + 1) - 1 = k
      BY <2>1
    <3> HIDE DEF s
    <3> QED
      BY <2>2, <3>1
  <2> QED
    BY <1>f, <2>1, <2>3 DEF InsertLoop
<1>2. \A k \in 0 .. n - 1 : s(k + 1) \in SeqNumber
  <2> SUFFICES ASSUME NEW k \in 0 .. n - 1 PROVE s(k + 1) \in SeqNumber
    OBVIOUS
  <2>1. k + 1 \in 1 .. n
    BY <1>1
  <2> QED
    BY <2>1, ElementOfSeq, SeqTypes DEF Numbered
<1> HIDE DEF s
<1> DEFINE T(k) == /\ PcmType(f[k]) /\ TailIn(f[k])
                   /\ k > 0 => DOMAIN f[k].paks # {}
           A == {k \in 0 .. n : T(k)}
<1>3. \A k \in 0 .. n - 1 :
         PcmType(f[k]) => /\ PcmType(f[k + 1])
                          /\ Added(f[k + 1], f[k], s(k + 1), check)
  BY <1>1, <1>2, InsertOneType, InsertOneAdds
<1>4. \A m \in 0 .. n : T(m)
  <2> SUFFICES ASSUME NEW m \in 0 .. n PROVE T(m)
    OBVIOUS
  <2> DEFINE B == {k \in 0 .. m : T(k)}
  <2>1. m \in Nat /\ 0 \in B
    <3>1. m \in Nat /\ T(0)
      BY <1>1
    <3> HIDE DEF T
    <3> QED
      BY <3>1
  <2>2. ASSUME NEW k \in 0 .. m - 1, k \in B PROVE k + 1 \in B
    <3>1. k \in 0 .. n - 1 /\ T(k) /\ k + 1 \in 0 .. m
      BY <1>1, <2>2
    <3>2. PcmType(f[k + 1]) /\ Added(f[k + 1], f[k], s(k + 1), check)
      BY <1>3, <3>1
    <3>3. TailIn(f[k + 1])
      BY <1>1, <1>2, <3>1, InsertOneOrder
    <3>4. DOMAIN f[k + 1].paks # {}
      BY <3>2 DEF Added
    <3>5. T(k + 1)
      BY <3>2, <3>3, <3>4
    <3> HIDE DEF T
    <3> QED
      BY <3>1, <3>5
  <2> HIDE DEF B, T
  <2>3. m \in B
    BY <2>1, <2>2, BoundedInduction
  <2> QED
    BY <2>3 DEF B
<1> DEFINE D(k) == DOMAIN f[n - k].paks \subseteq DOMAIN r.paks
<1>5. \A m \in 0 .. n : D(m)
  <2> SUFFICES ASSUME NEW m \in 0 .. n PROVE D(m)
    OBVIOUS
  <2> DEFINE B == {k \in 0 .. m : D(k)}
  <2>1. m \in Nat /\ 0 \in B
    <3>1. m \in Nat /\ n - 0 = n
      BY <1>1
    <3>2. D(0)
      BY <1>1, <3>1
    <3> HIDE DEF D
    <3> QED
      BY <3>1, <3>2
  <2>2. ASSUME NEW k \in 0 .. m - 1, k \in B PROVE k + 1 \in B
    <3> DEFINE i == n - (k + 1)
    <3>1. D(k) /\ k + 1 \in 0 .. m
      BY <1>1, <2>2
    <3>2. i \in 0 .. n - 1 /\ i + 1 = n - k /\ i \in 0 .. n
      BY <1>1, <2>2
    <3> HIDE DEF i
    <3>3. Added(f[i + 1], f[i], s(i + 1), check)
      BY <1>3, <1>4, <3>2
    <3>4. DOMAIN f[i].paks \subseteq DOMAIN f[i + 1].paks
      BY <3>3 DEF Added
    <3>5. DOMAIN f[i + 1].paks \subseteq DOMAIN r.paks
      BY <3>1, <3>2
    <3>6. D(k + 1)
      BY <3>4, <3>5 DEF i
    <3> HIDE DEF D
    <3> QED
      BY <3>1, <3>6
  <2> HIDE DEF B, D
  <2>3. m \in B
    BY <2>1, <2>2, BoundedInduction
  <2> QED
    BY <2>3 DEF B
<1>6. \A k \in 0 .. n : DOMAIN f[k].paks \subseteq DOMAIN r.paks
  <2> SUFFICES ASSUME NEW k \in 0 .. n
               PROVE  DOMAIN f[k].paks \subseteq DOMAIN r.paks
    OBVIOUS
  <2>1. n - k \in 0 .. n /\ n - (n - k) = k
    BY <1>1
  <2>2. D(n - k)
    BY <1>5, <2>1
  <2> QED
    BY <2>1, <2>2
<1> HIDE DEF D
<1> DEFINE C == {k \in 0 .. n : CandOrder(f[k]) /\ SameMarks(f[k], p)}
<1>7. 0 \in C
  BY <1>1 DEF SameMarks
<1>8. ASSUME NEW k \in 0 .. n - 1, k \in C PROVE k + 1 \in C
  <2>1. k \in 0 .. n /\ k + 1 \in 0 .. n /\ k \in Nat
    BY <1>1
  <2>2. CandOrder(f[k]) /\ SameMarks(f[k], p)
    BY <1>8
  <2>3. PcmType(f[k]) /\ TailIn(f[k]) /\ (k > 0 => DOMAIN f[k].paks # {})
    BY <1>4, <2>1
  <2>4. ASSUME s(k + 1) \in DOMAIN f[k + 1].paks,
               IsFirst(f[k]) \/ IsHigh(f[k], s(k + 1))
        PROVE  Pos(f[k].tail) <= Pos(s(k + 1))
    <3>1. CASE IsFirst(f[k])
      <4>1. DOMAIN f[k].paks = {}
        BY <2>3, <3>1, NumPaksZero DEF IsFirst
      <4>2. k = 0
        BY <2>1, <2>3, <4>1
      <4>3. f[k] = p /\ s(k + 1) = Numbered(seqs, bump, 1)
        BY <1>1, <4>2 DEF s
      <4> QED
        BY <4>1, <4>3
    <3>2. CASE ~IsFirst(f[k])
      <4>1. DOMAIN f[k].paks # {}
        BY <2>3, <3>2, NumPaksZero DEF IsFirst
      <4>2. SeqLt(f[k].tail, s(k + 1))
        BY <2>4, <3>2 DEF IsHigh
      <4>3. f[k].tail \in DOMAIN r.paks
        BY <1>6, <2>1, <2>3, <4>1 DEF TailIn
      <4>4. s(k + 1) \in DOMAIN r.paks
        BY <1>6, <2>1, <2>4
      <4> QED
        BY <4>2, <4>3, <4>4
    <3> QED
      BY <3>1, <3>2
  <2>5. f[k + 1] = InsertOne(f[k], s(k + 1), type, check, t)
        /\ s(k + 1) \in SeqNumber
    BY <1>1, <1>2
  <2>6. CandOrder(f[k + 1]) /\ SameMarks(f[k + 1], f[k])
    BY <2>2, <2>3, <2>4, <2>5, InsertOneOrder
  <2>7. SameMarks(f[k + 1], p)
    BY <2>2, <2>6 DEF SameMarks
  <2> QED
    BY <2>1, <2>6, <2>7
<1> HIDE DEF C
<1>9. n \in C
  BY <1>1, <1>7, <1>8, BoundedInduction
<1> QED
  BY <1>1, <1>9 DEF C

\* Numbers within a ring of one that is a ring away from both ends of the
\* places: the places tell their order.
LEMMA PosRing ==
    ASSUME NEW r, Views(r), Close(r), NEW c \in DOMAIN r.paks,
           RingSize <= Pos(c), Pos(c) < SeqSpace - RingSize,
           NEW x \in DOMAIN r.paks, NEW y \in DOMAIN r.paks, SeqLt(x, y)
    PROVE  Pos(x) <= Pos(y)
<1> DEFINE h == r.head
           d(z) == SeqDist(h, z)
<1>1. /\ h \in SeqNumber /\ Base \in SeqNumber
      /\ DOMAIN r.paks \subseteq SeqNumber
      /\ \A z \in DOMAIN r.paks : d(z) <= SeqDist(h, r.tail)
      /\ SeqDist(h, r.tail) < RingSize /\ r.tail \in SeqNumber
  BY PosFacts DEF Views, PcmType, Ends, Close
<1>2. /\ SeqSpace \in Nat /\ RingSize \in Nat /\ Half \in Nat
      /\ RingSize < Half /\ 2 * RingSize < SeqSpace
  BY RoomFacts DEF Half
<1>3. \A z \in DOMAIN r.paks : d(z) \in Nat /\ d(z) < RingSize
  <2>1. SeqDist(h, r.tail) \in Nat
    BY <1>1, DistNat
  <2>2. \A z \in DOMAIN r.paks : d(z) \in Nat
    BY <1>1, DistNat
  <2> HIDE DEF h, d
  <2>3. \A z \in DOMAIN r.paks : d(z) <= SeqDist(h, r.tail)
    BY <1>1
  <2> QED
    BY <1>1, <1>2, <2>1, <2>2, <2>3
<1>4. Pos(h) = Pos(c) - d(c) /\ Pos(c) \in Nat
  <2>1. c \in SeqNumber /\ Pos(c) \in Nat /\ d(c) \in Nat /\ d(c) < RingSize
    BY <1>1, <1>3, PosFacts
  <2>2. d(c) <= Pos(c)
    BY <1>2, <2>1
  <2> QED
    BY <1>1, <2>1, <2>2, DistSum DEF Pos
<1>5. Pos(h) \in Nat /\ Pos(h) + RingSize < SeqSpace
  <2>1. d(c) \in Nat /\ d(c) < RingSize
    BY <1>3
  <2> HIDE DEF d, h
  <2> QED
    BY <1>2, <1>4, <2>1
<1>6. ASSUME NEW z \in DOMAIN r.paks PROVE Pos(z) = Pos(h) + d(z)
  <2>1. z \in SeqNumber /\ d(z) \in Nat /\ d(z) < RingSize
    BY <1>1, <1>3
  <2>2. Pos(h) + d(z) < SeqSpace
    BY <1>2, <1>5, <2>1
  <2> QED
    BY <1>1, <2>1, <2>2, DistSum DEF Pos
<1>7. d(x) < d(y)
  <2>1. /\ x \in SeqNumber /\ y \in SeqNumber
        /\ d(x) < SeqSpace \div 2 /\ d(y) < SeqSpace \div 2
    <3>1. /\ d(x) \in Nat /\ d(x) < RingSize /\ d(y) \in Nat /\ d(y) < RingSize
      BY <1>3
    <3> HIDE DEF d
    <3> QED
      BY <1>1, <1>2, <3>1 DEF Half
  <2> QED
    BY <1>1, <2>1, DistOrder
<1>8. Pos(x) = Pos(h) + d(x) /\ Pos(y) = Pos(h) + d(y)
      /\ d(x) \in Nat /\ d(y) \in Nat
  BY <1>3, <1>6
<1> HIDE DEF d, h
<1> QED
  BY <1>5, <1>7, <1>8

\* Where the numbers start anew they start after the old tail.
LEMMA BumpedPos ==
    ASSUME NEW l \in SeqNumber, Pos(l) < Half, RingSize <= Pos(l),
           NEW s \in SeqNumber,
           RingSize <= SeqDist(l, s), SeqDist(l, s) <= Half - RingSize
    PROVE  /\ Pos(l) <= Pos(s) /\ RingSize <= Pos(s)
           /\ Pos(s) < SeqSpace - RingSize
<1>1. /\ SeqSpace \in Nat /\ RingSize \in Nat /\ Half \in Nat
      /\ 2 * Half <= SeqSpace
  BY RoomFacts DEF Half
<1>2. Base \in SeqNumber /\ Pos(l) \in Nat /\ SeqDist(l, s) \in Nat
  BY PosFacts, DistNat
<1>3. Pos(s) = Pos(l) + SeqDist(l, s)
  <2>1. Pos(l) + SeqDist(l, s) < SeqSpace
    BY <1>1, <1>2
  <2> QED
    BY <1>2, <2>1, DistSum DEF Pos
<1> QED
  BY <1>1, <1>2, <1>3

\* The first number of all.
LEMMA FirstPos ==
    ASSUME NEW s \in RtpNumber
    PROVE  /\ Pos(0) <= Pos(s) /\ RingSize <= Pos(s)
           /\ Pos(s) < SeqSpace - RingSize
<1>1. /\ SeqSpace \in Nat /\ RingSize \in Nat /\ RtpMod \in Nat
      /\ 2 * RingSize <= RtpMod /\ 8 * RtpMod <= SeqSpace /\ RtpMod > 0
  <2>1. 2 * RingSize <= RtpMod
    BY PcmAssumption
  <2> QED
    BY <2>1, RoomFacts, SeqNumAssumption
<1>2. s \in SeqNumber /\ s \in Nat /\ s < RtpMod /\ 0 \in SeqNumber
  BY <1>1 DEF SeqNumber, RtpNumber
<1>3. SeqDist(0, s) = s
  BY <1>1, <1>2, DistValue
<1>4. Pos(0) = RingSize /\ Base \in SeqNumber
  BY PosFacts
<1>5. Pos(s) = RingSize + s
  <2>1. SeqDist(Base, 0) + SeqDist(0, s) < SeqSpace
    BY <1>1, <1>2, <1>3, <1>4 DEF Pos
  <2> QED
    BY <1>2, <1>3, <1>4, <2>1, DistSum DEF Pos
<1> QED
  BY <1>1, <1>2, <1>4, <1>5

LEMMA FirstNearest ==
    ASSUME NEW r \in RtpNumber
    PROVE  NearestToRtp(RtpMod \div 2, r) = r
<1> DEFINE H == RtpMod \div 2
           d == (r - H) % RtpMod
<1>1. /\ SeqSpace \in Nat /\ RtpMod \in Nat /\ RtpMod > 0 /\ RtpMod <= SeqSpace
      /\ H \in Nat /\ RtpMod = 2 * H
  <2>1. /\ SeqSpace \in Nat /\ RtpMod \in Nat /\ RtpMod > 0 /\ RtpMod % 2 = 0
        /\ 8 * RtpMod <= SeqSpace
    BY SeqNumAssumption
  <2> QED
    BY <2>1
<1>2. r \in Nat /\ r < RtpMod
  BY <1>1 DEF RtpNumber
<1> HIDE DEF H
<1>3. d = IF r >= H THEN r - H ELSE r - H + RtpMod
  <2>1. CASE r >= H
    <3>1. r - H \in 0 .. RtpMod - 1
      BY <1>1, <1>2, <2>1
    <3>2. \A a \in Int : \A n \in Nat : a \in 0 .. n - 1 => a % n = a
      OBVIOUS
    <3> QED
      BY <1>1, <2>1, <3>1, <3>2
  <2>2. CASE r < H
    <3>1. r - H + RtpMod \in 0 .. RtpMod - 1
      BY <1>1, <1>2, <2>2
    <3>2. \A a \in Int : \A n \in Nat : a + n \in 0 .. n - 1 => a % n = a + n
      OBVIOUS
    <3> QED
      BY <1>1, <1>2, <2>2, <3>1, <3>2
  <2> QED
    BY <1>1, <1>2, <2>1, <2>2
<1>4. NearestToRtp(H, r) = SeqAdd(H, IF d >= H THEN d - RtpMod ELSE d)
  BY DEF NearestToRtp, H
<1> HIDE DEF d
<1>5. H + (IF d >= H THEN d - RtpMod ELSE d) = r
  BY <1>1, <1>2, <1>3
<1>6. NearestToRtp(H, r) = r % SeqSpace
  BY <1>4, <1>5 DEF SeqAdd
<1>7. r \in 0 .. SeqSpace - 1
  BY <1>1, <1>2
<1>8. \A a \in Int : \A n \in Nat : a \in 0 .. n - 1 => a % n = a
  OBVIOUS
<1>9. r % SeqSpace = r
  BY <1>1, <1>2, <1>7, <1>8
<1> QED
  BY <1>6, <1>9 DEF H

\* A vector keeps the order of tail and candidates, wherever its numbers start.
LEMMA InsertPacketsCands ==
    ASSUME NEW p, Views(p), CandOrder(p), Pos(p.tail) < Half, ~p.underrunDis,
           NEW seqs \in Seq(SeqNumber), Len(seqs) > 0,
           Len(seqs) < RingSize, NEW type, type \in PakTypes,
           NEW contig, NEW t \in Times,
           NEW r, r = InsertPackets(p, seqs, type, contig, t), Views(r), Close(r),
           RingSize <= SeqDist(p.tail, BumpSeq(seqs[1])),
           SeqDist(p.tail, BumpSeq(seqs[1])) <= Half - RingSize,
           DOMAIN p.paks = {} /\ ~p.lastValid
             => p.tail = 0 /\ seqs[1] \in RtpNumber
    PROVE  CandOrder(r) /\ SameMarks(r, p) /\ DOMAIN r.paks # {}
<1> DEFINE over  == NumPaks(p) + Len(seqs) >= RingSize
           p1    == IF over THEN Flush(p) ELSE p
           under == NumPaks(p) = 0 /\ p1.lastValid /\ ~p.underrunDis
           p2    == IF under THEN OutpReset(p1, FALSE) ELSE p1
           range == IF contig THEN CheckRange(p2, seqs[1], seqs[Len(seqs)])
                    ELSE "SOME"
           check == range = "SOME"
           bump  == over \/ under
           u     == InsertAll(p2, seqs, type, check, bump, t)
           first == Numbered(seqs, bump, 1)
           Same(x, y) == /\ x.tail = y.tail /\ x.lastReq = y.lastReq
                         /\ x.highestEr = y.highestEr /\ x.cands = y.cands
                         /\ x.srcStart = y.srcStart
<1>0. PcmType(p) /\ p.tail \in SeqNumber
  BY DEF Views, PcmType
<1>1. r = IF range = "ALL" THEN p2 ELSE BurstCheck(u)
  BY DEF InsertPackets
<1>2. /\ PcmType(p1) /\ Same(p1, p) /\ TailIn(p1)
      /\ over => DOMAIN p1.paks = {}
      /\ ~over => p1 = p
  <2>1. DOMAIN p = PcmFields
    BY <1>0 DEF PcmType
  <2>2. Same(Flush(p), p)
    BY <2>1 DEF Flush, OutpReset, PcmFields
  <2>3. PcmType(Flush(p)) /\ DOMAIN Flush(p).paks = {}
    BY ResetViews DEF Views
  <2>4. TailIn(p) /\ Same(p, p)
    BY DEF TailIn, Views, Ends
  <2> HIDE DEF Same, over
  <2> QED
    BY <1>0, <2>2, <2>3, <2>4 DEF TailIn
<1>3. /\ PcmType(p2) /\ Same(p2, p1) /\ DOMAIN p2.paks = DOMAIN p1.paks
      /\ TailIn(p2)
  <2>1. DOMAIN p1 = PcmFields
    BY <1>2 DEF PcmType
  <2> HIDE DEF p1, under
  <2>2. /\ Same(OutpReset(p1, FALSE), p1)
        /\ OutpReset(p1, FALSE).paks = p1.paks
    BY <2>1 DEF OutpReset, PcmFields
  <2>3. PcmType(OutpReset(p1, FALSE))
    BY <1>2, ResetType
  <2>4. Same(p1, p1)
    OBVIOUS
  <2>5. p2 \in {p1, OutpReset(p1, FALSE)}
    OBVIOUS
  <2>6. PcmType(p2) /\ Same(p2, p1) /\ DOMAIN p2.paks = DOMAIN p1.paks
    <3> HIDE DEF Same, p2
    <3> QED
      BY <1>2, <2>2, <2>3, <2>4, <2>5
  <2> HIDE DEF p2
  <2> QED
    BY <1>2, <2>6 DEF TailIn
<1>4. NumPaks(p) = 0 <=> DOMAIN p.paks = {}
  BY <1>0, NumPaksZero
<1>5. DOMAIN p2.paks = {} /\ ~bump
        => p.tail = 0 /\ seqs[1] \in RtpNumber
  <2> SUFFICES ASSUME DOMAIN p2.paks = {}, ~bump
               PROVE  p.tail = 0 /\ seqs[1] \in RtpNumber
    OBVIOUS
  <2>1. ~over /\ ~under
    OBVIOUS
  <2>2. p1 = p /\ DOMAIN p.paks = {}
    BY <1>2, <1>3, <2>1
  <2>3. ~p.lastValid
    BY <1>4, <2>1, <2>2
  <2> QED
    BY <2>2, <2>3
<1> HIDE DEF over, p1, under, p2
<1>6. CandOrder(p2) /\ SameMarks(p2, p) /\ p2.tail = p.tail
  BY <1>2, <1>3 DEF CandOrder, SameMarks
<1> HIDE DEF Same
<1>7. first \in SeqNumber
  <2>1. 1 \in 1 .. Len(seqs)
    OBVIOUS
  <2>2. seqs[1] \in SeqNumber
    BY <2>1, ElementOfSeq
  <2> QED
    BY <2>2, SeqTypes DEF Numbered
<1>8. DOMAIN p2.paks = {} => /\ Pos(p.tail) <= Pos(first)
                             /\ RingSize <= Pos(first)
                             /\ Pos(first) < SeqSpace - RingSize
  <2>1. CASE bump
    <3>1. first = BumpSeq(seqs[1])
      BY <2>1 DEF Numbered
    <3>2. RingSize <= Pos(p.tail)
      BY DEF CandOrder
    <3> HIDE DEF first, bump
    <3> QED
      BY <1>0, <1>7, <3>1, <3>2, BumpedPos
  <2>2. CASE ~bump
    <3>1. first = seqs[1]
      BY <2>2 DEF Numbered
    <3> HIDE DEF first
    <3> QED
      BY <1>5, <2>2, <3>1, FirstPos
  <2> QED
    BY <2>1, <2>2
<1> HIDE DEF bump, first
<1>9. CASE range = "ALL"
  <2>1. r = p2
    BY <1>1, <1>9
  <2>2. contig /\ CheckRange(p2, seqs[1], seqs[Len(seqs)]) = "ALL"
    BY <1>9
  <2>3. NumPaks(p2) # 0
    BY <2>2 DEF CheckRange
  <2>4. DOMAIN p2.paks # {}
    BY <1>3, <2>3, NumPaksZero
  <2> QED
    BY <1>6, <2>1, <2>4
<1>10. CASE range # "ALL"
  <2>1. r = BurstCheck(u)
    BY <1>1, <1>10
  <2> HIDE DEF check, range
  <2>2. PcmType(u) /\ AllAdded(u, p2, seqs, check, bump)
    BY <1>3, InsertAllType, InsertAllAdds
  <2>3. /\ r.paks = u.paks /\ r.tail = u.tail /\ r.lastReq = u.lastReq
        /\ r.highestEr = u.highestEr /\ r.cands = u.cands
        /\ r.srcStart = u.srcStart
    <3>1. DOMAIN u = PcmFields
      BY <2>2 DEF PcmType
    <3> HIDE DEF u
    <3> QED
      BY <2>1, <3>1 DEF BurstCheck, PcmFields
  <2>4. /\ DOMAIN p2.paks \subseteq DOMAIN u.paks
        /\ DOMAIN p2.paks = {} => first \in DOMAIN u.paks
    BY <2>2 DEF AllAdded, first
  <2>5. \E c \in DOMAIN r.paks : RingSize <= Pos(c) /\ Pos(c) < SeqSpace - RingSize
    <3>1. CASE DOMAIN p2.paks = {}
      BY <1>8, <2>3, <2>4, <3>1
    <3>2. CASE DOMAIN p2.paks # {}
      <4>1. p.tail \in DOMAIN r.paks
        BY <1>3, <1>6, <2>3, <2>4, <3>2 DEF TailIn
      <4>2. /\ Pos(p.tail) \in Nat /\ RingSize \in Nat /\ SeqSpace \in Nat
            /\ Half \in Nat /\ 2 * Half <= SeqSpace /\ RingSize <= Half
        BY <1>0, PosFacts, RoomFacts DEF Half
      <4>3. RingSize <= Pos(p.tail) /\ Pos(p.tail) < SeqSpace - RingSize
        BY <4>2 DEF CandOrder
      <4> QED
        BY <4>1, <4>3
    <3> QED
      BY <3>1, <3>2
  <2>6. \A x, y \in DOMAIN r.paks : SeqLt(x, y) => Pos(x) <= Pos(y)
    BY <2>5, PosRing
  <2>7. \A x, y \in DOMAIN u.paks : SeqLt(x, y) => Pos(x) <= Pos(y)
    BY <2>3, <2>6
  <2>8. DOMAIN p2.paks = {} => Pos(p2.tail) <= Pos(Numbered(seqs, bump, 1))
    BY <1>6, <1>8 DEF first
  <2>9. CandOrder(u) /\ SameMarks(u, p2)
    <3> DEFINE w == u
    <3>1. w = InsertAll(p2, seqs, type, check, bump, t)
      OBVIOUS
    <3> HIDE DEF w
    <3>2. \A x, y \in DOMAIN w.paks : SeqLt(x, y) => Pos(x) <= Pos(y)
      BY <2>7 DEF w
    <3>3. CandOrder(w) /\ SameMarks(w, p2)
      BY <1>3, <1>6, <2>8, <3>1, <3>2, InsertAllOrder
    <3> QED
      BY <3>3 DEF w
  <2> HIDE DEF u
  <2>10. CandOrder(r)
    BY <2>3, <2>9 DEF CandOrder
  <2>11. SameMarks(r, p)
    BY <1>6, <2>3, <2>9 DEF SameMarks
  <2>12. DOMAIN r.paks # {}
    BY <2>5
  <2> QED
    BY <2>10, <2>11, <2>12
<1> QED
  BY <1>9, <1>10

\* Passes of the scheduler leave tail and candidates alone.
SameCands(q, p) ==
    /\ SameEnd(q, p) /\ SameMarks(q, p)
    /\ q.cands = p.cands /\ q.highestEr = p.highestEr /\ q.srcStart = p.srcStart

LEMMA SameCandsOrder ==
    ASSUME NEW p, NEW q, CandOrder(p), SameCands(q, p)
    PROVE  CandOrder(q)
  BY DEF CandOrder, SameCands, SameEnd, SameMarks

LEMMA PassSameCands ==
    ASSUME NEW p, DOMAIN p = PcmFields, NEW t
    PROVE  SameCands(Pass(p, t), p) /\ DOMAIN Pass(p, t) = PcmFields
<1> DEFINE h == HeadNotInFuture(p, t)
           q == [h EXCEPT !.pend = None]
           r == RemoveHead(q)
           aborted == r.postAbort /\ ~(q.primRcvd /\ SeqLe(q.firstPrim, q.head))
           u == [r EXCEPT !.pend = q.head, !.lastPak = q.head,
                          !.lastValid = TRUE, !.postAbort = aborted]
<1> DEFINE Same(x, y) ==
             /\ x.tail = y.tail /\ x.lastRx = y.lastRx /\ x.lastReq = y.lastReq
             /\ x.cands = y.cands /\ x.highestEr = y.highestEr
             /\ x.srcStart = y.srcStart
             /\ DOMAIN x = PcmFields
<1>1. Same(h, p)
  BY DEF HeadNotInFuture, PcmFields
<1>2. Same(q, h)
  <2>1. DOMAIN h = PcmFields
    BY <1>1
  <2> HIDE DEF h
  <2> QED
    BY <2>1 DEF PcmFields
<1>3. Same(r, q)
  <2>1. DOMAIN q = PcmFields
    BY <1>2
  <2> HIDE DEF q
  <2> QED
    BY <2>1 DEF RemoveHead, PcmFields
<1>4. Same(u, r)
  <2>1. DOMAIN r = PcmFields
    BY <1>3
  <2> HIDE DEF r, q
  <2> HIDE DEF aborted
  <2> QED
    BY <2>1 DEF PcmFields
<1>5. Pass(p, t) \in {q, u}
  BY DEF Pass
<1> HIDE DEF h, q, r, u
<1>6. Same(q, p) /\ Same(u, p)
  BY <1>1, <1>2, <1>3, <1>4
<1>7. Same(Pass(p, t), p)
  <2> HIDE DEF Same
  <2> QED
    BY <1>5, <1>6
<1> QED
  BY <1>7 DEF SameCands, SameEnd, SameMarks

LEMMA PassesSameCands ==
    ASSUME NEW p, DOMAIN p = PcmFields, NEW n \in Nat, NEW t
    PROVE  SameCands(Passes(p, n, t), p)
<1>1. PICK f : /\ f[0] = p
               /\ \A i \in 1 .. n : f[i] = Pass(f[i - 1], t)
               /\ f[n] = Passes(p, n, t)
  BY PassesFold
<1> DEFINE In(i) == DOMAIN f[i] = PcmFields /\ SameCands(f[i], p)
           A == {i \in 0 .. n : In(i)}
<1>2. 0 \in A
  <2>1. SameCands(p, p)
    BY DEF SameCands, SameEnd, SameMarks
  <2>2. In(0)
    BY <1>1, <2>1
  <2> QED
    BY <2>2
<1>3. ASSUME NEW k \in 0 .. n - 1, k \in A
      PROVE  k + 1 \in A
  <2>1. k + 1 \in 1 .. n /\ (k + 1) - 1 = k
    OBVIOUS
  <2>2. f[k + 1] = Pass(f[k], t) /\ In(k)
    BY <1>1, <1>3, <2>1
  <2>3. SameCands(f[k + 1], f[k]) /\ DOMAIN f[k + 1] = PcmFields
    BY <2>2, PassSameCands
  <2>4. SameCands(f[k + 1], p)
    BY <2>2, <2>3 DEF SameCands, SameEnd, SameMarks
  <2>5. In(k + 1)
    BY <2>3, <2>4
  <2> HIDE DEF In
  <2> QED
    BY <2>1, <2>5
<1> HIDE DEF A
<1>4. n \in A
  BY <1>2, <1>3, BoundedInduction
<1> QED
  BY <1>1, <1>4 DEF A

-----------------------------------------------------------------------------
\* A cache that has neither received nor handed on anything since it began.
Fresh(p) ==
    DOMAIN p.paks = {} /\ ~p.lastValid => p.tail = 0

PcmOrder(p) == CandOrder(p) /\ Fresh(p) /\ ~p.underrunDis

\* What the theorems on gap reports assume of a channel that does not change
\* rapidly, for as long as its clock is not set back: less than half of the
\* space has been used, and what is received is numbered no more than two RTP
\* generations before the tail, and not almost half the space after it.  Repairs
\* answer requests, so that the first packet to be numbered is a primary one.
NearAfter(l, x) == SeqDist(SeqAdd(l, -(2 * RtpMod)), x) < Half - 2 * RtpMod

Young ==
    ~pcm.rcc /\ jumps = 0
        => /\ Pos(pcm.tail) < Half - 1 /\ NearAfter(pcm.tail, pcm.lastRx)
           /\ DOMAIN pcm.paks = {} /\ ~pcm.lastValid
                => pcm.lastRx = RtpMod \div 2

OrderInv ==
    /\ back => jumps > 0
    /\ ~pcm.rcc /\ jumps = 0 => PcmOrder(pcm)

LEMMA PcmInitOrder == PcmInit => OrderInv
<1> SUFFICES ASSUME PcmInit PROVE OrderInv
  OBVIOUS
<1>1. /\ pcm.tail = 0 /\ pcm.lastReq = 0 /\ pcm.highestEr = 0
      /\ pcm.cands = <<>> /\ pcm.srcStart = None
      /\ pcm.underrunDis = pcm.rcc /\ ~back
  BY DEF PcmInit
<1>2. Pos(0) = RingSize /\ RingSize \in Nat
  BY PosFacts, RoomFacts
<1>3. CandsBetween(<<>>, 0, 0)
  BY DEF CandsBetween
<1> QED
  BY <1>1, <1>2, <1>3 DEF OrderInv, PcmOrder, Fresh, CandOrder

\* What a step of the cache does to what was reported.
Unasked == pcm'.lastReq = pcm.lastReq /\ pcm'.rcc = pcm.rcc

\* The cache keeps the order until a rapid channel change or a clock set back,
\* and reports nothing by itself.
LEMMA NextOrder ==
    ASSUME PcmInv, Views(pcm), WithinRing, WithinRing', Young, OrderInv, PcmNext
    PROVE  OrderInv' /\ (~pcm.rcc /\ jumps' = 0 => Unasked) /\ pcm'.rcc = pcm.rcc
           /\ (jumps' = 0 => jumps = 0)
<1> DEFINE Good == /\ OrderInv' /\ (~pcm.rcc /\ jumps' = 0 => Unasked)
                   /\ pcm'.rcc = pcm.rcc
                   /\ (jumps' = 0 => jumps = 0)
<1> SUFFICES Good
  OBVIOUS
<1>0. /\ PcmType(pcm) /\ DOMAIN pcm = PcmFields /\ now \in Times
      /\ Close(pcm) /\ pcm.lastRx \in SeqNumber /\ pcm.tail \in SeqNumber
      /\ jumps \in Nat
  BY DEF PcmInv, PcmType, WithinRing
<1>v. Views(pcm')
  BY PcmNextViews
<1>k. ASSUME jumps' = jumps, back' = back, pcm'.rcc = pcm.rcc,
             ~pcm.rcc /\ jumps = 0 => PcmOrder(pcm') /\ pcm'.lastReq = pcm.lastReq
      PROVE  Good
  BY <1>k DEF OrderInv, Unasked
<1> HIDE DEF Good
<1>i. ASSUME NEW p, PcmType(p), SameViews(p, pcm), SameOutput(p, pcm),
             SameMarks(p, pcm), p.tail = pcm.tail, p.cands = pcm.cands,
             p.highestEr = pcm.highestEr, p.srcStart = pcm.srcStart,
             NEW rtp \in RtpNumber,
             NEW seqs \in Seq(SeqNumber), Len(seqs) > 0,
             Len(seqs) < RingSize, seqs[1] = NearestToRtp(pcm.lastRx, rtp),
             NEW type, type \in PakTypes, NEW contig,
             pcm' = InsertPackets(p, seqs, type, contig, now),
             jumps' = jumps, back' = back
      PROVE  Good
  <2>1. Views(p)
    BY <1>i, ViewsFrame
  <2>2. pcm'.rcc = pcm.rcc
    BY <1>0, <1>i, InsertPacketsFlags DEF SameOutput
  <2>3. ASSUME ~pcm.rcc, jumps = 0
        PROVE  PcmOrder(pcm') /\ pcm'.lastReq = pcm.lastReq
    <3>1. PcmOrder(pcm)
      BY <2>3 DEF OrderInv
    <3>2. CandOrder(p) /\ ~p.underrunDis /\ p.lastReq = pcm.lastReq
      BY <1>i, <3>1 DEF PcmOrder, CandOrder, SameOutput, SameMarks
    <3>3. Pos(p.tail) < Half - 1 /\ NearAfter(p.tail, pcm.lastRx)
      BY <1>i, <2>3 DEF Young
    <3>4. DOMAIN p.paks = {} /\ ~p.lastValid
            => pcm.lastRx = RtpMod \div 2 /\ p.tail = 0
      BY <1>i, <2>3, <3>1 DEF PcmOrder, Fresh, Young, SameViews, SameOutput
    <3> DEFINE r == InsertPackets(p, seqs, type, contig, now)
    <3>5. r = pcm' /\ r = InsertPackets(p, seqs, type, contig, now)
      BY <1>i
    <3> HIDE DEF r
    <3>6. Views(r) /\ Close(r)
      BY <1>v, <3>5 DEF WithinRing
    <3>7. PcmOrder(r) /\ r.lastReq = p.lastReq
      <4>1. /\ Pos(p.tail) < Half /\ RingSize <= SeqDist(p.tail, BumpSeq(seqs[1]))
            /\ SeqDist(p.tail, BumpSeq(seqs[1])) <= Half - RingSize
        <5>1. Half \in Nat /\ Pos(p.tail) \in Nat /\ p.tail \in SeqNumber
          BY <1>0, <1>i, PosFacts, RoomFacts DEF Half
        <5> QED
          BY <1>0, <1>i, <3>3, <5>1, NumberedNear DEF NearAfter
      <4>2. DOMAIN p.paks = {} /\ ~p.lastValid
              => p.tail = 0 /\ seqs[1] \in RtpNumber
        BY <1>i, <3>4, FirstNearest
      <4>3. CandOrder(r) /\ SameMarks(r, p) /\ DOMAIN r.paks # {}
        BY <1>0, <1>i, <2>1, <3>2, <3>5, <3>6, <4>1, <4>2, InsertPacketsCands
      <4>4. r.underrunDis = p.underrunDis
        BY <1>0, <1>i, <3>5, InsertPacketsFlags
      <4> QED
        BY <3>2, <4>3, <4>4 DEF PcmOrder, Fresh, SameMarks
    <3> QED
      BY <3>2, <3>5, <3>7
  <2> QED
    BY <1>i, <1>k, <2>2, <2>3
<1>1. ASSUME NEW v \in Vectors, RxPrimary(v)
      PROVE  Good
  <2> DEFINE seqs == NumberPaks(pcm.lastRx, v)
             contig == \A i \in 2 .. Len(seqs) : seqs[i] = NextSeq(seqs[i - 1])
             p == [pcm EXCEPT !.lastRx = Last(seqs)]
  <2>1. v \in Seq(RtpNumber) /\ v # <<>> /\ Len(v) < RingSize
    BY PcmAssumption
  <2>2. /\ seqs \in Seq(SeqNumber) /\ Len(seqs) = Len(v)
        /\ seqs[1] = NearestToRtp(pcm.lastRx, v[1])
    BY <1>0, <2>1, NumberPaksType, NumberPaksFirst
  <2>3. pcm' = InsertPackets(p, seqs, "PRIMARY", contig, now)
        /\ jumps' = jumps /\ back' = back
    BY <1>1 DEF RxPrimary
  <2> HIDE DEF seqs, contig
  <2>4. Len(seqs) > 0 /\ Len(seqs) < RingSize
    BY <2>1, <2>2, EmptySeq
  <2>5. Last(seqs) \in SeqNumber
    <3>1. Len(seqs) \in 1 .. Len(seqs)
      BY <2>2, <2>4
    <3> QED
      BY <2>2, <3>1, ElementOfSeq DEF Last
  <2>6. PcmType(p) /\ SameViews(p, pcm) /\ SameOutput(p, pcm) /\ SameMarks(p, pcm)
        /\ p.tail = pcm.tail /\ p.cands = pcm.cands
        /\ p.highestEr = pcm.highestEr /\ p.srcStart = pcm.srcStart
    BY <1>0, <2>5 DEF PcmType, PcmFields, SameViews, SameOutput, SameMarks
  <2> HIDE DEF p
  <2>7. v[1] \in RtpNumber
    <3>1. 1 \in 1 .. Len(v)
      BY <2>2, <2>4
    <3> QED
      BY <2>1, <3>1, ElementOfSeq
  <2>8. "PRIMARY" \in PakTypes
    BY DEF PakTypes
  <2> QED
    BY <2>2, <2>3, <2>4, <2>6, <2>7, <2>8, <1>i
<1>2. ASSUME NEW rtp \in Repairs, RxRepair(rtp)
      PROVE  Good
  <2> DEFINE s == NearestToRtp(pcm.lastRx, rtp)
             p == [pcm EXCEPT !.lastRx = s]
  <2>1. s \in SeqNumber /\ rtp \in RtpNumber
    BY <1>0, NearestType, PcmAssumption
  <2>2. /\ pcm' \in {p, InsertPackets(p, <<s>>, "REPAIR", TRUE, now)}
        /\ jumps' = jumps /\ back' = back
    BY <1>2 DEF RxRepair
  <2>3. s = NearestToRtp(pcm.lastRx, rtp)
    OBVIOUS
  <2> HIDE DEF s
  <2>4. PcmType(p) /\ SameViews(p, pcm) /\ SameOutput(p, pcm) /\ SameMarks(p, pcm)
        /\ p.tail = pcm.tail /\ p.cands = pcm.cands
        /\ p.highestEr = pcm.highestEr /\ p.srcStart = pcm.srcStart
    BY <1>0, <2>1 DEF PcmType, PcmFields, SameViews, SameOutput, SameMarks
  <2> HIDE DEF p
  <2>5. CASE pcm' = InsertPackets(p, <<s>>, "REPAIR", TRUE, now)
    <3>1. "REPAIR" \in PakTypes
      BY DEF PakTypes
    <3> DEFINE one == <<s>>
    <3>2. /\ one \in Seq(SeqNumber) /\ Len(one) > 0 /\ Len(one) < RingSize
          /\ one[1] = s
      <4>1. Len(one) = 1 /\ one \in Seq(SeqNumber) /\ one[1] = s
        BY <2>1
      <4>2. RingSize \in Nat /\ 1 < RingSize
        BY PcmAssumption
      <4> HIDE DEF one
      <4> QED
        BY <4>1, <4>2
    <3>3. pcm' = InsertPackets(p, one, "REPAIR", TRUE, now)
      BY <2>5
    <3> HIDE DEF one
    <3> QED
      BY <2>1, <2>2, <2>3, <2>4, <3>1, <3>2, <3>3, <1>i
  <2>6. CASE pcm' = p
    <3>1. pcm'.rcc = pcm.rcc
      BY <2>4, <2>6 DEF SameOutput
    <3>2. ASSUME ~pcm.rcc, jumps = 0
          PROVE  PcmOrder(p) /\ p.lastReq = pcm.lastReq
      <4>1. PcmOrder(pcm)
        BY <3>2 DEF OrderInv
      <4> QED
        BY <2>4, <4>1 DEF PcmOrder, CandOrder, Fresh, SameViews, SameOutput,
                          SameMarks
    <3> QED
      BY <2>2, <2>6, <3>1, <3>2, <1>k
  <2> QED
    BY <2>2, <2>5, <2>6
<1>3. CASE OschedClockBack
  <2>1. back /\ jumps' = jumps /\ ~back' /\ jumps > 0 /\ jumps' # 0
    BY <1>0, <1>3 DEF OschedClockBack, OrderInv
  <2>2. \A q \in {Flush(pcm), RccAbortPcm(pcm, TRUE)} : q.rcc = pcm.rcc
    BY <1>0 DEF RccAbortPcm, Flush, OutpReset, PcmFields
  <2>3. pcm' \in {Flush(pcm), RccAbortPcm(pcm, TRUE)}
    BY <1>3 DEF OschedClockBack
  <2> QED
    BY <2>1, <2>2, <2>3 DEF OrderInv, Good
<1>4. ASSUME NEW marked \in BOOLEAN, RccAbort(marked)
      PROVE  Good
  <2>1. /\ jumps' = jumps /\ back' = back /\ pcm.rcc /\ pcm'.rcc = pcm.rcc
    BY <1>0, <1>4 DEF RccAbort, RccAbortPcm, Flush, OutpReset, PcmFields
  <2>2. pcm'.rcc = pcm.rcc /\ jumps' = jumps /\ back' = back
    BY <2>1
  <2>3. ~(~pcm.rcc /\ jumps = 0)
    BY <2>1
  <2> QED
    BY <2>2, <2>3, <1>k
<1>5. ASSUME NEW n \in 0 .. MaxPasses, OschedRun(n)
      PROVE  Good
  <2> DEFINE p == IF pcm.checked THEN [pcm EXCEPT !.checked = FALSE]
                  ELSE TimeoutCandidates(pcm, now + 1)
  <2>1. /\ pcm' = Passes(p, n, now + 1) /\ now + 1 \in Times
        /\ jumps' = jumps /\ back' = back
    BY <1>0, <1>5, TimesType DEF OschedRun
  <2>2. /\ PcmType(p) /\ SameViews(p, pcm) /\ SameOutput(p, pcm)
        /\ SameMarks(p, pcm) /\ SameEnd(p, pcm)
        /\ CandOrder(pcm) => CandOrder(p)
    <3>1. LET c == [pcm EXCEPT !.checked = FALSE]
          IN  /\ PcmType(c) /\ SameViews(c, pcm) /\ SameOutput(c, pcm)
              /\ SameCands(c, pcm)
      BY <1>0 DEF PcmType, PcmFields, SameViews, SameOutput, SameCands,
                  SameMarks, SameEnd
    <3>2. LET c == TimeoutCandidates(pcm, now + 1)
          IN  /\ PcmType(c) /\ SameViews(c, pcm) /\ SameOutput(c, pcm)
              /\ SameMarks(c, pcm) /\ SameEnd(c, pcm)
      BY <1>0, TimeoutType DEF TimeoutCandidates, PcmFields, SameViews, SameOutput,
                               SameMarks, SameEnd
    <3>3. CandOrder(pcm) => CandOrder(TimeoutCandidates(pcm, now + 1))
      BY <1>0, TimeoutOrder
    <3>4. CASE pcm.checked
      <4>1. CandOrder(pcm) => CandOrder(p)
        BY <3>1, <3>4, SameCandsOrder
      <4> QED
        BY <3>1, <3>4, <4>1 DEF SameCands
    <3>5. CASE ~pcm.checked
      BY <3>2, <3>3, <3>5
    <3> QED
      BY <3>4, <3>5
  <2> HIDE DEF p
  <2>3. Views(p) /\ Close(p) /\ DOMAIN p.paks = DOMAIN pcm.paks
    BY <1>0, <2>2, ViewsFrame DEF Close, SameViews
  <2>4. n \in Nat
    OBVIOUS
  <2>5. Kept(pcm', p) \/ Moved(pcm', p)
    BY <2>1, <2>3, <2>4, PassesMove
  <2>6. SameCands(pcm', p)
    <3>1. DOMAIN p = PcmFields
      BY <2>2 DEF PcmType
    <3> QED
      BY <2>1, <2>4, <3>1, PassesSameCands
  <2>7. pcm'.rcc = pcm.rcc /\ pcm'.underrunDis = pcm.underrunDis
    BY <2>2, <2>5 DEF Kept, Moved, SameOutput
  <2>8. ASSUME ~pcm.rcc, jumps = 0
        PROVE  PcmOrder(pcm') /\ pcm'.lastReq = pcm.lastReq
    <3>1. PcmOrder(pcm)
      BY <2>8 DEF OrderInv
    <3>2. CandOrder(p)
      BY <2>2, <3>1 DEF PcmOrder
    <3> DEFINE q == pcm'
    <3>3. SameCands(q, p)
      BY <2>6
    <3> HIDE DEF q
    <3>4. CandOrder(q)
      BY <3>2, <3>3, SameCandsOrder
    <3>5. ~q.underrunDis
      BY <2>7, <3>1 DEF q, PcmOrder
    <3>6. q.lastReq = pcm.lastReq
      BY <2>2, <3>1, <3>3 DEF PcmOrder, SameCands, SameMarks
    <3>7. Fresh(q)
      <4>1. CASE Moved(q, p)
        BY <4>1 DEF Moved, Fresh
      <4>2. CASE Kept(q, p)
        <5>1. DOMAIN q.paks = DOMAIN pcm.paks /\ q.lastValid = pcm.lastValid
          BY <2>2, <2>3, <4>2 DEF Kept, SameOutput
        <5>2. q.tail = pcm.tail /\ q.lastRx = pcm.lastRx
          BY <2>2, <3>3 DEF SameCands, SameEnd
        <5> QED
          BY <3>1, <5>1, <5>2 DEF PcmOrder, Fresh
      <4> QED
        BY <2>5, <4>1, <4>2 DEF q
    <3> QED
      BY <3>4, <3>5, <3>6, <3>7 DEF q, PcmOrder
  <2> QED
    BY <2>1, <2>7, <2>8, <1>k
<1>6. CASE RccEnableEr
  <2>1. /\ jumps' = jumps /\ back' = back /\ pcm.rcc /\ pcm'.rcc = pcm.rcc
    BY <1>0, <1>6 DEF RccEnableEr, PcmFields
  <2>2. ~(~pcm.rcc /\ jumps = 0)
    BY <2>1 DEF OrderInv, PcmOrder
  <2>3. pcm'.rcc = pcm.rcc /\ jumps' = jumps /\ back' = back
    BY <2>1
  <2> QED
    BY <2>2, <2>3, <1>k
<1>7. CASE UpdateFecDelay
  <2> DEFINE p == [pcm EXCEPT !.hold = FecHoldTime]
  <2>1. /\ SameViews(p, pcm) /\ SameOutput(p, pcm) /\ PcmType(p)
        /\ SameCands(p, pcm)
    <3>1. FecHoldTime \in 0 .. HoldTime
      BY PcmAssumption
    <3> QED
      BY <1>0, <3>1 DEF SameViews, SameOutput, PcmFields, PcmType, SameCands,
                        SameMarks, SameEnd
  <2>2. pcm' \in {p, TimeoutCandidates(p, Last(p.cands).ts)}
        /\ jumps' = jumps /\ back' = back
    BY <1>7 DEF UpdateFecDelay
  <2> HIDE DEF p
  <2>3. \A t : /\ SameViews(TimeoutCandidates(p, t), p)
               /\ SameOutput(TimeoutCandidates(p, t), p)
    <3>1. DOMAIN p = PcmFields
      BY <2>1 DEF PcmType
    <3> QED
      BY <3>1 DEF TimeoutCandidates, SameViews, SameOutput, PcmFields
  <2>4. SameViews(pcm', pcm) /\ SameOutput(pcm', pcm)
    BY <2>1, <2>2, <2>3 DEF SameViews, SameOutput
  <2>5. ASSUME ~pcm.rcc, jumps = 0
        PROVE  PcmOrder(pcm') /\ pcm'.lastReq = pcm.lastReq
    <3>1. PcmOrder(pcm)
      BY <2>5 DEF OrderInv
    <3>2. CandOrder(p)
      BY <2>1, <3>1, SameCandsOrder DEF PcmOrder
    <3>3. \A t : LET q == TimeoutCandidates(p, t)
                 IN  CandOrder(q) /\ SameMarks(q, p) /\ SameEnd(q, p)
      BY <2>1, <3>2, TimeoutOrder
    <3>4. /\ CandOrder(pcm') /\ SameMarks(pcm', p) /\ SameEnd(pcm', p)
      BY <2>2, <3>2, <3>3 DEF SameMarks, SameEnd
    <3>5. SameMarks(pcm', pcm) /\ SameEnd(pcm', pcm)
      BY <2>1, <3>4 DEF SameCands, SameMarks, SameEnd
    <3>6. Fresh(pcm')
      BY <2>4, <3>1, <3>5 DEF PcmOrder, Fresh, SameViews, SameOutput, SameEnd
    <3> QED
      BY <2>4, <3>1, <3>4, <3>5, <3>6 DEF PcmOrder, SameOutput, SameMarks
  <2>6. pcm'.rcc = pcm.rcc
    BY <2>4 DEF SameOutput
  <2> QED
    BY <2>2, <2>5, <2>6, <1>k
<1>8. CASE FailoverSource
  <2> DEFINE n == NextSeq(pcm.tail)
  <2>1. /\ pcm'.paks = pcm.paks /\ SameOutput(pcm', pcm)
        /\ SameMarks(pcm', pcm) /\ SameEnd(pcm', pcm)
        /\ pcm'.cands = pcm.cands /\ pcm'.highestEr = pcm.highestEr
        /\ pcm'.srcStart = n
        /\ jumps' = jumps /\ back' = back
    BY <1>0, <1>8 DEF FailoverSource, SameOutput, PcmFields, SameMarks, SameEnd
  <2>2. ASSUME ~pcm.rcc, jumps = 0
        PROVE  PcmOrder(pcm') /\ pcm'.lastReq = pcm.lastReq
    <3>1. PcmOrder(pcm) /\ Pos(pcm.tail) < Half - 1
      BY <2>2 DEF OrderInv, Young
    <3>2. n \in SeqNumber /\ SeqDist(pcm.tail, n) = 1
      <4>1. 1 \in Nat /\ 1 < SeqSpace
        BY RoomFacts
      <4> QED
        BY <1>0, <4>1, AddDist DEF NextSeq
    <3> HIDE DEF n
    <3>3. Pos(n) = Pos(pcm.tail) + 1
      <4>1. Base \in SeqNumber /\ Pos(pcm.tail) \in Nat /\ Half \in Nat
            /\ 2 * Half <= SeqSpace /\ SeqSpace \in Nat
        BY <1>0, PosFacts, RoomFacts DEF Half
      <4>2. Pos(pcm.tail) + SeqDist(pcm.tail, n) < SeqSpace
        BY <3>1, <3>2, <4>1
      <4> QED
        BY <1>0, <3>2, <4>1, <4>2, DistSum DEF Pos
    <3>4. Pos(pcm'.srcStart) <= Pos(pcm'.tail) + 1
      <4>1. Pos(pcm.tail) \in Nat
        BY <1>0, PosFacts
      <4> QED
        BY <2>1, <3>3, <4>1 DEF SameEnd
    <3>5. CandOrder(pcm')
      BY <2>1, <3>1, <3>4 DEF PcmOrder, CandOrder, SameEnd, SameMarks
    <3>6. Fresh(pcm')
      BY <2>1, <3>1 DEF PcmOrder, Fresh, SameOutput, SameEnd
    <3> QED
      BY <2>1, <3>1, <3>5, <3>6 DEF PcmOrder, SameOutput, SameMarks
  <2>3. pcm'.rcc = pcm.rcc /\ jumps' = jumps /\ back' = back
    BY <2>1 DEF SameOutput
  <2> QED
    BY <2>2, <2>3, <1>k
<1>9. CASE ClockBack
  <2>1. pcm' = pcm /\ jumps' = jumps + 1
    BY <1>9 DEF ClockBack
  <2>2. jumps' > 0
    BY <1>0, <2>1
  <2>3. jumps' # 0 /\ pcm'.rcc = pcm.rcc
    BY <1>0, <2>1, <2>2
  <2> QED
    BY <2>2, <2>3 DEF OrderInv, Good
<1> QED
  BY <1>1, <1>2, <1>3, <1>4, <1>5, <1>6, <1>7, <1>8, <1>9 DEF PcmNext

-----------------------------------------------------------------------------
(***************************************************************************)
(* What a report lists.                                                    *)
(***************************************************************************)
\* In the first half of the space a range is what lies between two places.
LEMMA RangePos ==
    ASSUME NEW a \in SeqNumber, NEW b \in SeqNumber, Pos(a) < Half, Pos(b) < Half,
           NEW s
    PROVE  s \in SeqRange(a, b)
             <=> s \in SeqNumber /\ Pos(a) <= Pos(s) /\ Pos(s) <= Pos(b)
<1>1. /\ SeqSpace \in Nat /\ Half \in Nat /\ 2 * Half <= SeqSpace
      /\ Base \in SeqNumber /\ Pos(a) \in Nat /\ Pos(b) \in Nat
  BY PosFacts, RoomFacts DEF Half
<1>2. /\ SeqLe(a, b) <=> Pos(a) <= Pos(b)
      /\ Pos(a) <= Pos(b) => SeqDist(a, b) = Pos(b) - Pos(a)
  BY PosOrder
<1>3. ASSUME s \in SeqRange(a, b)
      PROVE  s \in SeqNumber /\ Pos(a) <= Pos(s) /\ Pos(s) <= Pos(b)
  <2>1. SeqLe(a, b) /\ \E i \in 0 .. SeqDist(a, b) : s = SeqAdd(a, i)
    BY <1>3 DEF SeqRange
  <2>2. PICK i \in 0 .. SeqDist(a, b) : s = SeqAdd(a, i)
    BY <2>1
  <2>3. SeqDist(a, b) = Pos(b) - Pos(a) /\ Pos(a) <= Pos(b)
    BY <1>2, <2>1
  <2>4. i \in Nat /\ i < SeqSpace /\ i <= Pos(b) - Pos(a)
    BY <1>1, <2>3
  <2>5. s \in SeqNumber /\ SeqDist(a, s) = i
    BY <2>2, <2>4, AddDist
  <2>6. Pos(s) = Pos(a) + i
    <3>1. SeqDist(Base, a) + SeqDist(a, s) < SeqSpace
      BY <1>1, <2>4, <2>5 DEF Pos
    <3> QED
      BY <1>1, <2>5, <3>1, DistSum DEF Pos
  <2> QED
    BY <1>1, <2>4, <2>5, <2>6
<1>4. ASSUME s \in SeqNumber, Pos(a) <= Pos(s), Pos(s) <= Pos(b)
      PROVE  s \in SeqRange(a, b)
  <2>1. Pos(s) \in Nat /\ Pos(s) < Half /\ Pos(a) <= Pos(b)
    BY <1>1, <1>4, PosFacts
  <2>2. SeqDist(a, s) = Pos(s) - Pos(a)
    BY <1>4, <2>1, PosOrder
  <2> DEFINE i == Pos(s) - Pos(a)
             u == SeqAdd(a, i)
  <2>3. i \in 0 .. SeqDist(a, b) /\ i \in Nat /\ i < SeqSpace
    BY <1>1, <1>2, <1>4, <2>1
  <2>4. SeqDist(a, s) = i
    BY <2>2
  <2> HIDE DEF i
  <2>5. u \in SeqNumber /\ SeqDist(a, u) = i
    BY <2>3, AddDist
  <2> HIDE DEF u
  <2>6. u = s
    BY <1>4, <2>4, <2>5, DistEqual
  <2> QED
    BY <1>2, <2>1, <2>3, <2>6 DEF u, SeqRange
<1> QED
  BY <1>3, <1>4

\* The missing numbers from a to b.
Missing(p, a, b) ==
    {s \in SeqNumber : Pos(a) <= Pos(s) /\ Pos(s) <= Pos(b) /\ Slot(s) \notin p.gapmap}

\* The missing numbers of a page, and where it ends.
LEMMA InternalExact ==
    ASSUME NEW p, NEW a \in SeqNumber, NEW b \in SeqNumber,
           Pos(a) < Half, Pos(b) < Half,
           NEW g, g = GetGapsInternal(p, a, b)
    PROVE  /\ g.high \in SeqNumber
           /\ g.gaps = Missing(p, a, g.high)
           /\ g.more => g.high \in g.gaps /\ Pos(g.high) < Pos(b)
           /\ ~g.more => g.high = b
<1> DEFINE miss == {s \in SeqRange(a, b) : Slot(s) \notin p.gapmap}
           ends == {s \in miss : s # b /\ NextSeq(s) \notin miss}
           full == {e \in ends : Cardinality({x \in ends : SeqLe(x, e)})
                                     = GapBufMax}
           e    == SeqMin(full)
           upto == {s \in miss : SeqLe(s, e)}
<1>1. g = IF full = {} THEN [gaps |-> miss, more |-> FALSE, high |-> b]
          ELSE [gaps |-> upto, more |-> TRUE, high |-> e]
  BY DEF GetGapsInternal
<1>2. miss = Missing(p, a, b)
  BY RangePos DEF Missing
<1>3. full \in SUBSET SeqRange(a, b) /\ full \subseteq miss /\ b \notin full
  OBVIOUS
<1> HIDE DEF ends, full
<1>4. CASE full = {}
  BY <1>1, <1>2, <1>4
<1>5. CASE full # {}
  <2>1. e \in full
    BY <1>3, <1>5, SeqMinType
  <2>2. e \in miss /\ e # b
    BY <1>3, <2>1
  <2> HIDE DEF e, miss
  <2>3. /\ e \in SeqNumber /\ Pos(a) <= Pos(e) /\ Pos(e) <= Pos(b)
        /\ Slot(e) \notin p.gapmap
    BY <1>2, <2>2 DEF Missing
  <2>4. Pos(e) \in Nat /\ Pos(b) \in Nat /\ Half \in Nat
    BY <2>3, PosFacts, RoomFacts DEF Half
  <2>5. Pos(e) < Half
    BY <2>3, <2>4
  <2>6. Pos(e) # Pos(b)
    BY <2>2, <2>3, <2>5, PosOrder
  <2>7. ASSUME NEW s
        PROVE  s \in upto <=> s \in Missing(p, a, e)
    <3>1. CASE s \in SeqNumber /\ Pos(s) < Half
      <4>1. Pos(s) \in Nat
        BY <3>1, PosFacts
      <4>2. SeqLe(s, e) <=> Pos(s) <= Pos(e)
        BY <2>3, <2>5, <3>1, PosOrder
      <4>3. Pos(s) <= Pos(e) => Pos(s) <= Pos(b)
        BY <2>3, <2>4, <4>1
      <4> QED
        BY <1>2, <4>2, <4>3 DEF Missing
    <3>2. CASE s \notin SeqNumber
      BY <1>2, <3>2 DEF Missing
    <3>3. CASE s \in SeqNumber /\ ~(Pos(s) < Half)
      <4>1. Pos(s) \in Nat
        BY <3>3, PosFacts
      <4>2. ~(Pos(s) <= Pos(e)) /\ ~(Pos(s) <= Pos(b))
        BY <2>4, <2>5, <3>3, <4>1
      <4> QED
        BY <1>2, <4>2 DEF Missing
    <3> QED
      BY <3>1, <3>2, <3>3
  <2>8. upto = Missing(p, a, e)
    BY <2>7
  <2>9. e \in Missing(p, a, e)
    BY <2>3, <2>4 DEF Missing
  <2> HIDE DEF upto
  <2>10. g.high = e /\ g.gaps = upto /\ g.more
    BY <1>1, <1>5
  <2> QED
    BY <2>3, <2>4, <2>6, <2>8, <2>9, <2>10
<1> QED
  BY <1>4, <1>5

\* The packets of the cache and their places.
LEMMA CachePos ==
    ASSUME NEW p, Views(p), Close(p), DOMAIN p.paks # {},
           RingSize <= Pos(p.tail), Pos(p.tail) < Half
    PROVE  /\ p.head \in DOMAIN p.paks /\ p.tail \in DOMAIN p.paks
           /\ p.head \in SeqNumber /\ p.tail \in SeqNumber
           /\ Pos(p.tail) < Pos(p.head) + RingSize
           /\ \A x \in DOMAIN p.paks : Pos(p.head) <= Pos(x) /\ Pos(x) <= Pos(p.tail)
<1> DEFINE h == p.head
           l == p.tail
<1>1. /\ h \in DOMAIN p.paks /\ l \in DOMAIN p.paks
      /\ h \in SeqNumber /\ l \in SeqNumber /\ DOMAIN p.paks \subseteq SeqNumber
      /\ SeqDist(h, l) < RingSize
      /\ \A s \in DOMAIN p.paks : SeqDist(h, s) <= SeqDist(h, l)
  BY DEF Views, PcmType, Ends, Close
<1>2. /\ SeqSpace \in Nat /\ Half \in Nat /\ 2 * Half <= SeqSpace
      /\ Base \in SeqNumber /\ Pos(l) \in Nat /\ RingSize \in Nat
  BY <1>1, PosFacts, RoomFacts DEF Half
<1>3. SeqDist(h, l) \in Nat
  BY <1>1, DistNat
<1>4. Pos(h) = Pos(l) - SeqDist(h, l)
  <2>1. SeqDist(h, l) <= Pos(l)
    BY <1>1, <1>2, <1>3
  <2> QED
    BY <1>1, <1>2, <2>1, DistSum DEF Pos
<1>5. ASSUME NEW x \in DOMAIN p.paks
      PROVE  Pos(h) <= Pos(x) /\ Pos(x) <= Pos(l)
  <2>1. x \in SeqNumber /\ SeqDist(h, x) \in Nat /\ SeqDist(h, x) <= SeqDist(h, l)
    BY <1>1, DistNat
  <2>2. SeqDist(Base, h) + SeqDist(h, x) < SeqSpace
    BY <1>1, <1>2, <1>3, <1>4, <2>1 DEF Pos
  <2>3. Pos(x) = Pos(h) + SeqDist(h, x)
    BY <1>1, <1>2, <2>1, <2>2, DistSum DEF Pos
  <2> HIDE DEF h, l
  <2> QED
    BY <1>2, <1>3, <1>4, <2>1, <2>3
<1> HIDE DEF h, l
<1>6. Pos(l) < Pos(h) + RingSize
  BY <1>1, <1>2, <1>3, <1>4
<1> QED
  BY <1>1, <1>5, <1>6 DEF h, l

\* Where a report begins: not before the head, and after all that was reported.
LEMMA StartPos ==
    ASSUME NEW p, Views(p), Close(p), DOMAIN p.paks # {}, CandOrder(p),
           Pos(p.tail) < Half - 1, NEW a, a = GapStart(p)
    PROVE  /\ a \in SeqNumber /\ Pos(a) < Half /\ Pos(p.head) <= Pos(a)
           /\ \A s \in SeqNumber :
                 Pos(a) <= Pos(s) /\ Slot(s) \notin p.gapmap
                   => Pos(p.lastReq) < Pos(s) /\ Pos(p.head) < Pos(s)
           /\ p.srcStart = None /\ Pos(p.head) < Pos(p.lastReq)
                => Pos(a) = Pos(p.lastReq) + 1
<1> DEFINE n == NextSeq(p.lastReq)
           b == IF SeqLt(p.head, p.lastReq) THEN n ELSE p.head
<1>1. /\ p.head \in SeqNumber /\ p.tail \in SeqNumber /\ p.lastReq \in SeqNumber
      /\ p.highestEr \in SeqNumber
      /\ p.srcStart \in SeqNumber \cup {None}
  BY DEF Views, PcmType
<1>2. /\ SeqSpace \in Nat /\ Half \in Nat /\ 2 * Half <= SeqSpace
      /\ Base \in SeqNumber /\ RingSize \in Nat
      /\ Pos(p.head) \in Nat /\ Pos(p.tail) \in Nat /\ Pos(p.lastReq) \in Nat
      /\ Pos(p.highestEr) \in Nat
  BY <1>1, PosFacts, RoomFacts DEF Half
<1>3. RingSize <= Pos(p.tail) /\ Pos(p.lastReq) <= Pos(p.tail)
  BY <1>2 DEF CandOrder
<1>4. /\ p.head \in DOMAIN p.paks /\ Pos(p.head) <= Pos(p.tail)
  <2>1. Pos(p.tail) < Half
    BY <1>2
  <2> QED
    BY <1>3, <2>1, CachePos
<1>5. Slot(p.head) \in p.gapmap
  BY <1>4 DEF Views, Bits
<1>6. n \in SeqNumber /\ Pos(n) = Pos(p.lastReq) + 1
  <2>1. n \in SeqNumber /\ SeqDist(p.lastReq, n) = 1
    <3>1. 1 \in Nat /\ 1 < SeqSpace
      BY RoomFacts
    <3> QED
      BY <1>1, <3>1, AddDist DEF NextSeq
  <2> HIDE DEF n
  <2>2. SeqDist(Base, p.lastReq) + SeqDist(p.lastReq, n) < SeqSpace
    BY <1>2, <1>3, <2>1 DEF Pos
  <2> QED
    BY <1>1, <1>2, <2>1, <2>2, DistSum DEF Pos
<1>7. SeqLt(p.head, p.lastReq) <=> Pos(p.head) < Pos(p.lastReq)
  <2>1. Pos(p.head) < Half /\ Pos(p.lastReq) < Half
    BY <1>2, <1>3, <1>4
  <2> QED
    BY <1>1, <2>1, PosOrder
<1> HIDE DEF n
<1>8. /\ b \in SeqNumber /\ Pos(b) < Half /\ Pos(p.head) <= Pos(b)
      /\ Pos(p.lastReq) <= Pos(b) /\ Pos(b) \in Nat
      /\ Pos(p.lastReq) < Pos(b) \/ b = p.head
      /\ Pos(p.head) < Pos(p.lastReq) => Pos(b) = Pos(p.lastReq) + 1
  <2>1. CASE SeqLt(p.head, p.lastReq)
    <3>1. b = n
      BY <2>1
    <3> HIDE DEF b
    <3> QED
      BY <1>2, <1>3, <1>6, <1>7, <2>1, <3>1
  <2>2. CASE ~SeqLt(p.head, p.lastReq)
    <3>1. b = p.head
      BY <2>2
    <3> HIDE DEF b
    <3> QED
      BY <1>1, <1>2, <1>4, <1>7, <2>2, <3>1
  <2> QED
    BY <2>1, <2>2
<1>9. \A s \in SeqNumber :
         Pos(b) <= Pos(s) /\ Slot(s) \notin p.gapmap
           => Pos(p.lastReq) < Pos(s) /\ Pos(p.head) < Pos(s)
  <2> SUFFICES ASSUME NEW s \in SeqNumber, Pos(b) <= Pos(s), Slot(s) \notin p.gapmap
               PROVE  Pos(p.lastReq) < Pos(s) /\ Pos(p.head) < Pos(s)
    OBVIOUS
  <2> HIDE DEF b
  <2>1. Pos(s) \in Nat
    BY PosFacts
  <2>2. Pos(s) # Pos(p.head)
    <3>1. s # p.head
      BY <1>5
    <3> QED
      BY <1>1, <1>2, <3>1, DistEqual DEF Pos
  <2> QED
    BY <1>2, <1>8, <2>1, <2>2
<1>10. a = IF p.srcStart # None /\ SeqLt(b, p.srcStart) THEN p.srcStart ELSE b
  BY DEF GapStart, n
<1> HIDE DEF b
<1>11. CASE a = b
  BY <1>8, <1>9, <1>11
<1>12. CASE p.srcStart # None /\ SeqLt(b, p.srcStart) /\ a = p.srcStart
  <2>1. a \in SeqNumber /\ Pos(a) \in Nat /\ Pos(a) <= Pos(p.tail) + 1
    BY <1>1, <1>12, PosFacts DEF CandOrder
  <2>2. Pos(a) < Half
    BY <1>2, <2>1
  <2>3. Pos(b) < Pos(a)
    BY <1>8, <1>12, <2>1, <2>2, PosOrder
  <2>4. ASSUME NEW s \in SeqNumber, Pos(a) <= Pos(s), Slot(s) \notin p.gapmap
        PROVE  Pos(p.lastReq) < Pos(s) /\ Pos(p.head) < Pos(s)
    <3>1. Pos(s) \in Nat
      BY PosFacts
    <3>2. Pos(b) <= Pos(s)
      BY <1>8, <2>1, <2>3, <2>4, <3>1
    <3> QED
      BY <1>9, <2>4, <3>2
  <2>5. Pos(p.head) <= Pos(a)
    BY <1>2, <1>8, <2>1, <2>3
  <2> QED
    BY <1>12, <2>1, <2>2, <2>4, <2>5
<1> QED
  BY <1>10, <1>11, <1>12

\* One page: what it keeps, and, when the cache is in order, what it lists.
LEMMA GapsKeep ==
    ASSUME NEW p, PcmType(p), NEW t
    PROVE  LET q == GetGaps(p, t).pcm
           IN  /\ PcmType(q) /\ SameViews(q, p) /\ SameOutput(q, p)
               /\ SameEnd(q, p)
<1> DEFINE tc == TimeoutCandidates(p, t)
           q == IF p.polled THEN p ELSE [tc EXCEPT !.polled = TRUE]
           g == GetGapsInternal(q, GapStart(q), q.highestEr)
           r == [q EXCEPT !.srcStart = None, !.lastReq = g.high]
           Same(x, y) == /\ SameViews(x, y) /\ SameOutput(x, y) /\ SameEnd(x, y)
<1>1. GetGaps(p, t).pcm = IF DOMAIN p.paks = {} THEN p ELSE r
  BY DEF GetGaps
<1>2. DOMAIN p = PcmFields /\ Same(p, p)
  BY DEF PcmType, SameViews, SameOutput, SameEnd
<1>3. Same(tc, p) /\ DOMAIN tc = PcmFields
  BY <1>2 DEF TimeoutCandidates, PcmFields, SameViews, SameOutput, SameEnd
<1> HIDE DEF tc
<1>4. Same(q, p) /\ DOMAIN q = PcmFields
  <2>1. CASE p.polled
    BY <1>2, <2>1
  <2>2. CASE ~p.polled
    BY <1>3, <2>2 DEF PcmFields, SameViews, SameOutput, SameEnd
  <2> QED
    BY <2>1, <2>2
<1> HIDE DEF q, g
<1>5. Same(r, p)
  BY <1>4 DEF PcmFields, SameViews, SameOutput, SameEnd
<1>6. Same(GetGaps(p, t).pcm, p)
  <2> HIDE DEF Same, r
  <2> QED
    BY <1>1, <1>2, <1>5
<1> QED
  BY <1>6, GapsTypes

Page(g, p) ==
    /\ CandOrder(g.pcm) /\ g.pcm.srcStart = None
    /\ g.gaps = Missing(p, GapStart(p), g.pcm.lastReq)
    /\ Pos(p.lastReq) <= Pos(g.pcm.lastReq)
    /\ g.more => /\ g.pcm.lastReq \in g.gaps
                 /\ Pos(g.pcm.lastReq) < Pos(g.pcm.highestEr)
    /\ ~g.more => g.pcm.lastReq = g.pcm.highestEr

LEMMA GapsExact ==
    ASSUME NEW p, Views(p), Close(p), DOMAIN p.paks # {}, CandOrder(p),
           Pos(p.tail) < Half - 1, NEW t
    PROVE  Page(GetGaps(p, t), p)
<1> DEFINE tc == TimeoutCandidates(p, t)
           q == IF p.polled THEN p ELSE [tc EXCEPT !.polled = TRUE]
           a == GapStart(q)
           g == GetGapsInternal(q, a, q.highestEr)
           r == [q EXCEPT !.srcStart = None, !.lastReq = g.high]
           w == GetGaps(p, t)
<1>1. w = [pcm |-> r, gaps |-> g.gaps, more |-> g.more]
  BY DEF GetGaps
<1>2. PcmType(p) /\ DOMAIN p = PcmFields
  BY DEF Views, PcmType
<1>3. /\ CandOrder(tc) /\ SameMarks(tc, p) /\ SameEnd(tc, p) /\ PcmType(tc)
      /\ tc.srcStart = p.srcStart
  BY <1>2, TimeoutOrder
<1>4. tc.gapmap = p.gapmap /\ tc.head = p.head
  BY <1>2 DEF TimeoutCandidates, PcmFields
<1> HIDE DEF tc
<1>5. /\ CandOrder(q) /\ q.lastReq = p.lastReq /\ q.tail = p.tail /\ PcmType(q)
      /\ q.srcStart = p.srcStart /\ q.gapmap = p.gapmap /\ q.head = p.head
  <2>1. CASE p.polled
    BY <1>2, <2>1
  <2>2. CASE ~p.polled
    <3>1. q = [tc EXCEPT !.polled = TRUE] /\ DOMAIN tc = PcmFields
      BY <1>3, <2>2 DEF PcmType
    <3>2. /\ q.lastReq = tc.lastReq /\ q.tail = tc.tail /\ q.srcStart = tc.srcStart
          /\ q.gapmap = tc.gapmap /\ q.head = tc.head /\ q.cands = tc.cands
          /\ q.highestEr = tc.highestEr
      BY <3>1 DEF PcmFields
    <3>3. PcmType(q)
      <4>1. PcmType(tc)
        BY <1>3
      <4> QED
        BY <1>2, <4>1 DEF PcmType, PcmFields
    <3> HIDE DEF q
    <3>4. CandOrder(q)
      BY <1>3, <3>2 DEF CandOrder
    <3> QED
      BY <1>3, <1>4, <3>2, <3>3, <3>4 DEF SameMarks, SameEnd
  <2> QED
    BY <2>1, <2>2
<1> HIDE DEF q
<1>6. a = GapStart(p)
  BY <1>5 DEF GapStart
<1>7. /\ a \in SeqNumber /\ Pos(a) < Half
      /\ \A s \in SeqNumber :
            Pos(a) <= Pos(s) /\ Slot(s) \notin p.gapmap => Pos(p.lastReq) < Pos(s)
  BY <1>6, StartPos
<1> HIDE DEF a
<1>8. q.highestEr \in SeqNumber /\ Pos(q.highestEr) < Half
  <2>1. q.highestEr \in SeqNumber /\ p.tail \in SeqNumber
    BY <1>2, <1>5 DEF PcmType
  <2>2. Pos(q.highestEr) \in Nat /\ Pos(p.tail) \in Nat /\ Half \in Nat
    BY <2>1, PosFacts, RoomFacts DEF Half
  <2>3. Pos(q.highestEr) <= Pos(p.tail)
    BY <1>5 DEF CandOrder
  <2> QED
    BY <2>1, <2>2, <2>3
<1>9. /\ g.high \in SeqNumber
      /\ g.gaps = Missing(q, a, g.high)
      /\ g.more => g.high \in g.gaps /\ Pos(g.high) < Pos(q.highestEr)
      /\ ~g.more => g.high = q.highestEr
  BY <1>7, <1>8, InternalExact
<1> HIDE DEF g
<1>10. Missing(q, a, g.high) = Missing(p, a, g.high)
  BY <1>5 DEF Missing
<1>11. /\ r.lastReq = g.high /\ r.highestEr = q.highestEr /\ r.srcStart = None
       /\ r.tail = q.tail /\ r.cands = q.cands
  <2>1. DOMAIN q = PcmFields
    BY <1>5 DEF PcmType
  <2> QED
    BY <2>1 DEF PcmFields
<1> HIDE DEF r
<1>12. Pos(p.lastReq) <= Pos(g.high) /\ Pos(g.high) <= Pos(q.highestEr)
  <2>1. Pos(g.high) \in Nat /\ Pos(q.highestEr) \in Nat /\ Pos(p.lastReq) \in Nat
    <3>1. p.lastReq \in SeqNumber
      BY <1>2 DEF PcmType
    <3> QED
      BY <1>8, <1>9, <3>1, PosFacts
  <2>2. CASE g.more
    <3>1. g.high \in Missing(p, a, g.high)
      BY <1>9, <1>10, <2>2
    <3>2. Pos(a) <= Pos(g.high) /\ Slot(g.high) \notin p.gapmap
      BY <3>1 DEF Missing
    <3>3. Pos(p.lastReq) < Pos(g.high)
      BY <1>7, <1>9, <3>2
    <3> QED
      BY <1>9, <2>1, <2>2, <3>3
  <2>3. CASE ~g.more
    <3>1. Pos(p.lastReq) <= Pos(q.highestEr)
      BY <1>5 DEF CandOrder
    <3> QED
      BY <1>9, <2>1, <2>3, <3>1
  <2> QED
    BY <2>2, <2>3
<1>13. CandOrder(r)
  BY <1>5, <1>11, <1>12 DEF CandOrder
<1>14. w.pcm = r /\ w.gaps = g.gaps /\ w.more = g.more
  BY <1>1
<1> HIDE DEF w
<1>15. Page(w, p)
  BY <1>6, <1>9, <1>10, <1>11, <1>12, <1>13, <1>14 DEF Page
<1> QED
  BY <1>15 DEF w

\* All pages: what they keep.
LEMMA PagesKeep ==
    ASSUME NEW p, PcmType(p), NEW t
    PROVE  LET q == Pages(p, t).pcm
           IN  /\ PcmType(q) /\ SameViews(q, p) /\ SameOutput(q, p)
               /\ SameEnd(q, p)
<1>1. PICK f : /\ f[0] = [pcm |-> p, gaps |-> {}, more |-> TRUE]
               /\ \A i \in 1 .. RingSize : f[i] = NextPage(f[i - 1], t)
               /\ f[RingSize] = Pages(p, t)
  BY PagesFold
<1> DEFINE Same(q) == /\ PcmType(q) /\ SameViews(q, p) /\ SameOutput(q, p)
                      /\ SameEnd(q, p)
           A == {i \in 0 .. RingSize : Same(f[i].pcm)}
<1>2. RingSize \in Nat /\ 0 \in A
  <2>1. f[0].pcm = p /\ RingSize \in Nat
    BY <1>1, RoomFacts
  <2>2. Same(f[0].pcm)
    BY <2>1 DEF SameViews, SameOutput, SameEnd
  <2> HIDE DEF Same
  <2> QED
    BY <2>1, <2>2
<1>3. ASSUME NEW k \in 0 .. RingSize - 1, k \in A
      PROVE  k + 1 \in A
  <2>1. k + 1 \in 1 .. RingSize /\ (k + 1) - 1 = k /\ k + 1 \in 0 .. RingSize
    BY <1>2
  <2>2. f[k + 1] = NextPage(f[k], t)
    BY <1>1, <2>1
  <2> DEFINE a == f[k].pcm
             g == GetGaps(a, t)
  <2>3. Same(a)
    BY <1>3
  <2> HIDE DEF a
  <2>4. /\ PcmType(g.pcm) /\ SameViews(g.pcm, a) /\ SameOutput(g.pcm, a)
        /\ SameEnd(g.pcm, a)
    BY <2>3, GapsKeep
  <2> HIDE DEF g
  <2>5. Same(g.pcm)
    BY <2>3, <2>4 DEF SameViews, SameOutput, SameEnd
  <2>6. f[k + 1].pcm \in {a, g.pcm}
    BY <2>2 DEF NextPage, g, a
  <2> HIDE DEF Same
  <2>7. Same(f[k + 1].pcm)
    BY <2>3, <2>5, <2>6
  <2> QED
    BY <2>1, <2>7
<1> HIDE DEF A
<1>4. RingSize \in A
  BY <1>2, <1>3, BoundedInduction
<1> QED
  BY <1>1, <1>4 DEF A

LEMMA PagesEmpty ==
    ASSUME NEW p, NEW t, DOMAIN p.paks = {}
    PROVE  Pages(p, t).pcm = p /\ Pages(p, t).gaps = {}
<1>1. PICK f : /\ f[0] = [pcm |-> p, gaps |-> {}, more |-> TRUE]
               /\ \A i \in 1 .. RingSize : f[i] = NextPage(f[i - 1], t)
               /\ f[RingSize] = Pages(p, t)
  BY PagesFold
<1> DEFINE A == {i \in 0 .. RingSize : f[i].pcm = p /\ f[i].gaps = {}}
<1>2. RingSize \in Nat /\ 0 \in A
  BY <1>1, RoomFacts
<1>3. ASSUME NEW k \in 0 .. RingSize - 1, k \in A
      PROVE  k + 1 \in A
  <2>1. k + 1 \in 1 .. RingSize /\ (k + 1) - 1 = k /\ k + 1 \in 0 .. RingSize
    BY <1>2
  <2>2. f[k + 1] = NextPage(f[k], t) /\ f[k].pcm = p /\ f[k].gaps = {}
    BY <1>1, <1>3, <2>1
  <2>3. GetGaps(p, t) = [pcm |-> p, gaps |-> {}, more |-> FALSE]
    BY DEF GetGaps
  <2>4. f[k + 1].pcm = p /\ f[k + 1].gaps = {}
    BY <2>2, <2>3 DEF NextPage
  <2> QED
    BY <2>1, <2>4
<1> HIDE DEF A
<1>4. RingSize \in A
  BY <1>2, <1>3, BoundedInduction
<1> QED
  BY <1>1, <1>4 DEF A

\* A report has gone all the way: it lists what is missing from where it
\* begins, after all that was reported, up to the last number that may be
\* reported.
Complete(r, p) ==
    /\ CandOrder(r.pcm)
    /\ r.gaps = Missing(p, GapStart(p), r.pcm.lastReq)
    /\ Pos(p.lastReq) <= Pos(r.pcm.lastReq)
    /\ r.pcm.lastReq = r.pcm.highestEr

\* All pages, by induction: each but the last ends one further at least, and
\* the cache is no longer than the number of pages that are tried.
LEMMA PagesExact ==
    ASSUME NEW p, Views(p), Close(p), DOMAIN p.paks # {}, CandOrder(p),
           Pos(p.tail) < Half - 1, NEW t
    PROVE  Complete(Pages(p, t), p)
<1>1. PICK f : /\ f[0] = [pcm |-> p, gaps |-> {}, more |-> TRUE]
               /\ \A i \in 1 .. RingSize : f[i] = NextPage(f[i - 1], t)
               /\ f[RingSize] = Pages(p, t)
  BY PagesFold
<1> DEFINE b == GapStart(p)
           Same(q) == PcmType(q) /\ SameViews(q, p) /\ SameEnd(q, p)
           In(k) == /\ Same(f[k].pcm) /\ CandOrder(f[k].pcm)
                    /\ k > 0 =>
                         /\ f[k].pcm.srcStart = None
                         /\ f[k].gaps = Missing(p, b, f[k].pcm.lastReq)
                         /\ Pos(p.lastReq) <= Pos(f[k].pcm.lastReq)
                         /\ f[k].more =>
                              /\ Pos(p.head) + k <= Pos(f[k].pcm.lastReq)
                              /\ Pos(b) <= Pos(f[k].pcm.lastReq)
                              /\ Pos(f[k].pcm.lastReq) < Pos(f[k].pcm.highestEr)
                         /\ ~f[k].more =>
                              f[k].pcm.lastReq = f[k].pcm.highestEr
           A == {k \in 0 .. RingSize : In(k)}
<1>2. PcmType(p) /\ p.head \in SeqNumber /\ p.tail \in SeqNumber
      /\ p.lastReq \in SeqNumber
  BY DEF Views, PcmType
<1>3. /\ RingSize \in Nat /\ RingSize > 0 /\ Half \in Nat
      /\ Pos(p.head) \in Nat /\ Pos(p.tail) \in Nat /\ Pos(p.lastReq) \in Nat
  BY <1>2, PosFacts, RoomFacts DEF Half
<1>4. /\ RingSize <= Pos(p.tail) /\ Pos(p.tail) < Half
      /\ Pos(p.tail) < Pos(p.head) + RingSize
  <2>1. RingSize <= Pos(p.tail) /\ Pos(p.tail) < Half
    BY <1>3 DEF CandOrder
  <2> QED
    BY <2>1, CachePos
<1>5. /\ b \in SeqNumber /\ Pos(p.head) <= Pos(b) /\ Pos(b) \in Nat
      /\ \A s \in SeqNumber : Pos(b) <= Pos(s) /\ Slot(s) \notin p.gapmap
                                => Pos(p.head) < Pos(s)
  <2>1. b \in SeqNumber
    BY StartPos
  <2> QED
    BY <2>1, StartPos, PosFacts
<1> HIDE DEF b
<1>6. 0 \in A
  <2>1. f[0].pcm = p /\ ~(0 > 0)
    BY <1>1
  <2>2. Same(p)
    BY <1>2 DEF SameViews, SameEnd
  <2>3. In(0)
    BY <2>1, <2>2
  <2> HIDE DEF In
  <2> QED
    BY <1>3, <2>3
<1>7. ASSUME NEW k \in 0 .. RingSize - 1, k \in A
      PROVE  k + 1 \in A
  <2> DEFINE q == f[k].pcm
             g == GetGaps(q, t)
             u == f[k + 1]
  <2>1. /\ k + 1 \in 1 .. RingSize /\ (k + 1) - 1 = k /\ k + 1 \in 0 .. RingSize
        /\ k \in Nat /\ k + 1 > 0
    BY <1>3
  <2>2. u = NextPage(f[k], t)
    BY <1>1, <2>1
  <2>3. In(k)
    BY <1>7
  <2>4. CASE ~f[k].more
    <3>1. k > 0
      <4>1. k # 0
        BY <1>1, <2>4
      <4> QED
        BY <2>1, <4>1
    <3>2. u = f[k]
      BY <2>2, <2>4 DEF NextPage
    <3>3. ~u.more
      BY <2>4, <3>2
    <3>4. In(k + 1)
      BY <2>3, <2>4, <3>1, <3>2, <3>3
    <3> HIDE DEF In
    <3> QED
      BY <2>1, <3>4
  <2>5. CASE f[k].more
    <3>1. /\ Same(q) /\ CandOrder(q)
          /\ k > 0 => /\ q.srcStart = None
                      /\ f[k].gaps = Missing(p, b, q.lastReq)
                      /\ Pos(p.lastReq) <= Pos(q.lastReq)
                      /\ Pos(p.head) + k <= Pos(q.lastReq)
                      /\ Pos(b) <= Pos(q.lastReq)
                      /\ Pos(q.lastReq) < Pos(q.highestEr)
      BY <2>3, <2>5
    <3>2. u.pcm = g.pcm /\ u.gaps = f[k].gaps \cup g.gaps /\ u.more = g.more
      BY <2>2, <2>5 DEF NextPage
    <3>3. k = 0 => q = p /\ f[k].gaps = {}
      BY <1>1
    <3> HIDE DEF q, u
    <3>4. Views(q) /\ Close(q) /\ DOMAIN q.paks # {} /\ Pos(q.tail) < Half - 1
          /\ q.head = p.head /\ q.tail = p.tail /\ q.gapmap = p.gapmap
      BY <3>1, ViewsFrame DEF SameViews, SameEnd, Close
    <3>5. Page(g, q)
      BY <3>1, <3>4, GapsExact
    <3>6. Same(g.pcm)
      <4>1. PcmType(g.pcm) /\ SameViews(g.pcm, q) /\ SameEnd(g.pcm, q)
        BY <3>1, GapsKeep
      <4> HIDE DEF g
      <4> QED
        BY <3>1, <4>1 DEF SameViews, SameEnd
    <3> HIDE DEF g
    <3> DEFINE l == g.pcm.lastReq
               c == GapStart(q)
    <3>7. /\ q.lastReq \in SeqNumber /\ l \in SeqNumber
          /\ Pos(q.lastReq) \in Nat /\ Pos(l) \in Nat
          /\ g.pcm.highestEr \in SeqNumber /\ Pos(g.pcm.highestEr) \in Nat
      <4>1. q.lastReq \in SeqNumber /\ l \in SeqNumber
            /\ g.pcm.highestEr \in SeqNumber
        BY <3>1, <3>6 DEF PcmType
      <4> QED
        BY <4>1, PosFacts
    <3>8. /\ CandOrder(g.pcm) /\ g.pcm.srcStart = None
          /\ g.gaps = Missing(q, c, l) /\ Pos(q.lastReq) <= Pos(l)
          /\ g.more => l \in g.gaps /\ Pos(l) < Pos(g.pcm.highestEr)
          /\ ~g.more => l = g.pcm.highestEr
      BY <3>5 DEF Page
    <3>9. Missing(q, c, l) = Missing(p, c, l)
      BY <3>4 DEF Missing
    <3>10. c \in SeqNumber /\ Pos(c) \in Nat
      <4>1. c \in SeqNumber
        BY <3>1, <3>4, StartPos
      <4> QED
        BY <4>1, PosFacts
    <3>11. k > 0 => Pos(c) = Pos(q.lastReq) + 1
      <4>1. k > 0 => Pos(q.head) < Pos(q.lastReq)
        BY <1>3, <3>1, <3>4, <3>7, <2>1
      <4> QED
        BY <3>1, <3>4, <4>1, StartPos
    <3>12. u.gaps = Missing(p, b, l) /\ Pos(p.lastReq) <= Pos(l)
      <4>1. CASE k = 0
        <5>1. c = b /\ q = p /\ f[k].gaps = {}
          BY <3>3, <4>1 DEF b
        <5> QED
          BY <3>2, <3>8, <3>9, <5>1
      <4>2. CASE k > 0
        <5>1. /\ f[k].gaps = Missing(p, b, q.lastReq)
              /\ Pos(c) = Pos(q.lastReq) + 1
              /\ Pos(b) <= Pos(q.lastReq) /\ Pos(q.lastReq) <= Pos(l)
          BY <3>1, <3>8, <3>11, <4>2
        <5>2. ASSUME NEW s \in SeqNumber
              PROVE  Pos(b) <= Pos(s) /\ Pos(s) <= Pos(l)
                       <=> \/ Pos(b) <= Pos(s) /\ Pos(s) <= Pos(q.lastReq)
                           \/ Pos(c) <= Pos(s) /\ Pos(s) <= Pos(l)
          <6>1. Pos(s) \in Nat
            BY PosFacts
          <6> QED
            BY <1>5, <3>7, <3>10, <5>1, <6>1
        <5>3. Missing(p, b, l) = Missing(p, b, q.lastReq) \cup Missing(p, c, l)
          BY <5>2 DEF Missing
        <5>4. Pos(p.lastReq) <= Pos(l)
          BY <1>3, <3>1, <3>7, <4>2, <5>1
        <5> QED
          BY <3>2, <3>8, <3>9, <5>1, <5>3, <5>4
      <4> QED
        BY <2>1, <4>1, <4>2
    <3>13. ASSUME g.more
           PROVE  Pos(p.head) + (k + 1) <= Pos(l) /\ Pos(b) <= Pos(l)
      <4>1. l \in Missing(p, c, l) /\ l \in Missing(p, b, l)
        BY <3>2, <3>8, <3>9, <3>12, <3>13
      <4>2. Pos(c) <= Pos(l) /\ Pos(b) <= Pos(l) /\ Slot(l) \notin p.gapmap
        BY <4>1 DEF Missing
      <4>3. CASE k = 0
        <5>1. Pos(p.head) < Pos(l)
          BY <1>5, <3>7, <4>2
        <5> QED
          BY <1>3, <3>7, <4>2, <4>3, <5>1
      <4>4. CASE k > 0
        BY <1>3, <2>1, <3>1, <3>7, <3>10, <3>11, <4>2, <4>4
      <4> QED
        BY <2>1, <4>3, <4>4
    <3> HIDE DEF c
    <3>14. /\ Same(u.pcm) /\ CandOrder(u.pcm)
           /\ u.pcm.srcStart = None
           /\ u.gaps = Missing(p, b, u.pcm.lastReq)
           /\ Pos(p.lastReq) <= Pos(u.pcm.lastReq)
           /\ u.more =>
                /\ Pos(p.head) + (k + 1) <= Pos(u.pcm.lastReq)
                /\ Pos(b) <= Pos(u.pcm.lastReq)
                /\ Pos(u.pcm.lastReq) < Pos(u.pcm.highestEr)
           /\ ~u.more => u.pcm.lastReq = u.pcm.highestEr
      <4> HIDE DEF Same
      <4> QED
        BY <3>2, <3>6, <3>8, <3>12, <3>13
    <3>15. In(k + 1)
      BY <3>14 DEF u
    <3> HIDE DEF In
    <3> QED
      BY <2>1, <3>15
  <2> QED
    BY <2>4, <2>5
<1> HIDE DEF A
<1>8. RingSize \in A
  BY <1>3, <1>6, <1>7, BoundedInduction
<1> DEFINE r == f[RingSize]
<1>9. /\ Same(r.pcm) /\ CandOrder(r.pcm)
      /\ r.gaps = Missing(p, b, r.pcm.lastReq)
      /\ Pos(p.lastReq) <= Pos(r.pcm.lastReq)
      /\ r.more =>
           /\ Pos(p.head) + RingSize <= Pos(r.pcm.lastReq)
           /\ Pos(r.pcm.lastReq) < Pos(r.pcm.highestEr)
      /\ ~r.more => r.pcm.lastReq = r.pcm.highestEr
  BY <1>3, <1>8 DEF A
<1> HIDE DEF r
<1>10. ~r.more
  <2>1. r.pcm.lastReq \in SeqNumber /\ r.pcm.highestEr \in SeqNumber
        /\ r.pcm.tail = p.tail
    BY <1>9 DEF PcmType, SameEnd
  <2>2. Pos(r.pcm.lastReq) \in Nat /\ Pos(r.pcm.highestEr) \in Nat
        /\ Pos(r.pcm.highestEr) <= Pos(p.tail)
    BY <1>9, <2>1, PosFacts DEF CandOrder
  <2> QED
    BY <1>3, <1>4, <1>9, <2>2
<1>11. Complete(r, p)
  BY <1>9, <1>10 DEF Complete, b
<1> QED
  BY <1>1, <1>11 DEF r

-----------------------------------------------------------------------------
(***************************************************************************)
(* The reports of the specification.                                       *)
(***************************************************************************)
\* A report does to the cache what its pages do.
LEMMA ReportOrder ==
    ASSUME PcmInv, Views(pcm), WithinRing, Young, OrderInv,
           pcm' = Pages(pcm, now).pcm, jumps' = jumps, back' = back
    PROVE  /\ PcmType(pcm') /\ Views(pcm') /\ OrderInv'
           /\ SameViews(pcm', pcm) /\ SameOutput(pcm', pcm)
           /\ ~pcm.rcc /\ jumps = 0 /\ DOMAIN pcm.paks # {} =>
                Complete(Pages(pcm, now), pcm)
<1>1. PcmType(pcm)
  BY DEF PcmInv
<1>2. /\ PcmType(pcm') /\ SameViews(pcm', pcm) /\ SameOutput(pcm', pcm)
      /\ SameEnd(pcm', pcm)
  BY <1>1, PagesKeep
<1>3. Views(pcm')
  BY <1>2, ViewsFrame
<1>4. ASSUME ~pcm.rcc, jumps = 0, DOMAIN pcm.paks # {}
      PROVE  Complete(Pages(pcm, now), pcm)
  BY <1>4, PagesExact DEF OrderInv, PcmOrder, Young, WithinRing
<1>5. ASSUME ~pcm'.rcc, jumps' = 0
      PROVE  PcmOrder(pcm')
  <2>1. ~pcm.rcc /\ jumps = 0 /\ PcmOrder(pcm)
    BY <1>2, <1>5 DEF SameOutput, OrderInv
  <2>2. CandOrder(pcm')
    <3>1. CASE DOMAIN pcm.paks = {}
      BY <2>1, <3>1, PagesEmpty DEF PcmOrder
    <3>2. CASE DOMAIN pcm.paks # {}
      BY <1>4, <2>1, <3>2 DEF Complete
    <3> QED
      BY <3>1, <3>2
  <2>3. Fresh(pcm') /\ ~pcm'.underrunDis
    BY <1>2, <2>1 DEF PcmOrder, Fresh, SameViews, SameOutput, SameEnd
  <2> QED
    BY <2>2, <2>3 DEF PcmOrder
<1>6. OrderInv'
  BY <1>5 DEF OrderInv
<1> QED
  BY <1>2, <1>3, <1>4, <1>6

\* What a complete report lists is missing, between the ends of the cache, and
\* was not reported.
LEMMA ListedUseful ==
    ASSUME PcmInv, Views(pcm), WithinRing, Young, OrderInv, ~pcm.rcc, jumps = 0,
           DOMAIN pcm.paks # {}, NEW r, Complete(r, pcm),
           r.pcm.tail = pcm.tail, r.pcm.lastReq \in SeqNumber,
           NEW s \in r.gaps
    PROVE  /\ s \in SeqNumber /\ s \notin DOMAIN pcm.paks
           /\ Pos(pcm.lastReq) < Pos(s) /\ Pos(s) <= Pos(r.pcm.lastReq)
           /\ Pos(pcm.head) < Pos(s) /\ Pos(s) < Pos(pcm.tail)
<1> DEFINE a == GapStart(pcm)
<1>1. /\ CandOrder(pcm) /\ Close(pcm) /\ Pos(pcm.tail) < Half - 1
      /\ PcmType(pcm)
  BY DEF OrderInv, PcmOrder, Young, WithinRing, PcmInv
<1>2. /\ s \in SeqNumber /\ Pos(a) <= Pos(s) /\ Pos(s) <= Pos(r.pcm.lastReq)
      /\ Slot(s) \notin pcm.gapmap
  BY DEF Complete, Missing
<1>3. s \notin DOMAIN pcm.paks
  BY <1>2 DEF Views, Bits
<1>4. Pos(pcm.lastReq) < Pos(s) /\ Pos(pcm.head) < Pos(s)
  BY <1>1, <1>2, StartPos
<1>5. pcm.tail \in DOMAIN pcm.paks /\ pcm.tail \in SeqNumber
  BY <1>1 DEF Views, Ends, PcmType
<1>6. Pos(r.pcm.lastReq) <= Pos(pcm.tail)
  BY DEF Complete, CandOrder
<1>7. /\ Pos(s) \in Nat /\ Pos(pcm.tail) \in Nat /\ Half \in Nat
      /\ Pos(r.pcm.lastReq) \in Nat
  BY <1>2, <1>5, PosFacts, RoomFacts DEF Half
<1>8. Pos(s) # Pos(pcm.tail)
  <2>1. Pos(s) < Half /\ Pos(pcm.tail) < Half
    BY <1>1, <1>2, <1>6, <1>7
  <2>2. s # pcm.tail
    BY <1>3, <1>5
  <2> QED
    BY <1>2, <1>5, <2>1, <2>2, PosOrder
<1> QED
  BY <1>2, <1>3, <1>4, <1>6, <1>7, <1>8

\* What is reported was not reported before, for what was comes no later than
\* the last number reported.
ReportInv ==
    /\ Views(pcm) /\ OrderInv
    /\ asked \subseteq SeqNumber /\ again \in BOOLEAN /\ tb.last \in Times
    /\ ~pcm.rcc /\ jumps = 0 =>
          ~again /\ \A s \in asked : Pos(s) <= Pos(pcm.lastReq)

LEMMA InitReportInv == Init => ReportInv
<1> SUFFICES ASSUME Init PROVE ReportInv
  OBVIOUS
<1>1. Views(pcm) /\ OrderInv
  BY PcmInitViews, PcmInitOrder DEF Init
<1>2. asked = {} /\ again = FALSE /\ tb.last = 0
  BY DEF Init
<1> QED
  BY <1>1, <1>2, TimesType DEF ReportInv

\* The report's step.
LEMMA ReportReportInv ==
    ASSUME IInv, ReportInv, WithinRing, Young, Report
    PROVE  ReportInv'
<1> DEFINE b == IF tb.on THEN Credit(tb, now) ELSE tb
           g == Pages(pcm, now)
           n == ConstructNack(g.gaps, b).count
<1>1. /\ pcm' = g.pcm
      /\ tb' = IF tb.on THEN [b EXCEPT !.tokens = @ - n] ELSE b
      /\ asked' = asked \cup g.gaps
      /\ again' = (again \/ g.gaps \cap asked # {})
      /\ UNCHANGED <<now, jumps, back>>
  BY DEF Report
<1>2. /\ PcmInv /\ Views(pcm) /\ OrderInv /\ tb \in Bucket /\ tb.last \in Times
      /\ now \in Times /\ asked \subseteq SeqNumber /\ again \in BOOLEAN
      /\ PcmType(pcm)
  BY DEF IInv, PcmInv, ReportInv
<1>3. tb'.last \in Times
  <2>1. now \in Nat /\ tb.last \in Nat /\ b \in Bucket
    BY <1>2, TimesType, CreditBounds
  <2>2. b.last \in Times
    <3>1. CASE ~tb.on
      BY <1>2, <3>1
    <3>2. CASE tb.on /\ now < tb.last
      <4>1. b = [tb EXCEPT !.tokens = TokenBurst, !.last = now]
        BY <3>2 DEF Credit
      <4> QED
        BY <1>2, <4>1 DEF Bucket
    <3>3. CASE tb.on /\ tb.last <= now
      <4>1. b.last <= now
        BY <1>2, <2>1, <3>3, CreditBounds
      <4> HIDE DEF b
      <4>2. b.last \in Nat
        BY <2>1 DEF Bucket
      <4> QED
        BY <1>2, <4>1, <4>2, PcmAssumption DEF Times
    <3> QED
      BY <2>1, <3>1, <3>2, <3>3
  <2> HIDE DEF b, n
  <2> QED
    BY <1>1, <2>1, <2>2 DEF Bucket
<1>4. g.gaps \subseteq SeqNumber
  BY <1>2, PagesTypes
<1> HIDE DEF g, n, b
<1>5. /\ PcmType(pcm') /\ Views(pcm') /\ OrderInv'
      /\ SameViews(pcm', pcm) /\ SameOutput(pcm', pcm)
      /\ ~pcm.rcc /\ jumps = 0 /\ DOMAIN pcm.paks # {} => Complete(g, pcm)
  BY <1>1, <1>2, ReportOrder DEF g
<1>6. asked' \subseteq SeqNumber /\ again' \in BOOLEAN
  BY <1>1, <1>2, <1>4
<1>7. ASSUME ~pcm'.rcc, jumps' = 0
      PROVE  ~again' /\ \A s \in asked' : Pos(s) <= Pos(pcm'.lastReq)
  <2>1. /\ ~pcm.rcc /\ jumps = 0 /\ ~again
        /\ \A s \in asked : Pos(s) <= Pos(pcm.lastReq)
    BY <1>1, <1>5, <1>7 DEF SameOutput, ReportInv
  <2>2. CASE DOMAIN pcm.paks = {}
    <3>1. g.gaps = {} /\ g.pcm = pcm
      BY <2>2, PagesEmpty DEF g
    <3> QED
      BY <1>1, <2>1, <3>1
  <2>3. CASE DOMAIN pcm.paks # {}
    <3>1. Complete(g, pcm)
      BY <1>5, <2>1, <2>3
    <3>2. g.pcm.tail = pcm.tail /\ g.pcm.lastReq \in SeqNumber
      BY <1>1, <1>5 DEF SameViews, PcmType
    <3>3. \A s \in g.gaps :
            Pos(pcm.lastReq) < Pos(s) /\ Pos(s) <= Pos(pcm'.lastReq)
      BY <1>1, <1>2, <2>1, <2>3, <3>1, <3>2, ListedUseful
    <3>4. Pos(pcm.lastReq) <= Pos(pcm'.lastReq)
      BY <1>1, <3>1 DEF Complete
    <3>5. /\ Pos(pcm.lastReq) \in Nat /\ Pos(pcm'.lastReq) \in Nat
          /\ \A s \in SeqNumber : Pos(s) \in Nat
      <4>1. pcm.lastReq \in SeqNumber /\ pcm'.lastReq \in SeqNumber
        BY <1>2, <1>5 DEF PcmType
      <4> QED
        BY <4>1, PosFacts
    <3>6. g.gaps \cap asked = {}
      <4> SUFFICES ASSUME NEW s \in g.gaps, s \in asked PROVE FALSE
        OBVIOUS
      <4>1. s \in SeqNumber /\ Pos(s) <= Pos(pcm.lastReq) /\ Pos(pcm.lastReq) < Pos(s)
        BY <1>2, <2>1, <3>3
      <4> QED
        BY <3>5, <4>1
    <3>7. \A s \in asked : Pos(s) <= Pos(pcm'.lastReq)
      <4> SUFFICES ASSUME NEW s \in asked PROVE Pos(s) <= Pos(pcm'.lastReq)
        OBVIOUS
      <4>1. s \in SeqNumber /\ Pos(s) <= Pos(pcm.lastReq)
        BY <1>2, <2>1
      <4> QED
        BY <3>4, <3>5, <4>1
    <3> QED
      BY <1>1, <2>1, <3>3, <3>6, <3>7
  <2> QED
    BY <2>2, <2>3
<1> QED
  BY <1>3, <1>5, <1>6, <1>7 DEF ReportInv

LEMMA NextReportInv ==
    ASSUME IInv, ReportInv, WithinRing, WithinRing', Young, [Next]_grVars
    PROVE  ReportInv'
<1>1. CASE PcmNext /\ UNCHANGED <<tb, asked, again, drained>>
  <2>1. PcmInv /\ Views(pcm) /\ OrderInv
    BY DEF IInv, ReportInv
  <2>2. Views(pcm')
    BY <1>1, <2>1, PcmNextViews
  <2>3. /\ OrderInv' /\ (~pcm.rcc /\ jumps' = 0 => Unasked)
        /\ pcm'.rcc = pcm.rcc /\ (jumps' = 0 => jumps = 0)
    BY <1>1, <2>1, NextOrder
  <2>4. ~pcm'.rcc /\ jumps' = 0 => ~pcm.rcc /\ jumps = 0
                                   /\ pcm'.lastReq = pcm.lastReq
    BY <2>3 DEF Unasked
  <2> QED
    BY <1>1, <2>2, <2>3, <2>4 DEF ReportInv
<1>2. CASE Report
  BY <1>2, ReportReportInv
<1>3. CASE UNCHANGED grVars
  BY <1>3 DEF ReportInv, OrderInv, grVars
<1> QED
  BY <1>1, <1>2, <1>3 DEF Next

\* The steps of AskedIsUseful and of ReportComplete.
UsefulStep ==
    (jumps = 0 /\ ~pcm.rcc) =>
      \A s \in NewlyAsked :
        /\ s \notin DOMAIN pcm.paks
        /\ SeqLt(pcm.head, s) /\ SeqLt(s, pcm.tail)
        /\ lastOut # None => SeqLt(lastOut, s)

CompleteStep ==
    (jumps = 0 /\ ~pcm.rcc /\ pcm'.lastReq # pcm.lastReq) =>
        \A s \in SeqRange(GapStart(pcm), pcm'.highestEr) :
            s \in DOMAIN pcm.paks \/ s \in asked'

\* What lies between the ends of the cache comes after the last packet handed
\* on, as the ends do.
LEMMA BetweenEndsAfter ==
    ASSUME PcmInv, Views(pcm), WithinRing, OrderInv, Young, OutOrder, ~pcm.rcc,
           jumps = 0, DOMAIN pcm.paks # {}, lastOut # None,
           NEW s \in SeqNumber, Pos(pcm.head) < Pos(s), Pos(s) < Pos(pcm.tail)
    PROVE  SeqLt(lastOut, s)
<1> DEFINE h == pcm.head
           l == pcm.tail
<1>1. /\ h \in DOMAIN pcm.paks /\ l \in DOMAIN pcm.paks
      /\ h \in SeqNumber /\ l \in SeqNumber /\ SeqDist(h, l) < RingSize
      /\ Pos(l) < Half - 1
  BY DEF Views, Ends, PcmType, WithinRing, Close, Young
<1>2. /\ lastOut \in SeqNumber
      /\ 0 < SeqDist(lastOut, h) /\ SeqDist(lastOut, h) < Half
      /\ 0 < SeqDist(lastOut, l) /\ SeqDist(lastOut, l) < Half
  BY <1>1 DEF OutOrder, Ordered, After
<1>3. /\ SeqSpace \in Nat /\ Half \in Nat /\ 2 * Half <= SeqSpace
      /\ RingSize \in Nat /\ RingSize <= Half
  BY RoomFacts DEF Half
<1>4. /\ Pos(h) \in Nat /\ Pos(s) \in Nat /\ Pos(l) \in Nat
  BY <1>1, PosFacts
<1>5. /\ SeqDist(h, s) = Pos(s) - Pos(h) /\ SeqDist(h, l) = Pos(l) - Pos(h)
  <2>1. Pos(h) < Half /\ Pos(s) < Half /\ Pos(l) < Half
        /\ Pos(h) <= Pos(s) /\ Pos(h) <= Pos(l)
    BY <1>1, <1>3, <1>4
  <2> QED
    BY <1>1, <2>1, PosOrder
<1>6. SeqDist(lastOut, h) \in Nat /\ SeqDist(lastOut, l) \in Nat
  BY <1>1, <1>2, DistNat
<1> HIDE DEF h, l
<1>7. SeqDist(lastOut, s) = SeqDist(lastOut, h) + SeqDist(h, s)
  <2>1. SeqDist(lastOut, h) + SeqDist(h, s) < SeqSpace
    BY <1>1, <1>2, <1>3, <1>4, <1>5, <1>6 DEF h, l
  <2> QED
    BY <1>1, <1>2, <2>1, DistSum
<1>8. SeqDist(lastOut, l) = SeqDist(lastOut, h) + SeqDist(h, l)
  <2>1. SeqDist(lastOut, h) + SeqDist(h, l) < SeqSpace
    BY <1>1, <1>2, <1>3, <1>4, <1>5, <1>6
  <2> QED
    BY <1>1, <1>2, <2>1, DistSum
<1>9. 0 < SeqDist(lastOut, s) /\ SeqDist(lastOut, s) < Half
  BY <1>2, <1>3, <1>4, <1>5, <1>6, <1>7, <1>8 DEF h, l
<1> QED
  BY <1>2, <1>9, BeforeIsLess

LEMMA ReportUseful ==
    ASSUME IInv, ReportInv, OutOrder, WithinRing, Young, Report
    PROVE  UsefulStep
<1> SUFFICES ASSUME jumps = 0, ~pcm.rcc, NEW s \in NewlyAsked
             PROVE  /\ s \notin DOMAIN pcm.paks
                    /\ SeqLt(pcm.head, s) /\ SeqLt(s, pcm.tail)
                    /\ lastOut # None => SeqLt(lastOut, s)
  BY DEF UsefulStep
<1> DEFINE g == Pages(pcm, now)
<1>1. /\ pcm' = g.pcm /\ asked' = asked \cup g.gaps
      /\ UNCHANGED <<now, jumps, back>>
  BY DEF Report
<1>2. PcmInv /\ Views(pcm) /\ OrderInv /\ PcmType(pcm)
  BY DEF IInv, PcmInv, ReportInv
<1>3. s \in g.gaps
  BY <1>1 DEF NewlyAsked
<1>4. DOMAIN pcm.paks # {}
  BY <1>3, PagesEmpty
<1>5. /\ PcmType(pcm') /\ SameViews(pcm', pcm) /\ Complete(g, pcm)
  BY <1>1, <1>2, <1>4, ReportOrder
<1> HIDE DEF g
<1>6. g.pcm.tail = pcm.tail /\ g.pcm.lastReq \in SeqNumber
  BY <1>1, <1>5 DEF SameViews, PcmType
<1>7. /\ s \in SeqNumber /\ s \notin DOMAIN pcm.paks
      /\ Pos(pcm.head) < Pos(s) /\ Pos(s) < Pos(pcm.tail)
  BY <1>2, <1>3, <1>4, <1>5, <1>6, ListedUseful
<1>8. SeqLt(pcm.head, s) /\ SeqLt(s, pcm.tail)
  <2>1. /\ pcm.head \in SeqNumber /\ pcm.tail \in SeqNumber
        /\ Pos(pcm.tail) < Half - 1
    BY <1>2 DEF PcmType, Young
  <2>2. /\ Pos(pcm.head) \in Nat /\ Pos(s) \in Nat /\ Pos(pcm.tail) \in Nat
        /\ Half \in Nat
    BY <1>7, <2>1, PosFacts, RoomFacts DEF Half
  <2>3. Pos(pcm.head) < Half /\ Pos(s) < Half /\ Pos(pcm.tail) < Half
    BY <1>7, <2>1, <2>2
  <2> QED
    BY <1>7, <2>1, <2>3, PosOrder
<1>9. lastOut # None => SeqLt(lastOut, s)
  BY <1>2, <1>4, <1>7, BetweenEndsAfter
<1> QED
  BY <1>7, <1>8, <1>9

LEMMA ReportListsAll ==
    ASSUME IInv, ReportInv, WithinRing, Young, Report
    PROVE  CompleteStep
<1> SUFFICES ASSUME jumps = 0, ~pcm.rcc, pcm'.lastReq # pcm.lastReq,
                    NEW s \in SeqRange(GapStart(pcm), pcm'.highestEr),
                    s \notin DOMAIN pcm.paks
             PROVE  s \in asked'
  BY DEF CompleteStep
<1> DEFINE g == Pages(pcm, now)
           a == GapStart(pcm)
           e == pcm'.highestEr
<1>1. /\ pcm' = g.pcm /\ asked' = asked \cup g.gaps
      /\ UNCHANGED <<now, jumps, back>>
  BY DEF Report
<1>2. PcmInv /\ Views(pcm) /\ OrderInv /\ PcmType(pcm)
  BY DEF IInv, PcmInv, ReportInv
<1>3. DOMAIN pcm.paks # {}
  BY <1>1, PagesEmpty
<1>4. /\ PcmType(pcm') /\ SameViews(pcm', pcm) /\ Complete(g, pcm)
  BY <1>1, <1>2, <1>3, ReportOrder
<1> HIDE DEF g
<1>5. /\ CandOrder(pcm) /\ Close(pcm) /\ Pos(pcm.tail) < Half - 1
      /\ pcm.tail \in SeqNumber /\ Half \in Nat /\ Pos(pcm.tail) \in Nat
  <2>1. pcm.tail \in SeqNumber
    BY <1>2 DEF PcmType
  <2> QED
    BY <1>2, <2>1, PosFacts, RoomFacts
       DEF OrderInv, PcmOrder, Young, WithinRing, Half
<1>6. /\ e \in SeqNumber /\ Pos(e) \in Nat /\ Pos(e) <= Pos(pcm.tail)
      /\ g.gaps = Missing(pcm, a, e)
  <2>1. e \in SeqNumber /\ pcm'.tail = pcm.tail /\ CandOrder(pcm')
        /\ g.gaps = Missing(pcm, a, e)
    BY <1>1, <1>4 DEF PcmType, SameViews, Complete
  <2> QED
    BY <2>1, PosFacts DEF CandOrder
<1>7. /\ a \in SeqNumber /\ Pos(a) < Half /\ Pos(pcm.head) <= Pos(a)
  BY <1>2, <1>3, <1>5, StartPos
<1> HIDE DEF a, e
<1>8. s \in SeqNumber /\ Pos(a) <= Pos(s) /\ Pos(s) <= Pos(e)
  <2>1. Pos(e) < Half
    BY <1>5, <1>6
  <2> QED
    BY <1>6, <1>7, <2>1, RangePos DEF a, e
<1>9. Slot(s) \notin pcm.gapmap
  <2> SUFFICES ASSUME Slot(s) \in pcm.gapmap PROVE FALSE
    OBVIOUS
  <2>1. PICK x \in DOMAIN pcm.paks : Slot(x) = Slot(s)
    BY <1>2 DEF Views, Bits
  <2>2. /\ x \in SeqNumber /\ pcm.head \in SeqNumber
        /\ Pos(pcm.tail) < Pos(pcm.head) + RingSize
        /\ Pos(pcm.head) <= Pos(x) /\ Pos(x) <= Pos(pcm.tail)
    <3>1. RingSize <= Pos(pcm.tail) /\ Pos(pcm.tail) < Half
      BY <1>5 DEF CandOrder
    <3>2. x \in SeqNumber
      BY <1>2 DEF PcmType
    <3> QED
      BY <1>2, <1>3, <1>5, <3>1, <3>2, CachePos
  <2>3. /\ Pos(x) \in Nat /\ Pos(s) \in Nat /\ Pos(pcm.head) \in Nat
        /\ Pos(a) \in Nat /\ Base \in SeqNumber /\ RingSize \in Nat
    BY <1>7, <1>8, <2>2, PosFacts, RoomFacts
  <2>4. Pos(x) - Pos(s) < RingSize /\ Pos(s) - Pos(x) < RingSize
    BY <1>5, <1>6, <1>7, <1>8, <2>2, <2>3
  <2>5. x = s
    BY <1>8, <2>1, <2>2, <2>3, <2>4, SlotsRepeat DEF Pos
  <2> QED
    BY <2>5
<1>10. s \in g.gaps
  BY <1>6, <1>8, <1>9 DEF Missing
<1> QED
  BY <1>1, <1>10

\* The cache's own steps report nothing, and a clock set back leaves the cache.
LEMMA NextReports ==
    ASSUME IInv, ReportInv, WithinRing, WithinRing', Young, [Next]_grVars
    PROVE  CompleteStep /\ (OutOrder => UsefulStep)
<1>1. CASE PcmNext /\ UNCHANGED <<tb, asked, again, drained>>
  <2>1. PcmInv /\ Views(pcm) /\ OrderInv /\ jumps \in Nat
    BY DEF IInv, PcmInv, ReportInv
  <2>2. NewlyAsked = {}
    BY <1>1 DEF NewlyAsked
  <2>3. ASSUME jumps = 0, ~pcm.rcc PROVE pcm'.lastReq = pcm.lastReq
    <3>1. jumps' = 0 => pcm'.lastReq = pcm.lastReq
      BY <1>1, <2>1, <2>3, NextOrder DEF Unasked
    <3>2. jumps' # jumps => pcm' = pcm
      BY <1>1 DEF PcmNext, RxPrimary, RxRepair, OschedClockBack, OschedRun,
                  RccEnableEr, RccAbort, UpdateFecDelay, FailoverSource, ClockBack
    <3> QED
      BY <2>3, <3>1, <3>2
  <2> QED
    BY <2>2, <2>3 DEF CompleteStep, UsefulStep
<1>2. CASE Report
  BY <1>2, ReportListsAll, ReportUseful
<1>3. CASE UNCHANGED grVars
  BY <1>3 DEF CompleteStep, UsefulStep, NewlyAsked, grVars
<1> QED
  BY <1>1, <1>2, <1>3 DEF Next

LEMMA NextReportOut ==
    ASSUME IInv, ReportInv, OutOrder, WithinRing, WithinRing', RxNear,
           [Next]_grVars
    PROVE  OutOrder'
<1>1. CASE PcmNext /\ UNCHANGED <<tb, asked, again, drained>>
  BY <1>1, NextOutOrder DEF IInv, ReportInv
<1>2. CASE Report
  <2>1. pcm' = Pages(pcm, now).pcm /\ lastOut' = lastOut /\ PcmType(pcm)
    BY <1>2 DEF Report, IInv, PcmInv
  <2>2. SameViews(pcm', pcm) /\ SameOutput(pcm', pcm)
    BY <2>1, PagesKeep
  <2>3. DOMAIN pcm'.paks = DOMAIN pcm.paks
    BY <2>2 DEF SameViews
  <2> QED
    BY <2>1, <2>2, <2>3, OutOrderFrame
<1>3. CASE UNCHANGED grVars
  BY <1>3 DEF OutOrder, Ordered, After, grVars
<1> QED
  BY <1>1, <1>2, <1>3 DEF Next

\* No number is reported missing twice, however the polls, the packets that
\* come late, the candidates that time out, the under-runs and the overflows
\* fall (vqec_pcm_gap_get_gaps), as long as no rapid channel change starts the
\* channel, its clock is not set back, its packets lie within a ring, and
\* reception stays near the tail in the first half of the numbers.
THEOREM NothingAskedTwice ==
    Spec /\ []WithinRing /\ []Young => []AskedOnce
<1>1. Init => IInv /\ ReportInv
  BY InitIInv, InitReportInv
<1>2. (IInv /\ ReportInv) /\ WithinRing /\ WithinRing' /\ Young /\ [Next]_grVars
         => (IInv /\ ReportInv)'
  BY NextIInv, NextReportInv
<1>3. IInv /\ ReportInv => AskedOnce
  <2> SUFFICES ASSUME IInv, ReportInv PROVE AskedOnce
    OBVIOUS
  <2>1. PcmTypeOK
    BY DEF IInv, PcmInv, PcmType, PcmTypeOK, Times
  <2>2. tb \in [on : BOOLEAN, tokens : 0 .. TokenBurst, last : 0 .. MaxTime]
    BY DEF IInv, ReportInv, Bucket, Times
  <2>3. asked \subseteq SeqNumber /\ again \in BOOLEAN /\ drained \in Nat
    BY DEF IInv, ReportInv
  <2>4. jumps = 0 /\ ~pcm.rcc => ~again
    BY DEF ReportInv
  <2> QED
    BY <2>1, <2>2, <2>3, <2>4 DEF AskedOnce, TypeOK
<1> QED
  BY <1>1, <1>2, <1>3, PTL DEF Spec

\* And each number reported is missing from the cache, comes before a packet of
\* it, and after all that were handed on.
THEOREM RepairsAreUseful ==
    Spec /\ []WithinRing /\ []RxNear /\ []Young => AskedIsUseful
<1>1. Init => IInv /\ ReportInv /\ OutOrder
  <2>1. Init => OutOrder
    BY DEF Init, PcmInit, OutOrder
  <2> QED
    BY <2>1, InitIInv, InitReportInv
<1>2. (IInv /\ ReportInv /\ OutOrder) /\ WithinRing /\ WithinRing' /\ RxNear
        /\ Young /\ [Next]_grVars
         => (IInv /\ ReportInv /\ OutOrder)' /\ [UsefulStep]_grVars
  BY NextIInv, NextReportInv, NextReportOut, NextReports
<1> QED
  BY <1>1, <1>2, PTL DEF Spec, AskedIsUseful, UsefulStep

\* And a report leaves out no missing number between where it begins and the
\* last that may be reported, however many pages the buffer divides it into.
THEOREM ReportsAreComplete ==
    Spec /\ []WithinRing /\ []Young => ReportComplete
<1>1. Init => IInv /\ ReportInv
  BY InitIInv, InitReportInv
<1>2. (IInv /\ ReportInv) /\ WithinRing /\ WithinRing' /\ Young /\ [Next]_grVars
         => (IInv /\ ReportInv)' /\ [CompleteStep]_grVars
  BY NextIInv, NextReportInv, NextReports
<1> QED
  BY <1>1, <1>2, PTL DEF Spec, ReportComplete, CompleteStep

-----------------------------------------------------------------------------
(***************************************************************************)
(* What a NACK names.                                                      *)
(***************************************************************************)
\* Within half the space from b the ranks of a set's members are one to one.
Within(b, S) == \A s \in S : SeqDist(b, s) < Half
Rank(S, s) == Cardinality({x \in S : SeqLe(x, s)})

LEMMA RanksDiffer ==
    ASSUME NEW S \in SUBSET SeqNumber, NEW b \in SeqNumber, Within(b, S),
           NEW x \in S, NEW y \in S, SeqDist(b, x) < SeqDist(b, y)
    PROVE  Rank(S, x) < Rank(S, y)
<1> DEFINE X == {z \in S : SeqLe(z, x)}
           Y == {z \in S : SeqLe(z, y)}
<1>1. \A u, v \in S : SeqLe(u, v) <=> SeqDist(b, u) <= SeqDist(b, v)
  BY DistOrder DEF Within, Half
<1>2. \A u \in S : SeqDist(b, u) \in Nat
  BY DistNat
<1>3. X \in SUBSET Y
  BY <1>1, <1>2
<1>4. y \in Y /\ y \notin X
  BY <1>1, <1>2
<1>5. IsFiniteSet(Y)
  <2>1. IsFiniteSet(SeqNumber)
    BY FS_Interval, SeqNumAssumption DEF SeqNumber
  <2> QED
    BY <2>1, FS_Subset
<1> HIDE DEF X, Y
<1>6. Cardinality(X) <= Cardinality(Y) /\ Cardinality(X) # Cardinality(Y)
  BY <1>3, <1>4, <1>5, FS_Subset
<1>7. Cardinality(X) \in Nat /\ Cardinality(Y) \in Nat
  BY <1>3, <1>5, FS_Subset, FS_CardinalityType
<1> QED
  BY <1>6, <1>7 DEF Rank, X, Y

\* So there is one of each rank, and InOrder lists them all.
LEMMA InOrderLists ==
    ASSUME NEW S \in SUBSET SeqNumber, NEW b \in SeqNumber, Within(b, S)
    PROVE  /\ Cardinality(S) \in Nat
           /\ \A s \in S : Rank(S, s) \in 1 .. Cardinality(S)
                           /\ InOrder(S)[Rank(S, s)] = s
           /\ \A i \in 1 .. Cardinality(S) :
                 InOrder(S)[i] \in S /\ Rank(S, InOrder(S)[i]) = i
<1> DEFINE N == Cardinality(S)
           r == [s \in S |-> Rank(S, s)]
<1>1. IsFiniteSet(S) /\ N \in Nat
  <2>1. IsFiniteSet(SeqNumber)
    BY FS_Interval, SeqNumAssumption DEF SeqNumber
  <2> QED
    BY <2>1, FS_Subset, FS_CardinalityType
<1>2. ASSUME NEW s \in S PROVE Rank(S, s) \in 1 .. N
  <2> DEFINE X == {x \in S : SeqLe(x, s)}
  <2>1. X \in SUBSET S /\ s \in X
    BY DEF SeqLe
  <2> HIDE DEF X
  <2>2. IsFiniteSet(X) /\ Cardinality(X) <= N /\ Cardinality(X) \in Nat
    BY <1>1, <2>1, FS_Subset, FS_CardinalityType
  <2>3. Cardinality(X) # 0
    BY <2>1, <2>2, FS_EmptySet
  <2> QED
    BY <1>1, <2>2, <2>3 DEF Rank, X
<1>3. \A x, y \in S : Rank(S, x) = Rank(S, y) => x = y
  <2> SUFFICES ASSUME NEW x \in S, NEW y \in S, Rank(S, x) = Rank(S, y)
               PROVE  x = y
    OBVIOUS
  <2>1. ~(SeqDist(b, x) < SeqDist(b, y)) /\ ~(SeqDist(b, y) < SeqDist(b, x))
    <3>1. Rank(S, x) \in Nat /\ Rank(S, y) \in Nat
      BY <1>1, <1>2
    <3> QED
      BY <3>1, RanksDiffer
  <2>2. SeqDist(b, x) \in Nat /\ SeqDist(b, y) \in Nat
    BY DistNat
  <2>3. SeqDist(b, x) = SeqDist(b, y)
    BY <2>1, <2>2
  <2> QED
    BY <2>3, DistEqual
<1>4. \A i \in 1 .. N : \E s \in S : Rank(S, s) = i
  <2>1. r \in Injection(S, 1 .. N)
    <3>1. /\ r \in [S -> 1 .. N]
          /\ \A x, y \in S : r[x] = r[y] => x = y
      BY <1>2, <1>3
    <3> HIDE DEF r
    <3> QED
      BY <3>1 DEF Injection, IsInjective
  <2>2. IsFiniteSet(1 .. N) /\ Cardinality(1 .. N) = N
    BY <1>1, FS_Interval
  <2>3. r \in Surjection(S, 1 .. N)
    BY <2>1, <2>2, FS_Injection
  <2> QED
    BY <2>3 DEF Surjection
<1>5. ASSUME NEW i \in 1 .. N
      PROVE  InOrder(S)[i] \in S /\ Rank(S, InOrder(S)[i]) = i
  <2>1. InOrder(S)[i] = CHOOSE s \in S : Rank(S, s) = i
    BY DEF InOrder, Rank
  <2> QED
    BY <1>4, <2>1
<1>6. ASSUME NEW s \in S PROVE InOrder(S)[Rank(S, s)] = s
  BY <1>2, <1>3, <1>5
<1> QED
  BY <1>1, <1>2, <1>5, <1>6

\* Sums of residues.
LEMMA ModShift ==
    ASSUME NEW x \in Nat
    PROVE  /\ \A k \in Int : x + RtpMod * k \in Nat =>
                (x + RtpMod * k) % RtpMod = x % RtpMod
           /\ x % RtpMod \in Nat /\ \E l \in Int : x % RtpMod = x + RtpMod * l
<1>1. RtpMod \in Nat /\ RtpMod > 0
  BY SeqNumAssumption
<1>2. \A u, v \in Nat : v > 0 => u = v * (u \div v) + (u % v) /\ u \div v \in Int
  OBVIOUS
<1>3. \A u, v \in Nat : v > 0 => u % v \in 0 .. v - 1
  OBVIOUS
<1>4. \A u \in Nat :
        /\ u = RtpMod * (u \div RtpMod) + (u % RtpMod) /\ u \div RtpMod \in Int
        /\ u % RtpMod \in 0 .. RtpMod - 1
  BY <1>1, <1>2, <1>3
<1>5. ASSUME NEW k \in Int, x + RtpMod * k \in Nat
      PROVE  (x + RtpMod * k) % RtpMod = x % RtpMod
  <2> DEFINE y == x + RtpMod * k
             i == x \div RtpMod
             j == y \div RtpMod
             e == x % RtpMod
             g == y % RtpMod
             d == j - i - k
             n == RtpMod * d
  <2>1. RtpMod * k \in Int /\ y \in Nat /\ y = x + RtpMod * k
    BY <1>1, <1>5
  <2>2. /\ x = RtpMod * i + e /\ i \in Int /\ e \in Int
        /\ 0 <= e /\ e < RtpMod
    BY <1>1, <1>4
  <2>3. /\ y = RtpMod * j + g /\ j \in Int /\ g \in Int
        /\ 0 <= g /\ g < RtpMod
    BY <1>1, <1>4, <2>1
  <2> HIDE DEF y, i, j, e, g
  <2>4. d \in Int /\ RtpMod * j \in Int /\ RtpMod * i \in Int
    BY <1>1, <2>2, <2>3
  <2>5. n = RtpMod * j - RtpMod * i - RtpMod * k
    <3>1. \A u, v, w \in Int : /\ u * (v - w) = u * v - u * w
                               /\ v - w \in Int
      OBVIOUS
    <3>2. RtpMod \in Int /\ j - i \in Int
      BY <1>1, <2>2, <2>3
    <3>3. RtpMod * (j - i) = RtpMod * j - RtpMod * i
      BY <2>2, <2>3, <3>1, <3>2
    <3>4. RtpMod * ((j - i) - k) = RtpMod * (j - i) - RtpMod * k
      BY <3>1, <3>2
    <3> QED
      BY <3>3, <3>4
  <2>6. n = e - g
    <3> DEFINE a == RtpMod * i
               b == RtpMod * j
               c == RtpMod * k
    <3>1. /\ x = a + e /\ y = b + g /\ y = x + c /\ n = b - a - c
          /\ a \in Int /\ b \in Int /\ c \in Int
      BY <2>1, <2>2, <2>3, <2>4, <2>5
    <3> HIDE DEF a, b, c, n
    <3> QED
      BY <2>2, <2>3, <3>1
  <2>7. d = 0
    <3>1. \A u, v \in Int : u > 0 /\ v >= 1 => u * v >= u
      OBVIOUS
    <3>2. \A u, v \in Int : u > 0 /\ v <= -1 => u * v <= -u
      OBVIOUS
    <3>3. d >= 1 => n >= RtpMod
      BY <1>1, <2>4, <3>1
    <3>4. d <= -1 => n <= -RtpMod
      BY <1>1, <2>4, <3>2
    <3> HIDE DEF d, n
    <3> QED
      BY <1>1, <2>2, <2>3, <2>4, <2>6, <3>3, <3>4
  <2>8. n = 0
    BY <1>1, <2>7
  <2> HIDE DEF n
  <2>9. e = g
    BY <2>2, <2>3, <2>6, <2>8
  <2> QED
    BY <2>9 DEF y, e, g
<1>6. \E l \in Int : x % RtpMod = x + RtpMod * l
  <2> DEFINE i == x \div RtpMod
             e == x % RtpMod
  <2>1. x = RtpMod * i + e /\ i \in Int /\ e \in Int
    BY <1>1, <1>4
  <2> HIDE DEF i, e
  <2>2. RtpMod * (-i) = -(RtpMod * i) /\ -i \in Int /\ RtpMod * i \in Int
    BY <1>1, <2>1
  <2>3. e = x + RtpMod * (-i)
    BY <2>1, <2>2
  <2> QED
    BY <2>2, <2>3 DEF e
<1>7. x % RtpMod \in Nat
  BY <1>1, <1>4
<1> QED
  BY <1>5, <1>6, <1>7

\* A receiver that counts on from the first number of a field finds the number
\* whose bit was set.
LEMMA FieldDecodes ==
    ASSUME NEW p \in SeqNumber, NEW s \in SeqNumber
    PROVE  /\ ((p % RtpMod) + SeqDist(p, s)) % RtpMod = s % RtpMod
           /\ ((p % RtpMod) + 0) % RtpMod = p % RtpMod
<1>1. RtpMod \in Nat /\ RtpMod > 0 /\ p \in Nat /\ s \in Nat
      /\ SeqSpace \in Nat
  BY SeqNumAssumption, RoomFacts DEF SeqNumber
<1>2. PICK m \in Int : SeqSpace = RtpMod * m
  <2>1. \A u, v \in Nat : v > 0 => u = v * (u \div v) + (u % v) /\ u \div v \in Nat
    OBVIOUS
  <2>2. SeqSpace % RtpMod = 0
    BY SeqNumAssumption
  <2> DEFINE m == SeqSpace \div RtpMod
  <2>3. SeqSpace = RtpMod * m /\ m \in Nat
    BY <1>1, <2>1, <2>2
  <2> HIDE DEF m
  <2> QED
    BY <2>3
<1>3. PICK l \in Int : p % RtpMod = p + RtpMod * l
  BY <1>1, ModShift
<1>4. p % RtpMod \in Nat
  BY <1>1, ModShift
<1>5. SeqDist(p, s) \in Nat /\ SeqDist(p, s) \in {s - p, s - p + RtpMod * m}
  BY <1>1, <1>2, DistNat, DistValue
<1>6. PICK k \in Int : SeqDist(p, s) = s - p + RtpMod * k
  <2>1. RtpMod * 0 = 0
    BY <1>1
  <2>2. s - p = s - p + RtpMod * 0
    BY <1>1, <2>1
  <2> QED
    BY <1>5, <2>2
<1>7. (p % RtpMod) + SeqDist(p, s) = s + RtpMod * (l + k) /\ l + k \in Int
  <2>1. \A u, v, w \in Int : u * (v + w) = u * v + u * w /\ u * v \in Int
    OBVIOUS
  <2>2. /\ RtpMod * (l + k) = RtpMod * l + RtpMod * k
        /\ RtpMod * l \in Int /\ RtpMod * k \in Int
    BY <1>1, <2>1
  <2> DEFINE a == RtpMod * l
             b == RtpMod * k
             c == RtpMod * (l + k)
             e == p % RtpMod
  <2>3. e = p + a /\ SeqDist(p, s) = s - p + b /\ c = a + b
        /\ a \in Int /\ b \in Int
    BY <1>3, <1>6, <2>2
  <2> HIDE DEF a, b, c, e
  <2>4. e + SeqDist(p, s) = s + c
    BY <1>1, <2>3
  <2> QED
    BY <2>4 DEF c, e
<1>8. ((p % RtpMod) + SeqDist(p, s)) % RtpMod = s % RtpMod
  <2>1. (p % RtpMod) + SeqDist(p, s) \in Nat
    BY <1>4, <1>5
  <2> QED
    BY <1>1, <1>7, <2>1, ModShift
<1>9. ((p % RtpMod) + 0) % RtpMod = p % RtpMod
  <2>1. (p % RtpMod) + 0 = p + RtpMod * l /\ p + RtpMod * l \in Nat
    BY <1>1, <1>3, <1>4
  <2> QED
    BY <1>1, <2>1, ModShift
<1> QED
  BY <1>8, <1>9

-----------------------------------------------------------------------------
\* A field being filled, and the RTP numbers a receiver reads from one.
NackField == [pid : SeqNumber, blp : SUBSET Int]
Named(f) == {((f.pid % RtpMod) + i) % RtpMod : i \in {0} \cup {b + 1 : b \in f.blp}}

LEMMA NamedFirst ==
    ASSUME NEW s \in SeqNumber
    PROVE  /\ [pid |-> s, blp |-> {}] \in NackField
           /\ Named([pid |-> s, blp |-> {}]) = {s % RtpMod}
<1>1. ((s % RtpMod) + 0) % RtpMod = s % RtpMod
  BY FieldDecodes
<1> QED
  BY <1>1 DEF NackField, Named

LEMMA NamedMore ==
    ASSUME NEW f \in NackField, NEW s \in SeqNumber, NEW g,
           g = [f EXCEPT !.blp = @ \cup {SeqDist(f.pid, s) - 1}]
    PROVE  g \in NackField /\ Named(g) = Named(f) \cup {s % RtpMod}
<1> DEFINE d == SeqDist(f.pid, s)
<1>1. f.pid \in SeqNumber /\ f.blp \subseteq Int /\ d \in Int
  BY DistNat DEF NackField
<1>2. ((f.pid % RtpMod) + d) % RtpMod = s % RtpMod
  BY <1>1, FieldDecodes
<1>3. g.pid = f.pid /\ g.blp = f.blp \cup {d - 1} /\ g \in NackField
  BY <1>1 DEF NackField
<1> HIDE DEF d
<1>4. (d - 1) + 1 = d
  BY <1>1
<1>5. {b + 1 : b \in g.blp} = {b + 1 : b \in f.blp} \cup {d}
  BY <1>3, <1>4
<1> QED
  BY <1>2, <1>3, <1>5 DEF Named

\* What the fields before the last one, and the last, name.
AllNamed(a) == (UNION {Named(a.fci[i]) : i \in 1 .. Len(a.fci)}) \cup Named(a.cur)

\* The RTP bits of the first n numbers, and how many of k are paid for.
FirstOf(seq, n) == {seq[i] % RtpMod : i \in 1 .. n}
Paid(on, t, k) == IF on /\ k > t THEN t ELSE k

\* As long as there are fields left, those so far name the numbers so far that
\* were paid for.
NackNames(a, seq, on, t, k) ==
    /\ DOMAIN a = {"fci", "cur", "count", "tokens", "broken"}
    /\ a.fci \in Seq(NackField) /\ a.cur \in NackField \cup {None}
    /\ a.cur = None => a.fci = <<>>
    /\ Len(a.fci) < FciMax =>
         /\ ~a.broken
         /\ a.count = Paid(on, t, k) /\ (on => a.tokens = t - a.count)
         /\ a.cur = None => a.count = 0
         /\ a.cur # None => AllNamed(a) = FirstOf(seq, a.count)

LEMMA EncodeOneNames ==
    ASSUME NEW seq, NEW on \in BOOLEAN, NEW t \in Nat, NEW k \in Nat,
           NEW s \in SeqNumber, s = seq[k + 1], NEW starts, NEW a,
           NackNames(a, seq, on, t, k)
    PROVE  NackNames(EncodeOne(a, s, on, starts), seq, on, t, k + 1)
<1> DEFINE c == EncodeOne(a, s, on, starts)
           b == [a EXCEPT !.count = @ + 1, !.tokens = IF on THEN @ - 1 ELSE @,
                          !.broken = FALSE]
           new == [pid |-> s, blp |-> {}]
           more == [a.cur EXCEPT !.blp = @ \cup {SeqDist(a.cur.pid, s) - 1}]
           Good(x) == NackNames(x, seq, on, t, k + 1)
<1> SUFFICES Good(c)
  OBVIOUS
<1>1. /\ DOMAIN a = {"fci", "cur", "count", "tokens", "broken"}
      /\ a.fci \in Seq(NackField) /\ a.cur \in NackField \cup {None}
      /\ a.cur = None => a.fci = <<>>
      /\ Len(a.fci) \in Nat /\ FciMax \in Nat /\ FciMax > 0
  BY GapReporterAssumption DEF NackNames
<1>2. new \in NackField /\ Named(new) = {s % RtpMod} /\ new # None
  BY NamedFirst, GapReporterAssumption DEF NackField
<1>3. CASE ~(Len(a.fci) < FciMax)
  <2>1. c \in {a, [a EXCEPT !.broken = FALSE], [b EXCEPT !.broken = TRUE]}
    BY <1>1, <1>3 DEF EncodeOne
  <2>2. /\ DOMAIN c = {"fci", "cur", "count", "tokens", "broken"}
        /\ c.fci = a.fci /\ c.cur = a.cur
    BY <1>1, <2>1
  <2> HIDE DEF c
  <2> QED
    BY <1>1, <1>3, <2>2 DEF NackNames
<1>4. CASE Len(a.fci) < FciMax /\ on /\ a.tokens = 0
  <2>1. /\ ~a.broken /\ a.count = Paid(on, t, k) /\ a.tokens = t - a.count
        /\ a.cur = None => a.count = 0
        /\ a.cur # None => AllNamed(a) = FirstOf(seq, a.count)
    BY <1>4 DEF NackNames
  <2>2. c = [a EXCEPT !.broken = FALSE]
    BY <1>4, <2>1 DEF EncodeOne
  <2>3. /\ DOMAIN c = {"fci", "cur", "count", "tokens", "broken"}
        /\ c.fci = a.fci /\ c.cur = a.cur /\ c.count = a.count
        /\ c.tokens = a.tokens /\ ~c.broken
    BY <1>1, <2>2
  <2>4. Paid(on, t, k + 1) = Paid(on, t, k)
    BY <1>4, <2>1 DEF Paid
  <2> HIDE DEF c
  <2> QED
    BY <1>1, <2>1, <2>3, <2>4 DEF NackNames, AllNamed
<1>5. CASE Len(a.fci) < FciMax /\ ~(on /\ a.tokens = 0)
  <2>1. /\ ~a.broken /\ a.count = Paid(on, t, k) /\ (on => a.tokens = t - a.count)
        /\ a.cur = None => a.count = 0
        /\ a.cur # None => AllNamed(a) = FirstOf(seq, a.count)
    BY <1>5 DEF NackNames
  <2>2. a.count = k /\ Paid(on, t, k + 1) = k + 1
    <3>1. CASE on
      <4>1. a.count \in Nat
        <5>1. Paid(on, t, k) \in Nat
          BY DEF Paid
        <5> QED
          BY <2>1, <5>1
      <4>2. a.count # t
        <5>1. a.tokens = t - a.count
          BY <2>1, <3>1
        <5>2. a.tokens # 0
          BY <1>5, <3>1
        <5> QED
          BY <4>1, <5>1, <5>2
      <4> QED
        BY <2>1, <3>1, <4>2 DEF Paid
    <3>2. CASE ~on
      BY <2>1, <3>2 DEF Paid
    <3> QED
      BY <3>1, <3>2
  <2>3. /\ DOMAIN b = {"fci", "cur", "count", "tokens", "broken"}
        /\ b.fci = a.fci /\ b.cur = a.cur /\ b.count = k + 1 /\ ~b.broken
        /\ on => b.tokens = t - (k + 1)
    BY <1>1, <2>1, <2>2
  <2>4. FirstOf(seq, k + 1) = FirstOf(seq, k) \cup {s % RtpMod}
    <3>1. 1 .. (k + 1) = (1 .. k) \cup {k + 1}
      OBVIOUS
    <3> QED
      BY <3>1 DEF FirstOf
  <2>5. c = IF a.cur = None THEN [b EXCEPT !.cur = new]
            ELSE IF \/ SeqLt(s, a.cur.pid)
                    \/ SeqLt(SeqAdd(a.cur.pid, BlpMax), s)
            THEN [b EXCEPT !.fci = Append(@, a.cur), !.cur = new]
            ELSE [b EXCEPT !.cur.blp = @ \cup {SeqDist(a.cur.pid, s) - 1}]
    BY <1>1, <1>5, <2>1 DEF EncodeOne
  <2>6. [b EXCEPT !.cur.blp = @ \cup {SeqDist(a.cur.pid, s) - 1}]
          = [b EXCEPT !.cur = more]
    BY <2>3
  <2> HIDE DEF b, c, new, more
  <2>7. ASSUME NEW x, /\ DOMAIN x = {"fci", "cur", "count", "tokens", "broken"}
                      /\ x.count = b.count /\ x.tokens = b.tokens /\ ~x.broken,
               x.fci \in Seq(NackField), x.cur \in NackField, x.cur # None,
               AllNamed(x) = FirstOf(seq, k + 1)
        PROVE  Good(x)
    BY <2>2, <2>3, <2>7 DEF NackNames
  <2> HIDE DEF Good
  <2>8. CASE a.cur = None
    <3>1. c = [b EXCEPT !.cur = new]
      BY <2>5, <2>8
    <3>2. /\ DOMAIN c = {"fci", "cur", "count", "tokens", "broken"}
          /\ c.count = b.count /\ c.tokens = b.tokens /\ c.broken = b.broken
          /\ c.fci = b.fci /\ c.cur = new
      BY <2>3, <3>1
    <3>3. c.fci = <<>> /\ Len(<<>>) = 0
      BY <1>1, <2>3, <2>8, <3>2
    <3>4. AllNamed(c) = {s % RtpMod}
      <4>1. 1 .. Len(c.fci) = {}
        BY <3>3
      <4>2. UNION {Named(c.fci[i]) : i \in 1 .. Len(c.fci)} = {}
        BY <4>1
      <4>3. Named(c.cur) = {s % RtpMod}
        BY <1>2, <3>2
      <4> QED
        BY <4>2, <4>3 DEF AllNamed
    <3>5. FirstOf(seq, k) = {}
      <4>1. k = 0
        BY <2>1, <2>2, <2>8
      <4> QED
        BY <4>1 DEF FirstOf
    <3> QED
      BY <1>1, <1>2, <2>3, <2>4, <2>7, <3>2, <3>4, <3>5
  <2>9. CASE /\ a.cur # None
             /\ SeqLt(s, a.cur.pid) \/ SeqLt(SeqAdd(a.cur.pid, BlpMax), s)
    <3>1. c = [b EXCEPT !.fci = Append(a.fci, a.cur), !.cur = new]
      BY <2>3, <2>5, <2>9
    <3>2. /\ DOMAIN c = {"fci", "cur", "count", "tokens", "broken"}
          /\ c.count = b.count /\ c.tokens = b.tokens /\ c.broken = b.broken
          /\ c.fci = Append(a.fci, a.cur) /\ c.cur = new
      BY <2>3, <3>1
    <3>3. /\ c.fci \in Seq(NackField) /\ Len(c.fci) = Len(a.fci) + 1
          /\ \A i \in 1 .. Len(a.fci) : c.fci[i] = a.fci[i]
          /\ c.fci[Len(a.fci) + 1] = a.cur
      BY <1>1, <2>9, <3>2
    <3>4. 1 .. Len(c.fci) = (1 .. Len(a.fci)) \cup {Len(a.fci) + 1}
      BY <1>1, <3>3
    <3>5. AllNamed(c) = AllNamed(a) \cup {s % RtpMod}
      <4> DEFINE old == {Named(a.fci[i]) : i \in 1 .. Len(a.fci)}
      <4>1. {Named(c.fci[i]) : i \in 1 .. Len(c.fci)} = old \cup {Named(a.cur)}
        BY <3>3, <3>4
      <4> HIDE DEF old
      <4>2. UNION (old \cup {Named(a.cur)}) = (UNION old) \cup Named(a.cur)
        OBVIOUS
      <4>3. AllNamed(a) = (UNION old) \cup Named(a.cur)
        BY DEF AllNamed, old
      <4>4. Named(c.cur) = {s % RtpMod}
        BY <1>2, <3>2
      <4>5. AllNamed(c) = (UNION (old \cup {Named(a.cur)})) \cup {s % RtpMod}
        BY <4>1, <4>4 DEF AllNamed
      <4> QED
        BY <4>2, <4>3, <4>5
    <3> QED
      BY <1>2, <2>1, <2>2, <2>3, <2>4, <2>7, <2>9, <3>2, <3>3, <3>5
  <2>10. CASE /\ a.cur # None
              /\ ~(SeqLt(s, a.cur.pid) \/ SeqLt(SeqAdd(a.cur.pid, BlpMax), s))
    <3>1. c = [b EXCEPT !.cur = more]
      BY <2>5, <2>6, <2>10
    <3>2. /\ DOMAIN c = {"fci", "cur", "count", "tokens", "broken"}
          /\ c.count = b.count /\ c.tokens = b.tokens /\ c.broken = b.broken
          /\ c.fci = a.fci /\ c.cur = more
      BY <2>3, <3>1
    <3>3. a.cur \in NackField
      BY <1>1, <2>10
    <3>4. more \in NackField /\ Named(more) = Named(a.cur) \cup {s % RtpMod}
      BY <3>3, NamedMore DEF more
    <3>5. more # None
      BY <3>4, GapReporterAssumption DEF NackField
    <3>6. AllNamed(c) = AllNamed(a) \cup {s % RtpMod}
      <4> DEFINE old == UNION {Named(a.fci[i]) : i \in 1 .. Len(a.fci)}
      <4>1. UNION {Named(c.fci[i]) : i \in 1 .. Len(c.fci)} = old
        BY <3>2
      <4> HIDE DEF old
      <4>2. AllNamed(a) = old \cup Named(a.cur)
        BY DEF AllNamed, old
      <4>3. Named(c.cur) = Named(a.cur) \cup {s % RtpMod}
        BY <3>2, <3>4
      <4>4. AllNamed(c) = old \cup (Named(a.cur) \cup {s % RtpMod})
        BY <4>1, <4>3 DEF AllNamed
      <4> QED
        BY <4>2, <4>4
    <3> QED
      BY <1>1, <2>1, <2>2, <2>3, <2>4, <2>7, <2>10, <3>2, <3>4, <3>5, <3>6
  <2> QED
    BY <2>8, <2>9, <2>10
<1> QED
  BY <1>3, <1>4, <1>5

\* All missing numbers, by induction along them.
LEMMA EncodeAllNames ==
    ASSUME NEW gaps \in SUBSET SeqNumber, NEW low \in SeqNumber, Within(low, gaps),
           NEW b, b.on \in BOOLEAN, b.tokens \in Nat
    PROVE  NackNames(EncodeAll(gaps, b), InOrder(gaps), b.on, b.tokens,
                     Cardinality(gaps))
<1> DEFINE N == Cardinality(gaps)
           seq == InOrder(gaps)
<1>1. N \in Nat /\ \A i \in 1 .. N : seq[i] \in SeqNumber
  BY InOrderLists
<1>2. PICK f : /\ f[0] = NackStart(b)
               /\ \A i \in 1 .. N :
                    f[i] = EncodeOne(f[i - 1], seq[i], b.on,
                                     PreSeq(seq[i]) \notin gaps)
               /\ f[N] = EncodeAll(gaps, b)
  BY <1>1, EncodeAllFold
<1> HIDE DEF N, seq
<1> DEFINE A == {i \in 0 .. N : NackNames(f[i], seq, b.on, b.tokens, i)}
<1>3. 0 \in A
  <2> DEFINE a == NackStart(b)
  <2>1. /\ DOMAIN a = {"fci", "cur", "count", "tokens", "broken"}
        /\ a.fci = <<>> /\ a.cur = None /\ a.count = 0 /\ a.tokens = b.tokens
        /\ a.broken = FALSE
    BY DEF NackStart
  <2>2. Paid(b.on, b.tokens, 0) = 0 /\ b.tokens - 0 = b.tokens
    BY DEF Paid
  <2> HIDE DEF a
  <2>3. NackNames(a, seq, b.on, b.tokens, 0)
    BY <2>1, <2>2 DEF NackNames
  <2> QED
    BY <1>1, <1>2, <2>3 DEF a
<1>4. ASSUME NEW k \in 0 .. N - 1, k \in A
      PROVE  k + 1 \in A
  <2>1. k + 1 \in 1 .. N /\ (k + 1) - 1 = k /\ k + 1 \in 0 .. N /\ k \in Nat
    BY <1>1
  <2>2. f[k + 1] = EncodeOne(f[k], seq[k + 1], b.on,
                             PreSeq(seq[k + 1]) \notin gaps)
    BY <1>2, <2>1
  <2>3. NackNames(f[k], seq, b.on, b.tokens, k) /\ seq[k + 1] \in SeqNumber
    BY <1>1, <1>4, <2>1
  <2>4. NackNames(f[k + 1], seq, b.on, b.tokens, k + 1)
    BY <2>1, <2>2, <2>3, EncodeOneNames
  <2> QED
    BY <2>1, <2>4
<1> HIDE DEF A
<1>5. N \in A
  BY <1>1, <1>3, <1>4, BoundedInduction
<1> QED
  BY <1>2, <1>5 DEF A, N, seq

\* A NACK that is sent names the first missing numbers that there are tokens
\* for, and no others.
LEMMA NackNamesFirst ==
    ASSUME NEW gaps \in SUBSET SeqNumber, NEW low \in SeqNumber, Within(low, gaps),
           NEW b, b.on \in BOOLEAN, b.tokens \in Nat,
           ConstructNack(gaps, b).fields # <<>>
    PROVE  Decoded(ConstructNack(gaps, b).fields)
             = {s % RtpMod : s \in {s \in gaps : b.on => Rank(gaps, s) <= b.tokens}}
<1> DEFINE N == Cardinality(gaps)
           seq == InOrder(gaps)
           a == EncodeAll(gaps, b)
           all == IF a.cur = None THEN <<>> ELSE Append(a.fci, a.cur)
           fields == ConstructNack(gaps, b).fields
           first == {s \in gaps : b.on => Rank(gaps, s) <= b.tokens}
           n == Paid(b.on, b.tokens, N)
<1>1. NackNames(a, seq, b.on, b.tokens, N)
  BY EncodeAllNames
<1>2. /\ N \in Nat
      /\ \A s \in gaps : Rank(gaps, s) \in 1 .. N /\ seq[Rank(gaps, s)] = s
      /\ \A i \in 1 .. N : seq[i] \in gaps /\ Rank(gaps, seq[i]) = i
  BY InOrderLists
<1>3. fields = IF Len(all) > FciMax THEN <<>>
               ELSE [i \in DOMAIN all |-> [all[i] EXCEPT !.pid = @ % RtpMod]]
  BY DEF ConstructNack
<1> HIDE DEF a, N, seq, fields
<1>4. /\ a.fci \in Seq(NackField) /\ a.cur \in NackField \cup {None}
      /\ Len(a.fci) \in Nat /\ FciMax \in Nat
  BY <1>1, GapReporterAssumption DEF NackNames
<1>5. a.cur # None /\ ~(Len(all) > FciMax)
  <2>1. fields # <<>>
    BY DEF fields
  <2>2. ~(Len(all) > FciMax)
    BY <1>3, <2>1
  <2>3. ASSUME a.cur = None PROVE fields = <<>>
    <3>1. all = <<>> /\ DOMAIN all = {}
      BY <2>3
    <3> HIDE DEF all
    <3>2. fields = [i \in {} |-> [all[i] EXCEPT !.pid = @ % RtpMod]]
      BY <1>3, <2>2, <3>1
    <3> QED
      BY <3>2
  <2> QED
    BY <2>1, <2>2, <2>3
<1>6. /\ all = Append(a.fci, a.cur) /\ all \in Seq(NackField)
      /\ Len(all) = Len(a.fci) + 1 /\ DOMAIN all = 1 .. Len(a.fci) + 1
      /\ \A i \in 1 .. Len(a.fci) : all[i] = a.fci[i]
      /\ all[Len(a.fci) + 1] = a.cur
      /\ \A i \in DOMAIN all : all[i] \in NackField
  BY <1>4, <1>5
<1> HIDE DEF all
<1>7. AllNamed(a) = FirstOf(seq, n) /\ a.count = n
  <2>1. Len(a.fci) < FciMax
    BY <1>4, <1>5, <1>6
  <2> QED
    BY <1>1, <1>5, <2>1 DEF NackNames
<1>8. Decoded(fields) = UNION {Named(all[i]) : i \in DOMAIN all}
  <2>1. /\ DOMAIN fields = DOMAIN all
        /\ \A i \in DOMAIN all : fields[i] = [all[i] EXCEPT !.pid = @ % RtpMod]
    BY <1>3, <1>5
  <2> DEFINE Read(f) == {(f.pid + i) % RtpMod :
                             i \in {0} \cup {x + 1 : x \in f.blp}}
  <2>2. \A i \in DOMAIN all : Read(fields[i]) = Named(all[i])
    <3> SUFFICES ASSUME NEW i \in DOMAIN all
                 PROVE  Read(fields[i]) = Named(all[i])
      OBVIOUS
    <3>1. all[i] \in NackField
      BY <1>6
    <3>2. fields[i].pid = all[i].pid % RtpMod /\ fields[i].blp = all[i].blp
      BY <2>1, <3>1 DEF NackField
    <3> QED
      BY <3>2 DEF Named
  <2>3. Decoded(fields) = UNION {Read(f) : f \in ToSet(fields)}
    BY DEF Decoded
  <2>4. ToSet(fields) = {fields[i] : i \in DOMAIN all}
    BY <2>1 DEF ToSet
  <2> HIDE DEF Read
  <2>5. {Read(f) : f \in ToSet(fields)} = {Named(all[i]) : i \in DOMAIN all}
    BY <2>2, <2>4
  <2> QED
    BY <2>3, <2>5
<1>9. Decoded(fields) = AllNamed(a)
  <2> DEFINE old == {Named(a.fci[i]) : i \in 1 .. Len(a.fci)}
  <2>1. DOMAIN all = (1 .. Len(a.fci)) \cup {Len(a.fci) + 1}
    BY <1>4, <1>6
  <2>2. {Named(all[i]) : i \in DOMAIN all} = old \cup {Named(a.cur)}
    BY <1>6, <2>1
  <2>3. AllNamed(a) = (UNION old) \cup Named(a.cur)
    BY DEF AllNamed
  <2> HIDE DEF old
  <2>4. UNION (old \cup {Named(a.cur)}) = (UNION old) \cup Named(a.cur)
    OBVIOUS
  <2> QED
    BY <1>8, <2>2, <2>3, <2>4
<1>10. {seq[i] : i \in 1 .. n} = first
  <2>1. n \in Nat /\ n <= N /\ (b.on => n <= b.tokens)
        /\ \A i \in 1 .. N : (b.on => i <= b.tokens) => i \in 1 .. n
    BY <1>2 DEF Paid
  <2> HIDE DEF n
  <2>2. ASSUME NEW i \in 1 .. n PROVE seq[i] \in first
    <3>1. i \in 1 .. N /\ (b.on => i <= b.tokens)
      BY <1>2, <2>1
    <3> QED
      BY <1>2, <3>1
  <2>3. ASSUME NEW s \in first PROVE \E i \in 1 .. n : s = seq[i]
    <3> DEFINE i == Rank(gaps, s)
    <3>1. i \in 1 .. N /\ seq[i] = s /\ (b.on => i <= b.tokens)
      BY <1>2
    <3> HIDE DEF i
    <3>2. i \in 1 .. n
      BY <2>1, <3>1
    <3> QED
      BY <3>1, <3>2
  <2> HIDE DEF first
  <2> QED
    BY <2>2, <2>3
<1>11. FirstOf(seq, n) = {s % RtpMod : s \in {seq[i] : i \in 1 .. n}}
  BY DEF FirstOf
<1> QED
  BY <1>7, <1>9, <1>10, <1>11 DEF fields

-----------------------------------------------------------------------------
(***************************************************************************)
(* The NACKs of the specification.                                         *)
(***************************************************************************)
\* What a report is about to list spans less than half the numbers.
GapsNear == \E low \in SeqNumber : Within(low, Pages(pcm, now).gaps)

NackStep ==
    drained' # drained =>
          LET all == Pages(pcm, now).gaps
              b == IF tb.on THEN Credit(tb, now) ELSE tb
              first == {s \in all : tb.on =>
                           Cardinality({x \in all : SeqLe(x, s)}) <= b.tokens}
              f == ConstructNack(all, b).fields
          IN  f # <<>> => Decoded(f) = {s % RtpMod : s \in first}

\* A report's NACK, and with it the step's, is exact.
LEMMA ReportNack ==
    ASSUME IInv, GapsNear
    PROVE  NackStep
<1> DEFINE all == Pages(pcm, now).gaps
           b == IF tb.on THEN Credit(tb, now) ELSE tb
           f == ConstructNack(all, b).fields
           first == {s \in all : tb.on =>
                       Cardinality({x \in all : SeqLe(x, s)}) <= b.tokens}
<1>1. /\ PcmType(pcm) /\ now \in Nat /\ tb \in Bucket
  BY TimesType DEF IInv, PcmInv
<1>2. b.on = tb.on /\ b.on \in BOOLEAN /\ b.tokens \in Nat
  <2>1. b \in Bucket /\ b.on = tb.on
    BY <1>1, CreditBounds
  <2> QED
    BY <2>1, GapReporterAssumption DEF Bucket
<1>3. all \in SUBSET SeqNumber
  BY <1>1, PagesTypes
<1>4. PICK low \in SeqNumber : Within(low, all)
  BY DEF GapsNear
<1> HIDE DEF all, b
<1>5. f # <<>> => Decoded(f) = {s % RtpMod : s \in first}
  <2> SUFFICES ASSUME f # <<>>
               PROVE  Decoded(f) = {s % RtpMod : s \in first}
    OBVIOUS
  <2>1. Decoded(f) = {s % RtpMod :
                        s \in {s \in all : b.on => Rank(all, s) <= b.tokens}}
    BY <1>2, <1>3, <1>4, NackNamesFirst
  <2>2. {s \in all : b.on => Rank(all, s) <= b.tokens} = first
    BY <1>2 DEF Rank
  <2> QED
    BY <2>1, <2>2
<1> QED
  BY <1>5 DEF NackStep, all, b

\* Before its clock is set back, a channel that no rapid channel change started
\* has gaps only between one ring before the first number and the tail.
LEMMA YoungGapsNear ==
    ASSUME IInv, ReportInv, WithinRing, Young, ~pcm.rcc, jumps = 0
    PROVE  GapsNear
<1> DEFINE g == Pages(pcm, now)
<1>1. PcmInv /\ Views(pcm) /\ OrderInv /\ PcmType(pcm)
  BY DEF IInv, PcmInv, ReportInv
<1>2. Base \in SeqNumber
  BY PosFacts
<1>3. CASE DOMAIN pcm.paks = {}
  <2>1. g.gaps = {}
    BY <1>3, PagesEmpty
  <2> QED
    BY <1>2, <2>1 DEF GapsNear, Within
<1>4. CASE DOMAIN pcm.paks # {}
  <2>1. Complete(g, pcm)
    BY <1>4, PagesExact DEF OrderInv, PcmOrder, Young, WithinRing, ReportInv
  <2>2. PcmType(g.pcm) /\ SameViews(g.pcm, pcm) /\ g.gaps \subseteq SeqNumber
    BY <1>1, PagesKeep, PagesTypes
  <2> HIDE DEF g
  <2>3. g.pcm.tail = pcm.tail /\ g.pcm.lastReq \in SeqNumber
    BY <2>2 DEF SameViews, PcmType
  <2>4. \A s \in g.gaps : s \in SeqNumber /\ Pos(s) < Pos(pcm.tail)
    BY <1>1, <1>4, <2>1, <2>3, ListedUseful
  <2>5. Pos(pcm.tail) < Half - 1 /\ Half \in Nat /\ Pos(pcm.tail) \in Nat
    <3>1. pcm.tail \in SeqNumber
      BY <1>1 DEF PcmType
    <3> QED
      BY <3>1, PosFacts, RoomFacts DEF Young, Half
  <2>6. \A s \in g.gaps : Pos(s) < Half
    <3> SUFFICES ASSUME NEW s \in g.gaps PROVE Pos(s) < Half
      OBVIOUS
    <3>1. Pos(s) \in Nat /\ Pos(s) < Pos(pcm.tail)
      BY <2>4, PosFacts
    <3> QED
      BY <2>5, <3>1
  <2>7. Within(Base, g.gaps)
    BY <2>6 DEF Within, Pos
  <2> QED
    BY <1>2, <2>7 DEF GapsNear, g
<1> QED
  BY <1>3, <1>4

\* The NACK names exactly the first missing numbers that there are tokens for
\* (vqec_gap_reporter_construct_generic_nack), however many fields they take,
\* as long as what is missing spans less than half the numbers.
THEOREM NackIsExact == Spec /\ []GapsNear => NackExact
<1>1. IInv /\ GapsNear /\ [Next]_grVars => [NackStep]_grVars
  BY ReportNack
<1> QED
  BY <1>1, InitIInv, NextIInv, PTL DEF Spec, NackExact, NackStep

\* Which is so as long as its packets lie within a ring and reception stays
\* near the tail in the first half of the numbers, on a channel that no rapid
\* channel change starts and whose clock is not set back.
THEOREM MissingStaysNear ==
    Spec /\ []WithinRing /\ []Young /\ [](~pcm.rcc /\ jumps = 0) => []GapsNear
<1>1. Init => IInv /\ ReportInv
  BY InitIInv, InitReportInv
<1>2. (IInv /\ ReportInv) /\ WithinRing /\ WithinRing' /\ Young /\ [Next]_grVars
         => (IInv /\ ReportInv)'
  BY NextIInv, NextReportInv
<1>3. (IInv /\ ReportInv) /\ WithinRing /\ Young /\ (~pcm.rcc /\ jumps = 0)
         => GapsNear
  BY YoungGapsNear
<1> QED
  BY <1>1, <1>2, <1>3, PTL DEF Spec
=============================================================================
