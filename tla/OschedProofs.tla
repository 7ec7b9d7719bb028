---------------------------- MODULE OschedProofs ----------------------------
(***************************************************************************)
(* Proofs about the output scheduler and its clock recovery (Osched, Nll), *)
(* for every value of their constants: in particular for every threshold,  *)
(* weight of the moving average and slew rate.                             *)
(*                                                                         *)
(* The lemmas on Nll say what one sample does to the clock recovery; the   *)
(* invariant IInv ties its state to the progress of the session.           *)
(***************************************************************************)
EXTENDS Osched, TLAPS

-----------------------------------------------------------------------------
(***************************************************************************)
(* Arithmetic: the division rounds down.                                   *)
(***************************************************************************)
\* The quotient and the remainder of the corrections in vqec_nll_update_error.
LEMMA DivBounds ==
    ASSUME NEW a \in Int, NEW b \in Nat \ {0}
    PROVE  /\ a \div b \in Int
           /\ b * (a \div b) <= a
           /\ a < b * (a \div b) + b
  OBVIOUS

\* A product with a factor that is not negative keeps the order, ...
LEMMA TimesMono ==
    ASSUME NEW a \in Int, NEW b \in Int, NEW c \in Nat, a <= b
    PROVE  a * c <= b * c
  OBVIOUS

\* ... and with a positive one it reflects it.
LEMMA TimesCancel ==
    ASSUME NEW a \in Int, NEW b \in Int, NEW c \in Nat \ {0}, a * c < b * c
    PROVE  a < b
  OBVIOUS

\* A quotient that is bounded by a multiple of the divisor.
LEMMA DivBelow ==
    ASSUME NEW a \in Int, NEW b \in Nat \ {0}, NEW q \in Int, a < b * (q + 1)
    PROVE  a \div b <= q
<1>1. b * (a \div b) < b * (q + 1) /\ a \div b \in Int
  BY DivBounds
<1>2. (a \div b) * b < (q + 1) * b
  BY <1>1
<1>3. a \div b < q + 1
  BY <1>1, <1>2, TimesCancel
<1> QED
  BY <1>1, <1>3

LEMMA DivAbove ==
    ASSUME NEW a \in Int, NEW b \in Nat \ {0}, NEW q \in Int, b * q <= a
    PROVE  q <= a \div b
<1>1. b * q < b * ((a \div b) + 1) /\ a \div b \in Int
  <2>1. a < b * (a \div b) + b /\ a \div b \in Int
    BY DivBounds
  <2>2. b * ((a \div b) + 1) = b * (a \div b) + b
    BY <2>1
  <2> QED
    BY <2>1, <2>2
<1>2. q * b < ((a \div b) + 1) * b
  BY <1>1
<1>3. q < (a \div b) + 1
  BY <1>1, <1>2, TimesCancel
<1> QED
  BY <1>1, <1>3

-----------------------------------------------------------------------------
(***************************************************************************)
(* The moving average of the arrival errors.                               *)
(***************************************************************************)
Decay == AvgDiv - AvgMult

\* The average of errors below MAX_ARRIVAL_ERROR, scaled by its decay.
ErrBounded(e) ==
    /\ e * Decay <= MaxArrivalErr * AvgDiv
    /\ -(MaxArrivalErr * AvgDiv) <= e * Decay

\* The constants of the average.
LEMMA NllConstants ==
    /\ Decay \in Nat \ {0} /\ AvgDiv \in Nat \ {0} /\ SlewDiv \in Nat \ {0}
    /\ AvgMult \in Nat /\ MaxArrivalErr \in Nat \ {0} /\ Threshold \in Nat
    /\ AvgDiv = AvgMult + Decay
    /\ AvgDiv * SlewDiv \in Nat \ {0}
    /\ MaxArrivalErr * AvgDiv \in Nat
    /\ Slack \in Nat /\ MaxArrivalErr \div SlewDiv \in Nat
<1>1. /\ Decay \in Nat \ {0} /\ AvgDiv \in Nat \ {0} /\ SlewDiv \in Nat \ {0}
      /\ AvgMult \in Nat /\ MaxArrivalErr \in Nat \ {0} /\ Threshold \in Nat
      /\ AvgDiv = AvgMult + Decay
  BY NllAssumption DEF Decay
<1>2. AvgDiv * SlewDiv \in Nat \ {0} /\ MaxArrivalErr * AvgDiv \in Nat
  BY <1>1
<1>3. MaxArrivalErr \div SlewDiv \in Nat
  <2>1. MaxArrivalErr \div SlewDiv \in Int
    BY <1>1, DivBounds
  <2>2. 0 <= MaxArrivalErr \div SlewDiv
    BY <1>1, DivAbove
  <2> QED
    BY <2>1, <2>2
<1> QED
  BY <1>1, <1>2, <1>3 DEF Slack

\* vqec_nll_update_error, the sum before the correction: the decay makes room
\* for one more error below the maximum.
LEMMA CumErrorBounded ==
    ASSUME NEW n \in NllState, ErrBounded(n.err),
           NEW e \in Int, e < MaxArrivalErr, -e < MaxArrivalErr
    PROVE  CumError(n, e) \in Int /\ ErrBounded(CumError(n, e))
<1> DEFINE k == (n.err * AvgMult) \div AvgDiv
           E == MaxArrivalErr
<1>1. n.err \in Int
  BY DEF NllState
<1>2. n.err * AvgMult \in Int
  BY <1>1, NllConstants
<1>3. k \in Int /\ AvgDiv * k <= n.err * AvgMult
                /\ n.err * AvgMult < AvgDiv * k + AvgDiv
  BY <1>2, NllConstants, DivBounds
<1>4. CumError(n, e) = k + e
  BY DEF CumError
<1> HIDE DEF k
\* Times the decay: |k| * Decay <= E * AvgMult, up to one decay for rounding.
<1>5. k * Decay <= E * AvgMult
  <2>1. (n.err * Decay) * AvgMult <= (E * AvgDiv) * AvgMult
    BY <1>1, NllConstants, TimesMono DEF ErrBounded
  <2>2. (AvgDiv * k) * Decay <= (n.err * AvgMult) * Decay
    BY <1>1, <1>3, NllConstants, TimesMono
  <2>3. (k * Decay) * AvgDiv <= (E * AvgMult) * AvgDiv
    <3>1. (AvgDiv * k) * Decay = (k * Decay) * AvgDiv
      BY <1>3, NllConstants
    <3>2. (n.err * AvgMult) * Decay = (n.err * Decay) * AvgMult
      BY <1>1, NllConstants
    <3>3. (E * AvgDiv) * AvgMult = (E * AvgMult) * AvgDiv
      BY NllConstants
    <3>4. /\ (k * Decay) * AvgDiv \in Int /\ (n.err * Decay) * AvgMult \in Int
          /\ (E * AvgMult) * AvgDiv \in Int
      BY <1>1, <1>3, NllConstants
    <3> QED
      BY <2>1, <2>2, <3>1, <3>2, <3>3, <3>4
  <2>4. k * Decay \in Int /\ E * AvgMult \in Int
    BY <1>3, NllConstants
  <2>5. CASE ~(k * Decay <= E * AvgMult)
    <3>1. E * AvgMult + 1 <= k * Decay
      BY <2>4, <2>5
    <3>2. (E * AvgMult + 1) * AvgDiv <= (k * Decay) * AvgDiv
      BY <2>4, <3>1, NllConstants, TimesMono
    <3>3. (E * AvgMult + 1) * AvgDiv = (E * AvgMult) * AvgDiv + AvgDiv
      BY <2>4, NllConstants
    <3> QED
      BY <2>3, <2>4, <3>2, <3>3, NllConstants
  <2> QED
    BY <2>5
<1>6. -(E * AvgMult) <= (k + 1) * Decay
  <2>1. (-(E * AvgDiv)) * AvgMult <= (n.err * Decay) * AvgMult
    BY <1>1, NllConstants, TimesMono DEF ErrBounded
  <2>2. (n.err * AvgMult) * Decay <= (AvgDiv * k + AvgDiv) * Decay
    BY <1>1, <1>3, NllConstants, TimesMono
  <2>3. (-(E * AvgMult)) * AvgDiv <= ((k + 1) * Decay) * AvgDiv
    <3>1. (AvgDiv * k + AvgDiv) * Decay = ((k + 1) * Decay) * AvgDiv
      BY <1>3, NllConstants
    <3>2. (n.err * AvgMult) * Decay = (n.err * Decay) * AvgMult
      BY <1>1, NllConstants
    <3>3. (-(E * AvgDiv)) * AvgMult = (-(E * AvgMult)) * AvgDiv
      BY NllConstants
    <3>4. /\ ((k + 1) * Decay) * AvgDiv \in Int
          /\ (n.err * Decay) * AvgMult \in Int
          /\ (-(E * AvgMult)) * AvgDiv \in Int
      BY <1>1, <1>3, NllConstants
    <3> QED
      BY <2>1, <2>2, <3>1, <3>2, <3>3, <3>4
  <2>4. (k + 1) * Decay \in Int /\ -(E * AvgMult) \in Int
    BY <1>3, NllConstants
  <2>5. CASE ~(-(E * AvgMult) <= (k + 1) * Decay)
    <3>1. ((k + 1) * Decay) + 1 <= -(E * AvgMult)
      BY <2>4, <2>5
    <3>2. ((k + 1) * Decay + 1) * AvgDiv <= (-(E * AvgMult)) * AvgDiv
      BY <2>4, <3>1, NllConstants, TimesMono
    <3>3. ((k + 1) * Decay + 1) * AvgDiv = ((k + 1) * Decay) * AvgDiv + AvgDiv
      BY <2>4, NllConstants
    <3> QED
      BY <2>3, <2>4, <3>2, <3>3, NllConstants
  <2> QED
    BY <2>5
<1>7. (k + e) * Decay <= E * AvgDiv
  <2>1. e * Decay <= E * Decay
    BY NllConstants, TimesMono
  <2>2. (k + e) * Decay = k * Decay + e * Decay
    BY <1>3, NllConstants
  <2>3. E * AvgDiv = E * AvgMult + E * Decay
    BY NllConstants
  <2>4. k * Decay \in Int /\ e * Decay \in Int /\ E * Decay \in Int
        /\ E * AvgMult \in Int
    BY <1>3, NllConstants
  <2> QED
    BY <1>5, <2>1, <2>2, <2>3, <2>4
<1>8. -(E * AvgDiv) <= (k + e) * Decay
  <2>1. (1 - E) * Decay <= e * Decay
    BY NllConstants, TimesMono
  <2>2. (k + e) * Decay = (k + 1) * Decay + e * Decay - Decay
    BY <1>3, NllConstants
  <2>3. (1 - E) * Decay = Decay - E * Decay
    BY NllConstants
  <2>4. E * AvgDiv = E * AvgMult + E * Decay
    BY NllConstants
  <2>5. (k + 1) * Decay \in Int /\ e * Decay \in Int /\ E * Decay \in Int
        /\ E * AvgMult \in Int
    BY <1>3, NllConstants
  <2> QED
    BY <1>6, <2>1, <2>2, <2>3, <2>4, <2>5, NllConstants
<1> QED
  BY <1>3, <1>4, <1>7, <1>8 DEF ErrBounded

\* A correction is at most the slewed part of the largest arrival error.
LEMMA CorrectionBounded ==
    ASSUME NEW c \in Int, ErrBounded(c)
    PROVE  /\ Correction(c) \in Int
           /\ -(MaxArrivalErr \div SlewDiv) <= Correction(c)
           /\ Correction(c) <= MaxArrivalErr \div SlewDiv + 1
<1> DEFINE E == MaxArrivalErr
           Q == MaxArrivalErr \div SlewDiv
           x == c * Decay
           k == x \div (AvgDiv * SlewDiv)
<1>1. x \in Int /\ x <= E * AvgDiv /\ -(E * AvgDiv) <= x
  BY NllConstants DEF ErrBounded
<1>2. k \in Int /\ Correction(c) = -k
  BY <1>1, NllConstants, DivBounds DEF Correction, Decay
<1>3. Q \in Nat /\ E < SlewDiv * Q + SlewDiv
  BY NllConstants, DivBounds
<1> HIDE DEF Q, x
<1>4. E * AvgDiv < (AvgDiv * SlewDiv) * (Q + 1)
  <2>1. E + 1 <= SlewDiv * Q + SlewDiv /\ SlewDiv * Q \in Int
    BY <1>3, NllConstants
  <2>2. (E + 1) * AvgDiv <= (SlewDiv * Q + SlewDiv) * AvgDiv
    BY <2>1, NllConstants, TimesMono
  <2>3. (SlewDiv * Q + SlewDiv) * AvgDiv = (AvgDiv * SlewDiv) * (Q + 1)
    BY <1>3, NllConstants
  <2>4. (E + 1) * AvgDiv = E * AvgDiv + AvgDiv
    BY NllConstants
  <2>5. (AvgDiv * SlewDiv) * (Q + 1) \in Int
    BY <1>3, NllConstants
  <2> QED
    BY <2>2, <2>3, <2>4, <2>5, NllConstants
<1>5. k <= Q
  <2>1. x < (AvgDiv * SlewDiv) * (Q + 1) /\ (AvgDiv * SlewDiv) * (Q + 1) \in Int
    BY <1>1, <1>3, <1>4, NllConstants
  <2> QED
    BY <1>1, <1>3, <2>1, NllConstants, DivBelow
<1>6. -Q - 1 <= k
  <2>1. (AvgDiv * SlewDiv) * (-Q - 1) = -((AvgDiv * SlewDiv) * (Q + 1))
    BY <1>3, NllConstants
  <2>2. (AvgDiv * SlewDiv) * (-Q - 1) <= x
    <3>1. (AvgDiv * SlewDiv) * (Q + 1) \in Int
      BY <1>3, NllConstants
    <3> QED
      BY <1>1, <1>4, <2>1, <3>1, NllConstants
  <2>3. -Q - 1 \in Int
    BY <1>3
  <2> QED
    BY <1>1, <2>2, <2>3, NllConstants, DivAbove
<1> HIDE DEF k
<1> QED
  BY <1>2, <1>3, <1>5, <1>6 DEF Q

\* What is left of the average after the correction stays in bounds: the
\* correction never overshoots by more than the rounding of one step.
LEMMA CorrectedBounded ==
    ASSUME NEW c \in Int, ErrBounded(c)
    PROVE  LET err == c + Correction(c) * (AvgDiv \div (AvgDiv - AvgMult))
           IN  err \in Int /\ ErrBounded(err)
<1> DEFINE E == MaxArrivalErr
           DS == AvgDiv * SlewDiv
           x == c * Decay
           k == x \div DS
           q == AvgDiv \div Decay
           err == c - k * q
<1>1. x \in Int /\ x <= E * AvgDiv /\ -(E * AvgDiv) <= x
  BY NllConstants DEF ErrBounded
<1>2. k \in Int /\ DS * k <= x /\ x < DS * k + DS
  BY <1>1, NllConstants, DivBounds
<1>3. q \in Int /\ Decay * q <= AvgDiv
  BY NllConstants, DivBounds
<1>4. 0 <= q
  BY NllConstants, DivAbove
<1>5. c + Correction(c) * (AvgDiv \div (AvgDiv - AvgMult)) = err /\ err \in Int
  <2>1. Correction(c) = -k
    BY DEF Correction, Decay
  <2>2. AvgDiv \div (AvgDiv - AvgMult) = q
    BY DEF Decay
  <2> HIDE DEF k, q
  <2>3. (-k) * q = -(k * q) /\ k * q \in Int
    BY <1>2, <1>3
  <2> QED
    BY <2>1, <2>2, <2>3
<1>6. DS \in Nat \ {0} /\ E * AvgDiv \in Nat
  BY NllConstants
<1> HIDE DEF k, q
<1>7. err * Decay = x - k * (Decay * q)
  <2>1. err * Decay = c * Decay - (k * q) * Decay
    BY <1>2, <1>3, NllConstants
  <2>2. (k * q) * Decay = k * (Decay * q)
    BY <1>2, <1>3, NllConstants
  <2> QED
    BY <2>1, <2>2
<1> DEFINE r == Decay * q
<1>8. r \in Nat /\ r <= AvgDiv
  BY <1>3, <1>4, NllConstants
<1> HIDE DEF r
<1>9. err * Decay = x - k * r
  BY <1>7 DEF r
\* For a natural number j of corrections.
<1>10. ASSUME NEW j \in Nat
       PROVE  j * r \in Nat /\ j * r <= DS * j
  <2>1. r * j <= AvgDiv * j
    BY <1>8, NllConstants, TimesMono
  <2>2. AvgDiv <= DS
    <3>1. 1 * AvgDiv <= SlewDiv * AvgDiv
      BY NllConstants, TimesMono
    <3> QED
      BY <3>1, NllConstants
  <2>3. AvgDiv * j <= DS * j
    BY <2>2, <1>6, NllConstants, TimesMono
  <2>4. r * j \in Nat /\ r * j = j * r /\ AvgDiv * j \in Nat /\ DS * j \in Nat
    BY <1>6, <1>8, NllConstants
  <2> QED
    BY <2>1, <2>3, <2>4
<1> HIDE DEF DS
<1>11. CASE 0 <= k
  <2>1. k * r \in Nat /\ k * r <= DS * k
    BY <1>2, <1>10, <1>11
  <2>2. DS * k \in Int
    BY <1>2, <1>6
  <2>3. 0 <= x - k * r /\ x - k * r <= x
    BY <1>1, <1>2, <2>1, <2>2
  <2>4. -(E * AvgDiv) <= x - k * r /\ x - k * r <= E * AvgDiv
    BY <1>1, <1>6, <2>1, <2>3
  <2> QED
    BY <1>5, <1>9, <2>4 DEF ErrBounded
<1>12. CASE k < 0
  <2> DEFINE j == -k - 1
  <2>1. j \in Nat /\ k = -j - 1
    BY <1>2, <1>12
  <2>2. j * r \in Nat /\ j * r <= DS * j
    BY <1>10, <2>1
  <2>3. DS * k + DS = -(DS * j)
    BY <1>6, <2>1
  <2>4. k * r = -(j * r) - r
    BY <1>8, <2>1
  <2>5. DS * j \in Int
    BY <1>6, <2>1
  <2> HIDE DEF j, x
  <2>6. x - k * r <= AvgDiv
    BY <1>1, <1>2, <1>8, <2>2, <2>3, <2>4, <2>5, NllConstants
  <2>7. AvgDiv <= E * AvgDiv
    <3>1. 1 * AvgDiv <= E * AvgDiv
      BY NllConstants, TimesMono
    <3> QED
      BY <3>1, NllConstants
  <2>8. x <= x - k * r /\ x - k * r \in Int
    BY <1>1, <1>8, <2>2, <2>4
  <2> QED
    BY <1>1, <1>5, <1>6, <1>9, <2>6, <2>7, <2>8, NllConstants DEF ErrBounded
<1> QED
  BY <1>2, <1>11, <1>12

-----------------------------------------------------------------------------
(***************************************************************************)
(* One sample of the clock recovery.                                       *)
(***************************************************************************)
Stamp == 0 .. PcrMod - 1

\* vqec_nll_rtp_delta is a signed distance.
LEMMA RtpDeltaInt ==
    ASSUME NEW a \in Stamp, NEW b \in Stamp
    PROVE  RtpDelta(a, b) \in Int
<1>1. (b - a) % PcrMod \in Int /\ (a - b) % PcrMod \in Int
  BY NllAssumption DEF Stamp
<1> QED
  BY <1>1 DEF RtpDelta

LEMMA NllResetType == NllReset \in NllState /\ ErrBounded(NllReset.err)
<1>1. NllReset \in NllState
  BY NllAssumption DEF NllReset, NllState
<1>2. NllReset.err = 0
  BY DEF NllReset
<1> QED
  BY <1>1, <1>2, NllConstants DEF ErrBounded

\* A sample while not tracking: the prediction does not go back, and is the
\* base until the sample that starts the tracking, which takes the receive time
\* as its base and the skew as its offset.
Relocked(n, act, x) ==
    /\ x.nll \in NllState /\ x.pred \in Nat
    /\ x.pred >= n.base
    /\ x.nll.first = TRUE /\ x.nll.sw = FALSE
    /\ x.nll.err = n.err
    /\ x.pred = x.nll.base + x.nll.offset
    /\ n.sw = FALSE => x.nll.mode = "NONTRACKING" /\ x.nll.offset = 0
    /\ n.sw = TRUE => /\ x.nll.mode = "TRACKING"
                      /\ act # 0 => x.nll.base = act
    /\ n.first = FALSE /\ n.base = 0 /\ act # 0 => x.pred = act

LEMMA NonTrackingSample ==
    ASSUME NEW n \in NllState, n.mode = "NONTRACKING", n.offset = 0,
           NEW act \in Nat, NEW rtp \in Stamp, NEW est \in Nat,
           NEW disc \in BOOLEAN, NEW t \in Nat
    PROVE  Relocked(n, act, AdjustNonTracking(n, act, rtp, est, disc, t))
<1> DEFINE delta == RtpDelta(n.pcr, rtp)
           raw == IF ~n.first THEN (IF act # 0 THEN act ELSE t)
                  ELSE n.base + (IF disc \/ Beyond(delta, Threshold)
                                 THEN est ELSE delta)
           base == Forward(raw, n.base)
           from == IF act # 0 THEN act ELSE base
           m == [n EXCEPT !.first = TRUE, !.base = base, !.pcr = rtp]
           s == [m EXCEPT !.offset = base - from, !.base = from,
                          !.lastAct = from, !.sw = FALSE, !.mode = "TRACKING"]
           x == AdjustNonTracking(n, act, rtp, est, disc, t)
<1>1. /\ n.base \in Nat /\ n.pcr \in Stamp /\ n.first \in BOOLEAN
      /\ n.sw \in BOOLEAN /\ n.err \in Int /\ n.lastAct \in Nat
  BY DEF NllState, Stamp
<1>2. delta \in Int
  BY <1>1, RtpDeltaInt
<1> HIDE DEF delta
<1>3. raw \in Int /\ (~n.first => raw \in Nat)
  BY <1>1, <1>2
<1>4. ~n.first /\ act # 0 => raw = act
  OBVIOUS
<1> HIDE DEF raw
<1>5. base \in Nat /\ base >= n.base
  BY <1>1, <1>3 DEF Forward
<1>6. ~n.first /\ n.base = 0 /\ act # 0 => base = act
  BY <1>4 DEF Forward
<1>7. x = [pred |-> base, nll |-> IF n.sw THEN s ELSE m]
  BY DEF AdjustNonTracking, raw, delta
<1> HIDE DEF base, x
<1>8. from \in Nat /\ (act # 0 => from = act)
  BY <1>5
<1> HIDE DEF from
<1>9. m \in NllState
  BY <1>1, <1>5 DEF NllState, Stamp
<1>10. /\ m.first = TRUE /\ m.sw = n.sw /\ m.mode = "NONTRACKING"
       /\ m.base = base /\ m.offset = 0 /\ m.err = n.err
  BY DEF NllState
<1> HIDE DEF m
<1>11. s \in NllState
  <2>1. base - from \in Int
    BY <1>5, <1>8
  <2> HIDE DEF base, from
  <2>2. [m EXCEPT !.offset = base - from] \in NllState
    BY <2>1, <1>9 DEF NllState
  <2>3. [m EXCEPT !.offset = base - from, !.base = from, !.lastAct = from]
          \in NllState
    BY <2>1, <1>8, <1>9 DEF NllState
  <2> QED
    BY <2>3 DEF NllState
<1>12. /\ s.first = TRUE /\ s.sw = FALSE /\ s.mode = "TRACKING"
       /\ s.base = from /\ s.offset = base - from /\ s.err = n.err
  BY <1>9, <1>10 DEF NllState
<1> HIDE DEF s
<1>13. ASSUME n.sw = TRUE PROVE Relocked(n, act, x)
  <2>1. x.nll = s /\ x.pred = base
    BY <1>7, <1>13
  <2> QED
    BY <1>5, <1>6, <1>8, <1>11, <1>12, <1>13, <2>1 DEF Relocked
<1>14. ASSUME n.sw = FALSE PROVE Relocked(n, act, x)
  <2>1. x.nll = m /\ x.pred = base
    BY <1>7, <1>14
  <2> QED
    BY <1>1, <1>5, <1>6, <1>9, <1>10, <1>14, <2>1 DEF Relocked
<1> QED
  BY <1>1, <1>13, <1>14 DEF x

\* A sample while tracking: the base goes forward, the offset stays, the average
\* stays in bounds and the base is either where it was or near the receive time.
LEMMA TrackingSample ==
    ASSUME NEW n \in NllState, n.mode = "TRACKING", ErrBounded(n.err),
           NEW act \in Nat \ {0}, NEW rtp \in Stamp, NEW disc \in BOOLEAN
    PROVE  LET x == AdjustTracking(n, act, rtp, disc)
           IN  /\ x.nll \in NllState
               /\ x.nll.base >= n.base /\ x.pred = x.nll.base + x.nll.offset
               /\ x.nll.offset = n.offset /\ x.nll.mode = "TRACKING"
               /\ x.nll.first = n.first /\ x.nll.sw = n.sw
               /\ ErrBounded(x.nll.err)
               /\ x.nll.base = n.base \/ x.nll.base <= act + Slack
               /\ act <= x.nll.base + Slack
<1> DEFINE delta == IF ~disc THEN RtpDelta(n.pcr, rtp)
                    ELSE IF act # 0 /\ n.lastAct # 0 THEN act - n.lastAct ELSE 0
           arrival == n.base + delta
           e == IF act = 0 THEN 0 ELSE arrival - act
           reset == \/ disc /\ Beyond(delta, Threshold)
                    \/ Beyond(e, MaxArrivalErr - 1)
           u == UpdateError(n, e)
           raw == IF ~reset THEN arrival + u.corr
                  ELSE IF act # 0 THEN act ELSE n.base
           err == IF reset THEN 0 ELSE u.err
           m == [n EXCEPT !.err = err, !.base = Forward(raw, n.base),
                          !.pcr = rtp, !.lastAct = act]
           x == AdjustTracking(n, act, rtp, disc)
<1>1. /\ n.base \in Nat /\ n.pcr \in Stamp /\ n.err \in Int /\ n.lastAct \in Nat
      /\ n.offset \in Int
  BY DEF NllState, Stamp
<1>2. delta \in Int
  <2>1. RtpDelta(n.pcr, rtp) \in Int
    BY <1>1, RtpDeltaInt
  <2> QED
    BY <1>1, <2>1
<1>3. x = [pred |-> m.base + m.offset, nll |-> m]
  BY DEF AdjustTracking
<1> HIDE DEF delta, x
<1>4. arrival \in Int /\ e \in Int /\ e = arrival - act
  BY <1>1, <1>2
<1> HIDE DEF arrival, e
<1>5. reset \in BOOLEAN
  BY DEF Beyond
<1>6. ~reset => e < MaxArrivalErr /\ -e < MaxArrivalErr
  BY <1>4, NllConstants DEF Beyond
<1> HIDE DEF reset
<1>7. ~reset => /\ u.corr \in Int /\ u.err \in Int /\ ErrBounded(u.err)
                /\ -(MaxArrivalErr \div SlewDiv) <= u.corr
                /\ u.corr <= MaxArrivalErr \div SlewDiv + 1
  <2>1. SUFFICES ASSUME ~reset
                 PROVE  /\ u.corr \in Int /\ u.err \in Int /\ ErrBounded(u.err)
                        /\ -(MaxArrivalErr \div SlewDiv) <= u.corr
                        /\ u.corr <= MaxArrivalErr \div SlewDiv + 1
    OBVIOUS
  <2> DEFINE cum == CumError(n, e)
             rest == cum + Correction(cum) * (AvgDiv \div (AvgDiv - AvgMult))
  <2>2. cum \in Int /\ ErrBounded(cum)
    BY <1>4, <1>6, <2>1, CumErrorBounded
  <2>3. u.corr = Correction(cum) /\ u.err = rest
    BY DEF UpdateError
  <2> HIDE DEF cum, u
  <2>4. rest \in Int /\ ErrBounded(rest)
    BY <2>2, CorrectedBounded
  <2> HIDE DEF rest
  <2> QED
    BY <2>2, <2>3, <2>4, CorrectionBounded
<1> HIDE DEF u
<1>8. raw \in Int /\ raw <= act + Slack /\ act <= raw + Slack
  <2>1. CASE reset
    BY <2>1, NllConstants
  <2>2. CASE ~reset
    <3>1. raw = act + e + u.corr
      BY <1>4, <1>7, <2>2
    <3> QED
      BY <1>4, <1>6, <1>7, <2>2, <3>1, NllConstants DEF Slack
  <2> QED
    BY <2>1, <2>2
<1>9. err \in Int /\ ErrBounded(err)
  <2>1. ErrBounded(0)
    BY NllConstants DEF ErrBounded
  <2> QED
    BY <1>5, <1>7, <2>1
<1> HIDE DEF raw, err
<1>10. Forward(raw, n.base) \in Nat /\ Forward(raw, n.base) >= n.base
       /\ Forward(raw, n.base) \in {raw, n.base} /\ Forward(raw, n.base) >= raw
  BY <1>1, <1>8 DEF Forward
<1>11. m \in NllState
  BY <1>9, <1>10 DEF NllState, Stamp
<1>12. /\ m.base = Forward(raw, n.base) /\ m.offset = n.offset /\ m.err = err
       /\ m.mode = "TRACKING" /\ m.first = n.first /\ m.sw = n.sw
  BY DEF NllState
<1> HIDE DEF m
<1>13. x.nll = m /\ x.pred = m.base + m.offset
  BY <1>3
<1>14. m.base = n.base \/ m.base <= act + Slack
  BY <1>8, <1>10, <1>12
<1>15. act <= m.base + Slack
  BY <1>8, <1>10, <1>12, NllConstants
<1> QED
  BY <1>9, <1>10, <1>11, <1>12, <1>13, <1>14, <1>15 DEF x

-----------------------------------------------------------------------------
(***************************************************************************)
(* The inductive invariant.                                                *)
(***************************************************************************)
Times == 0 .. MaxTime

OschedState ==
    [state : {"RCC_APP", "RCC_REPAIR", "NORMAL"}, pend : [pred : Nat, ts : Times],
     inTs : Times, firstSent : BOOLEAN, firstTs : Nat, firstRcv : Nat,
     lastPred : Nat, burstDone : BOOLEAN]

Typed == TypeOK /\ osched \in OschedState

\* There is at most one fast fill, and only after an APP.
FillOnce ==
    /\ fill.time > 0 => fill.app /\ ~fill.ended
    /\ fill.ended => fill.app
    /\ fill.app => fill.appTs > 0

\* The clock recovery tracks from the first primary packet to a reset or to
\* the end of a fast fill, and never before.
Recovering ==
    /\ nll.sw = FALSE /\ ErrBounded(nll.err)
    /\ nll.mode = "TRACKING" => nll.first /\ osched.state = "NORMAL"
    /\ nll.mode = "NONTRACKING" => nll.offset = 0 /\ newest = 0
    /\ TracksWithoutFill

\* Its state is where the latest prediction came from; with APP packets, only
\* the end of a fast fill has made it predict.
Predicting ==
    /\ nll.first => pred = nll.base + nll.offset
    /\ osched.state = "RCC_APP" /\ nll.first => fill.ended /\ nll.base = fill.appTs

\* No packet was received later than the previous run.
Seen == ~OtherFirst => newest <= prevTime

PendNear ==
    nll.mode = "TRACKING" /\ osched.pend # Free =>
        osched.pend.pred <= newest + Lead + DefaultDelay + Slack

IInv ==
    /\ Typed /\ FillOnce /\ Recovering /\ Predicting
    /\ TracksArrivals /\ Seen /\ PendNear

\* The constants of the scheduler.
LEMMA OschedConstants ==
    /\ {ReorderDelay, DefaultDelay, AppDelay, AvgPktTime, MinBackfill,
        DtRepairEnd, MaxAge, MaxSeqGap, MaxTime, MaxJumps} \subseteq Nat
    /\ DefaultDelay \in Nat /\ AppDelay \in Nat /\ AvgPktTime \in Nat
    /\ MaxTime \in Nat \ {0} /\ MaxJumps \in Nat
    /\ RtpStamps \subseteq Stamp /\ 0 \in Stamp
    /\ FillTimes \subseteq Nat /\ MemOpt \subseteq BOOLEAN
    /\ OtherFirst \in BOOLEAN
  BY OschedAssumption, NllAssumption DEF Stamp

\* vqec_dp_oscheduler_init.
LEMMA InitIInv == Init => IInv
<1> SUFFICES ASSUME Init PROVE IInv
  OBVIOUS
<1> USE OschedConstants
<1>1. nll = NllReset /\ nll \in NllState /\ ErrBounded(nll.err)
  BY NllResetType DEF Init
<1>2. /\ nll.mode = "NONTRACKING" /\ nll.first = FALSE /\ nll.sw = FALSE
      /\ nll.offset = 0
  BY <1>1 DEF NllReset
<1>3. osched \in OschedState /\ osched.state = "RCC_APP" /\ osched.pend = Free
  BY DEF Init, OschedState, Free, Times
<1>4. /\ fill \in [time : Nat, app : BOOLEAN, appTs : Times,
                   memopt : BOOLEAN, ended : BOOLEAN, aborted : BOOLEAN]
      /\ fill.time = 0 /\ fill.app = FALSE /\ fill.ended = FALSE
  BY DEF Init, Times
<1>5. Typed
  BY <1>1, <1>3, <1>4 DEF Typed, TypeOK, OschedState, Times, Init
<1>6. FillOnce
  BY <1>4 DEF FillOnce
<1>7. newest = 0
  BY DEF Init
<1>8. Recovering /\ Predicting /\ TracksArrivals /\ PendNear
  BY <1>1, <1>2, <1>3, <1>7
     DEF Recovering, Predicting, TracksArrivals, PendNear, TracksWithoutFill
<1>9. Seen
  BY <1>7 DEF Seen, Init
<1> QED
  BY <1>5, <1>6, <1>8, <1>9 DEF IInv

-----------------------------------------------------------------------------
(***************************************************************************)
(* A packet is scheduled.                                                  *)
(***************************************************************************)
\* What the cache can hand out in this state.
Pak(p) ==
    /\ p.type \in {"APP", "PRIMARY", "REPAIR"} /\ p.rtp \in Stamp
    /\ p.gap \in Nat /\ p.delay \in Nat /\ {p.reordered, p.disc} \subseteq BOOLEAN
    /\ p.ts \in Times \ {0}
    /\ p.type = "APP" => /\ osched.state = "RCC_APP" /\ p.ts = fill.appTs
    /\ p.type # "APP" => p.ts <= now /\ p.delay = 0

Plain(p) ==
    /\ p.rtp \in Stamp /\ p.gap \in Nat /\ p.delay = 0
    /\ {p.reordered, p.disc} \subseteq BOOLEAN

LEMMA PaksOfFacts ==
    ASSUME NEW type, NEW r, r \in BOOLEAN, NEW times, NEW gaps \in SUBSET Nat,
           NEW p \in PaksOf(type, r, times, gaps)
    PROVE  p.type = type /\ p.ts \in times /\ Plain(p)
  BY OschedConstants DEF PaksOf, Plain

LEMMA CachedPak ==
    ASSUME IInv,
           NEW p \in AppPaks(osched) \cup InOrderPaks(osched)
                      \cup ReorderedPaks(osched) \cup RepairPaks(osched)
    PROVE  Pak(p)
<1> USE OschedConstants
<1>1. now \in 1 .. MaxTime /\ osched.inTs \in Times
  BY DEF IInv, Typed, TypeOK, Times
<1>2. ReorderedTimes \subseteq 1 .. now /\ InOrderTimes(osched) \subseteq 1 .. now
  BY <1>1 DEF ReorderedTimes, InOrderTimes, Times
<1>3. ReorderedTimes \in SUBSET Nat /\ InOrderTimes(osched) \in SUBSET Nat
  BY <1>1, <1>2
<1>4. CASE p \in AppPaks(osched)
  <2>1. /\ p.type = "APP" /\ p.ts = fill.appTs /\ p.rtp = 0 /\ p.gap = 0
        /\ p.reordered = TRUE /\ p.disc = FALSE /\ p.delay \in Nat
        /\ fill.app /\ osched.state = "RCC_APP"
    BY <1>4 DEF AppPaks
  <2>2. fill.appTs \in Times \ {0}
    BY <2>1 DEF IInv, Typed, TypeOK, FillOnce, Times
  <2>3. {p.reordered, p.disc} \subseteq BOOLEAN
    BY <2>1
  <2>4. p.type \in {"APP", "PRIMARY", "REPAIR"} /\ p.gap \in Nat
    BY <2>1
  <2> QED
    BY <2>1, <2>2, <2>3, <2>4 DEF Pak
<1>5. ASSUME Plain(p), p.ts \in 1 .. now, p.type \in {"PRIMARY", "REPAIR"}
      PROVE  Pak(p)
  BY <1>1, <1>5 DEF Pak, Plain, Times
<1>6. CASE p \in InOrderPaks(osched)
  <2>1. p \in PaksOf("PRIMARY", FALSE, InOrderTimes(osched), {0})
    BY <1>6 DEF InOrderPaks
  <2>2. {0} \in SUBSET Nat
    OBVIOUS
  <2>3. p.type = "PRIMARY" /\ p.ts \in InOrderTimes(osched) /\ Plain(p)
    BY <1>3, <2>1, <2>2, PaksOfFacts
  <2>4. p.ts \in 1 .. now /\ p.type \in {"PRIMARY", "REPAIR"}
    BY <1>2, <2>3
  <2> QED
    BY <1>5, <2>3, <2>4
<1>7. CASE p \in ReorderedPaks(osched)
  <2> DEFINE gaps == IF osched.state = "NORMAL" THEN {} ELSE {0}
  <2>1. p \in PaksOf("PRIMARY", TRUE, ReorderedTimes, gaps)
    BY <1>7 DEF ReorderedPaks
  <2>2. gaps \in SUBSET Nat
    OBVIOUS
  <2> HIDE DEF gaps
  <2>3. p.type = "PRIMARY" /\ p.ts \in ReorderedTimes /\ Plain(p)
    BY <1>3, <2>1, <2>2, PaksOfFacts
  <2>4. p.ts \in 1 .. now /\ p.type \in {"PRIMARY", "REPAIR"}
    BY <1>2, <2>3
  <2> QED
    BY <1>5, <2>3, <2>4
<1>8. CASE p \in RepairPaks(osched)
  <2> DEFINE gaps == IF osched.state = "RCC_REPAIR" THEN 0 .. MaxSeqGap ELSE {0}
  <2>1. p \in PaksOf("REPAIR", TRUE, ReorderedTimes, gaps)
    BY <1>8 DEF RepairPaks
  <2>2. gaps \in SUBSET Nat
    OBVIOUS
  <2> HIDE DEF gaps
  <2>3. p.type = "REPAIR" /\ p.ts \in ReorderedTimes /\ Plain(p)
    BY <1>3, <2>1, <2>2, PaksOfFacts
  <2>4. p.ts \in 1 .. now /\ p.type \in {"PRIMARY", "REPAIR"}
    BY <1>2, <2>3
  <2> QED
    BY <1>5, <2>3, <2>4
<1> QED
  BY <1>4, <1>6, <1>7, <1>8

\* Sending the pending packet keeps the progress of the session.
LEMMA SentFacts ==
    ASSUME osched \in OschedState
    PROVE  /\ Sent(osched) \in OschedState
           /\ Sent(osched).state = osched.state /\ Sent(osched).inTs = osched.inTs
           /\ Sent(osched).pend = Free
           /\ Sent(osched).lastPred = osched.lastPred
           /\ Sent(osched).burstDone = osched.burstDone
<1>1. CASE osched.pend = Free
  BY <1>1 DEF Sent
<1>2. CASE osched.pend # Free
  <2> DEFINE ts == IF osched.firstSent THEN osched.firstTs
                   ELSE IF osched.lastPred # 0 THEN osched.lastPred
                   ELSE osched.pend.pred
             rcv == IF osched.firstSent THEN osched.firstRcv ELSE osched.pend.ts
  <2>1. Sent(osched) = [osched EXCEPT !.pend = Free, !.firstSent = TRUE,
                                      !.firstTs = ts, !.firstRcv = rcv]
    BY <1>2 DEF Sent, OschedState
  <2>2. ts \in Nat /\ rcv \in Nat
    BY DEF OschedState, Times
  <2>3. Free \in [pred : Nat, ts : Times]
    BY OschedConstants DEF Free, Times
  <2> HIDE DEF ts, rcv
  <2> QED
    BY <2>1, <2>2, <2>3 DEF OschedState
<1> QED
  BY <1>1, <1>2

\* The later of the latest receive time and a packet's.
Latest(p) == IF p.ts > newest THEN p.ts ELSE newest

\* The progression of the session, arm by arm.
LEMMA NextStateArms ==
    ASSUME NEW s \in {"RCC_APP", "RCC_REPAIR", "NORMAL"},
           NEW type \in {"APP", "PRIMARY", "REPAIR"}
    PROVE  /\ NextState(s, type) \in {"RCC_APP", "RCC_REPAIR", "NORMAL"}
           /\ s = "NORMAL" => NextState(s, type) = "NORMAL"
           /\ s # "NORMAL" /\ type = "REPAIR" => NextState(s, type) = "RCC_REPAIR"
           /\ NextState(s, type) = "RCC_REPAIR" => type = "REPAIR" /\ s # "NORMAL"
           /\ NextState(s, type) = "RCC_APP" <=> type = "APP" /\ s = "RCC_APP"
<1>1. CASE s = "NORMAL"
  BY <1>1 DEF NextState
<1>2. CASE s # "NORMAL" /\ type = "REPAIR"
  BY <1>2 DEF NextState
<1>3. CASE s = "RCC_APP" /\ type = "APP"
  BY <1>3 DEF NextState
<1>4. CASE s = "RCC_REPAIR" /\ type = "APP"
  BY <1>4 DEF NextState
<1>5. CASE s # "NORMAL" /\ type = "PRIMARY"
  BY <1>5 DEF NextState
<1> QED
  BY <1>1, <1>2, <1>3, <1>4, <1>5

\* What one sample does, whatever the progress of the session: o is the
\* scheduler once its pending packet is sent.
LEMMA SampleFacts ==
    ASSUME IInv, NEW p, Pak(p), NEW o, o.state = osched.state
    PROVE  LET x == Sample(o, p)
               s == NextState(o.state, p.type)
           IN  /\ s \in {"RCC_APP", "RCC_REPAIR", "NORMAL"}
               /\ x.nll \in NllState /\ x.pred \in Nat
               /\ x.nll.sw = FALSE /\ ErrBounded(x.nll.err)
               /\ s = "RCC_APP" => p.type = "APP" /\ x.nll = nll /\ x.pred = p.ts
               /\ s # "RCC_APP" => /\ x.nll.first = TRUE
                                   /\ x.pred = x.nll.base + x.nll.offset
               /\ nll.first => x.pred >= pred
               /\ x.nll.mode = "NONTRACKING" => x.nll.offset = 0
               /\ s = "NORMAL" /\ ~fill.ended => x.nll.mode = "TRACKING"
               /\ x.nll.mode = "TRACKING" => /\ s = "NORMAL"
                                             /\ p.type # "APP"
                                             /\ x.nll.base <= Latest(p) + Slack
                                             /\ Latest(p) <= x.nll.base + Slack
<1> DEFINE x == Sample(o, p)
           s == NextState(o.state, p.type)
           act == ActualTime(o, p)
           est == IF o.state = "RCC_REPAIR" /\ p.type = "REPAIR"
                  THEN AvgPktTime * p.gap ELSE 0
           disc == p.disc \/ o.state # s
           n == IF s = "NORMAL" /\ o.state # s THEN SetTracking(nll) ELSE nll
<1>1. /\ nll \in NllState /\ pred \in Nat /\ now \in 1 .. MaxTime
      /\ newest \in Times
      /\ osched.state \in {"RCC_APP", "RCC_REPAIR", "NORMAL"}
      /\ fill.ended \in BOOLEAN
  BY DEF IInv, Typed, TypeOK, Times
<1>2. /\ nll.mode \in {"NONTRACKING", "TRACKING"} /\ nll.base \in Nat
      /\ nll.first \in BOOLEAN /\ nll.offset \in Int
  BY <1>1 DEF NllState
<1>3. /\ nll.sw = FALSE /\ ErrBounded(nll.err)
      /\ nll.mode = "TRACKING" => nll.first /\ osched.state = "NORMAL"
      /\ nll.mode = "NONTRACKING" => nll.offset = 0 /\ newest = 0
      /\ osched.state = "NORMAL" /\ ~fill.ended => nll.mode = "TRACKING"
  BY DEF IInv, Recovering, TracksWithoutFill
<1>4. /\ nll.first => pred = nll.base + nll.offset
      /\ osched.state = "RCC_APP" /\ nll.first => nll.base = fill.appTs
  BY DEF IInv, Predicting
<1>5. nll.mode = "TRACKING" => /\ nll.base <= newest + Slack
                               /\ newest <= nll.base + Slack
  BY DEF IInv, TracksArrivals
<1>6. /\ p.type \in {"APP", "PRIMARY", "REPAIR"} /\ p.rtp \in Stamp /\ p.gap \in Nat
      /\ p.disc \in BOOLEAN /\ p.ts \in Nat \ {0}
      /\ p.type = "APP" => osched.state = "RCC_APP" /\ p.ts = fill.appTs
  BY OschedConstants DEF Pak, Times
<1>7. s \in {"RCC_APP", "RCC_REPAIR", "NORMAL"}
  BY <1>1, <1>6, NextStateArms
<1>8. CASE s = "RCC_APP"
  <2>1. p.type = "APP" /\ o.state = "RCC_APP"
    BY <1>1, <1>6, <1>8, NextStateArms
  <2>2. x = [pred |-> p.ts, nll |-> nll]
    BY <1>8 DEF Sample
  <2>3. x.nll = nll /\ x.pred = p.ts
    BY <2>2
  <2>4. nll.mode = "NONTRACKING"
    BY <1>2, <1>3, <2>1
  <2>5. nll.first => x.pred >= pred
    BY <1>1, <1>2, <1>3, <1>4, <1>6, <2>1, <2>3, <2>4
  <2> HIDE DEF x, s
  <2> QED
    BY <1>1, <1>3, <1>6, <1>7, <1>8, <2>1, <2>3, <2>4, <2>5 DEF x, s
<1>9. CASE s # "RCC_APP"
  <2>1. x = Adjust(n, act, p.rtp, est, disc, now)
    BY <1>9 DEF Sample
  <2>2. est \in Nat
    BY <1>6, OschedConstants
  <2>3. act \in Nat /\ disc \in BOOLEAN
    BY <1>6 DEF ActualTime
  <2>4. p.type # "APP"
    BY <1>1, <1>6, <1>9, NextStateArms
  <2>5. s = "NORMAL" => act = p.ts
    BY <1>1, <1>6, NextStateArms DEF ActualTime
  <2>6. /\ n \in NllState /\ n.mode = nll.mode /\ n.base = nll.base
        /\ n.first = nll.first /\ n.offset = nll.offset /\ n.err = nll.err
        /\ n.sw = (s = "NORMAL" /\ osched.state # "NORMAL")
    <3>1. SetTracking(nll) \in NllState
      BY <1>1 DEF SetTracking, NllState
    <3>2. /\ SetTracking(nll).mode = nll.mode /\ SetTracking(nll).base = nll.base
          /\ SetTracking(nll).first = nll.first /\ SetTracking(nll).sw = TRUE
          /\ SetTracking(nll).offset = nll.offset /\ SetTracking(nll).err = nll.err
      BY <1>1 DEF SetTracking, NllState
    <3> HIDE DEF s
    <3> QED
      BY <1>1, <1>3, <3>1, <3>2
  <2>7. s = "RCC_REPAIR" => osched.state # "NORMAL"
    BY <1>1, <1>6, NextStateArms
  <2>8. osched.state = "NORMAL" => s = "NORMAL"
    BY <1>1, <1>6, NextStateArms
  <2> HIDE DEF n, act, est, disc, s, x
  <2>9. CASE nll.mode = "NONTRACKING"
    <3>1. x = AdjustNonTracking(n, act, p.rtp, est, disc, now)
      BY <2>1, <2>6, <2>9 DEF Adjust
    <3>2. now \in Nat
      BY <1>1, OschedConstants
    <3>3. n.mode = "NONTRACKING" /\ n.offset = 0
      BY <1>3, <2>6, <2>9
    <3>4. /\ x.nll \in NllState /\ x.pred \in Nat /\ x.pred >= n.base
          /\ x.nll.first = TRUE /\ x.nll.sw = FALSE /\ x.nll.err = n.err
          /\ x.pred = x.nll.base + x.nll.offset
          /\ n.sw = FALSE => x.nll.mode = "NONTRACKING" /\ x.nll.offset = 0
          /\ n.sw = TRUE => /\ x.nll.mode = "TRACKING"
                            /\ act # 0 => x.nll.base = act
      <4>1. n \in NllState
        BY <2>6
      <4>2. p.rtp \in Stamp
        BY <1>6
      <4>3. Relocked(n, act, x)
        BY <2>2, <2>3, <3>1, <3>2, <3>3, <4>1, <4>2, NonTrackingSample
      <4> QED
        BY <4>3 DEF Relocked
    <3>5. nll.first => x.pred >= pred
      BY <1>2, <1>3, <1>4, <2>6, <2>9, <3>4
    <3>6. x.nll.mode = "TRACKING" => s = "NORMAL" /\ x.nll.base = p.ts
      BY <1>6, <2>5, <2>6, <3>4
    <3>7. Latest(p) = p.ts
      BY <1>3, <1>6, <2>9 DEF Latest
    <3>8. s = "NORMAL" /\ ~fill.ended => x.nll.mode = "TRACKING"
      BY <1>3, <2>6, <2>9, <3>4
    <3>9. x.nll.mode = "NONTRACKING" => x.nll.offset = 0
      BY <2>6, <3>4
    <3>10. x.nll.mode = "TRACKING" => /\ x.nll.base <= Latest(p) + Slack
                                      /\ Latest(p) <= x.nll.base + Slack
      BY <1>6, <3>6, <3>7, NllConstants
    <3>11. ErrBounded(x.nll.err)
      BY <1>3, <2>6, <3>4
    <3> QED
      BY <1>7, <1>9, <2>4, <3>4, <3>5, <3>6, <3>8, <3>9, <3>10, <3>11 DEF x, s
  <2>10. CASE nll.mode = "TRACKING"
    <3>1. x = AdjustTracking(n, act, p.rtp, disc)
      BY <2>1, <2>6, <2>10 DEF Adjust
    <3>2. osched.state = "NORMAL" /\ s = "NORMAL" /\ nll.first
      BY <1>3, <2>8, <2>10
    <3>3. act \in Nat \ {0} /\ act = p.ts
      BY <1>6, <2>5, <3>2
    <3>4. n.mode = "TRACKING" /\ ErrBounded(n.err)
      BY <1>3, <2>6, <2>10
    <3>5. /\ x.nll \in NllState
          /\ x.nll.base >= n.base /\ x.pred = x.nll.base + x.nll.offset
          /\ x.nll.offset = n.offset /\ x.nll.mode = "TRACKING"
          /\ x.nll.first = n.first /\ x.nll.sw = n.sw
          /\ ErrBounded(x.nll.err)
          /\ x.nll.base = n.base \/ x.nll.base <= act + Slack
          /\ act <= x.nll.base + Slack
      BY <1>6, <2>3, <2>6, <3>1, <3>3, <3>4, TrackingSample
    <3>6. x.nll.base \in Nat
      BY <3>5 DEF NllState
    <3>7. x.pred >= pred /\ x.pred \in Nat
      BY <1>1, <1>2, <1>4, <2>6, <3>2, <3>5, <3>6
    <3>8. x.nll.sw = FALSE /\ x.nll.first = TRUE
      BY <1>2, <2>6, <3>2, <3>5
    <3>9. /\ x.nll.base <= Latest(p) + Slack
          /\ Latest(p) <= x.nll.base + Slack
      <4>1. newest \in Nat
        BY <1>1, OschedConstants DEF Times
      <4> QED
        BY <1>2, <1>5, <1>6, <2>6, <2>10, <3>3, <3>5, <3>6, <4>1, NllConstants
           DEF Latest
    <3> QED
      BY <1>7, <1>9, <2>4, <3>2, <3>5, <3>7, <3>8, <3>9 DEF x, s
  <2> QED
    BY <1>2, <2>9, <2>10
<1> QED
  BY <1>8, <1>9

\* The clock recovery starts again from packet p at the end of a fast fill.
LEMMA AgainFacts ==
    ASSUME NEW p, p.rtp \in Stamp, p.ts \in Nat \ {0}, now \in Nat
    PROVE  LET again == Adjust(NllReset, p.ts, p.rtp, 0, FALSE, now)
           IN  /\ again.nll \in NllState /\ again.pred = p.ts
               /\ again.nll.sw = FALSE /\ ErrBounded(again.nll.err)
               /\ again.nll.mode = "NONTRACKING" /\ again.nll.offset = 0
               /\ again.nll.base = p.ts
<1> DEFINE again == Adjust(NllReset, p.ts, p.rtp, 0, FALSE, now)
           n == NllReset
<1>1. /\ n \in NllState /\ n.mode = "NONTRACKING" /\ n.offset = 0
      /\ n.sw = FALSE /\ n.first = FALSE /\ n.base = 0 /\ ErrBounded(n.err)
  BY NllResetType DEF NllReset
<1>2. again = AdjustNonTracking(n, p.ts, p.rtp, 0, FALSE, now)
  BY <1>1 DEF Adjust
<1> HIDE DEF n, again
<1>3. 0 \in Nat /\ FALSE \in BOOLEAN /\ p.ts \in Nat
  OBVIOUS
<1>4. Relocked(n, p.ts, again)
  BY <1>1, <1>2, <1>3, NonTrackingSample
<1>5. again.nll.base \in Nat
  BY <1>4 DEF Relocked, NllState
<1>6. /\ again.nll \in NllState /\ again.pred = p.ts /\ again.nll.sw = FALSE
      /\ again.nll.mode = "NONTRACKING" /\ again.nll.offset = 0
      /\ again.nll.err = n.err /\ again.pred = again.nll.base + again.nll.offset
  BY <1>1, <1>3, <1>4 DEF Relocked
<1>7. again.nll.base = p.ts /\ ErrBounded(again.nll.err)
  BY <1>1, <1>5, <1>6
<1> QED
  BY <1>6, <1>7 DEF again

\* "Predicted time cannot move backwards", for one step.
Forwards == nll.first /\ nll'.first /\ fill'.ended = fill.ended => pred' >= pred

\* One turn of the loop of vqec_dp_oscheduler_run.
LEMMA ScheduleStep ==
    ASSUME IInv, NEW p, Pak(p), NEW low, Schedule(p, low),
           ~TimeWentBack, prevTime' = now, now' = now, jumps' = jumps
    PROVE  IInv' /\ Forwards
<1> DEFINE o == Sent(osched)
           x == Sample(o, p)
           s == NextState(o.state, p.type)
           filling == fill.time > 0
           over == filling /\ fill.time <= Played(o, x.pred)
           again == Adjust(NllReset, p.ts, p.rtp, 0, FALSE, now)
           due == (IF filling THEN p.ts ELSE x.pred) + DefaultDelay + p.delay
           inTs == IF s = "NORMAL" /\ ~p.reordered THEN p.ts ELSE o.inTs
           lastPred == IF filling THEN x.pred ELSE o.lastPred
           rcv == IF o.firstSent THEN 0 ELSE p.ts
<1>1. /\ nll \in NllState /\ pred \in Nat /\ now \in 1 .. MaxTime
      /\ newest \in Times /\ prevTime \in Times /\ jumps \in 0 .. MaxJumps
      /\ osched \in OschedState
      /\ fill \in [time : Nat, app : BOOLEAN, appTs : Times,
                   memopt : BOOLEAN, ended : BOOLEAN, aborted : BOOLEAN]
  BY DEF IInv, Typed, TypeOK, Times
<1>2. /\ p.type \in {"APP", "PRIMARY", "REPAIR"} /\ p.rtp \in Stamp
      /\ p.delay \in Nat /\ p.ts \in Times /\ p.ts # 0
      /\ p.type = "APP" => p.ts = fill.appTs
      /\ p.type # "APP" => p.ts <= now /\ p.delay = 0
  BY DEF Pak
<1>3. p.ts \in Nat \ {0} /\ now \in Nat /\ newest \in Nat /\ prevTime \in Nat
  BY <1>1, <1>2, OschedConstants DEF Times
<1>4. o \in OschedState /\ o.state = osched.state
  BY <1>1, SentFacts
<1>5. osched' = [o EXCEPT !.state = s, !.inTs = inTs, !.lastPred = lastPred,
                          !.pend = [ts |-> rcv, pred |-> due]]
  BY <1>4 DEF Schedule, OschedState
<1>6. fill' = IF over THEN [fill EXCEPT !.time = 0, !.ended = TRUE] ELSE fill
  BY DEF Schedule
<1>7. /\ nll' = IF over THEN again.nll ELSE x.nll
      /\ pred' = IF over THEN again.pred ELSE x.pred
  BY DEF Schedule
<1>8. newest' = IF nll'.mode # "TRACKING" THEN 0 ELSE Latest(p)
  BY DEF Schedule, Latest
<1> HIDE DEF o
<1>9. /\ s \in {"RCC_APP", "RCC_REPAIR", "NORMAL"}
      /\ x.nll \in NllState /\ x.pred \in Nat
      /\ x.nll.sw = FALSE /\ ErrBounded(x.nll.err)
      /\ s = "RCC_APP" => p.type = "APP" /\ x.nll = nll /\ x.pred = p.ts
      /\ s # "RCC_APP" => /\ x.nll.first = TRUE
                          /\ x.pred = x.nll.base + x.nll.offset
      /\ nll.first => x.pred >= pred
      /\ x.nll.mode = "NONTRACKING" => x.nll.offset = 0
      /\ s = "NORMAL" /\ ~fill.ended => x.nll.mode = "TRACKING"
      /\ x.nll.mode = "TRACKING" => /\ s = "NORMAL"
                                    /\ p.type # "APP"
                                    /\ x.nll.base <= Latest(p) + Slack
                                    /\ Latest(p) <= x.nll.base + Slack
  BY <1>4, SampleFacts
<1>10. /\ again.nll \in NllState /\ again.pred = p.ts
       /\ again.nll.sw = FALSE /\ ErrBounded(again.nll.err)
       /\ again.nll.mode = "NONTRACKING" /\ again.nll.offset = 0
       /\ again.nll.base = p.ts
  BY <1>2, <1>3, AgainFacts
<1>11. Latest(p) \in Times /\ p.ts <= Latest(p) /\ newest <= Latest(p)
       /\ Latest(p) \in {p.ts, newest}
  BY <1>1, <1>2, <1>3 DEF Latest
<1> HIDE DEF x, s, again
<1>12. over => fill.app /\ ~fill.ended
  BY DEF IInv, FillOnce
<1>13. due \in Nat /\ inTs \in Times /\ lastPred \in Nat /\ rcv \in Times
  BY <1>2, <1>3, <1>4, <1>9, OschedConstants DEF OschedState, Times
<1> HIDE DEF due, inTs, lastPred, rcv
<1>14. /\ osched' \in OschedState /\ osched'.state = s
       /\ osched'.pend = [ts |-> rcv, pred |-> due] /\ osched'.pend.pred = due
  BY <1>4, <1>5, <1>9, <1>13 DEF OschedState
<1>15. over \in BOOLEAN
  OBVIOUS
<1> HIDE DEF over
<1>16. /\ fill' \in [time : Nat, app : BOOLEAN, appTs : Times,
                     memopt : BOOLEAN, ended : BOOLEAN, aborted : BOOLEAN]
       /\ fill'.appTs = fill.appTs /\ fill'.app = fill.app
       /\ over => fill'.ended = TRUE /\ fill'.time = 0
       /\ ~over => fill' = fill
  BY <1>1, <1>6
<1>17. nll' \in NllState /\ pred' \in Nat /\ newest' \in Times
  <2>1. 0 \in Times
    BY OschedConstants DEF Times
  <2> QED
    BY <1>3, <1>7, <1>8, <1>9, <1>10, <1>11, <2>1
<1>18. Typed'
  BY <1>1, <1>14, <1>16, <1>17 DEF Typed, TypeOK, OschedState, Times
<1>19. FillOnce'
  BY <1>12, <1>16 DEF FillOnce, IInv
<1>20. Recovering'
  <2>1. nll'.sw = FALSE /\ ErrBounded(nll'.err)
    BY <1>7, <1>9, <1>10
  <2>2. nll'.mode = "TRACKING" => ~over /\ s = "NORMAL" /\ nll'.first
    BY <1>7, <1>9, <1>10
  <2>3. nll'.mode = "NONTRACKING" => nll'.offset = 0 /\ newest' = 0
    BY <1>7, <1>8, <1>9, <1>10
  <2>4. osched'.state = "NORMAL" /\ ~fill'.ended => nll'.mode = "TRACKING"
    BY <1>7, <1>9, <1>14, <1>16
  <2> QED
    BY <1>14, <2>1, <2>2, <2>3, <2>4 DEF Recovering, TracksWithoutFill, ErrBounded
<1>21. Predicting'
  <2>1. CASE over
    \* a packet of an APP was received with the APP
    <3>1. pred' = p.ts /\ nll'.base = p.ts /\ nll'.offset = 0
      BY <1>7, <1>10, <2>1
    <3>2. osched'.state = "RCC_APP" => p.ts = fill'.appTs
      BY <1>2, <1>9, <1>14, <1>16
    <3> QED
      BY <1>3, <1>16, <2>1, <3>1, <3>2 DEF Predicting
  <2>2. CASE ~over /\ s = "RCC_APP"
    <3>1. nll' = nll /\ pred' = p.ts /\ p.ts = fill.appTs
      BY <1>2, <1>7, <1>9, <2>2
    <3>2. osched.state = "RCC_APP" /\ nll.mode = "NONTRACKING"
      <4>1. osched.state = "RCC_APP"
        <5>1. osched.state \in {"RCC_APP", "RCC_REPAIR", "NORMAL"}
          BY <1>1 DEF OschedState
        <5> QED
          BY <1>2, <1>4, <2>2, <5>1, NextStateArms DEF s
      <4>2. nll.mode \in {"NONTRACKING", "TRACKING"}
        BY <1>1 DEF NllState
      <4> QED
        BY <4>1, <4>2 DEF IInv, Recovering
    <3>3. nll.offset = 0 /\ (nll.first => fill.ended /\ nll.base = fill.appTs)
      BY <3>2 DEF IInv, Recovering, Predicting
    <3> QED
      BY <1>3, <1>16, <2>2, <3>1, <3>3 DEF Predicting
  <2>3. CASE ~over /\ s # "RCC_APP"
    BY <1>7, <1>9, <1>14, <2>3 DEF Predicting
  <2> QED
    BY <2>1, <2>2, <2>3
<1>22. TracksArrivals'
  <2>1. nll'.mode = "TRACKING" => nll' = x.nll /\ newest' = Latest(p)
    BY <1>7, <1>8, <1>10
  <2> QED
    BY <1>9, <2>1 DEF TracksArrivals, Slack
<1>23. Seen'
  <2>1. SUFFICES ASSUME ~OtherFirst PROVE newest' <= now
    BY DEF Seen
  <2>2. newest <= prevTime /\ prevTime <= now
    BY <1>3, <2>1 DEF IInv, Seen, TimeWentBack
  <2>3. CASE nll'.mode = "TRACKING"
    <3>1. newest' = Latest(p) /\ p.type # "APP"
      BY <1>7, <1>8, <1>9, <1>10, <2>3
    <3> QED
      BY <1>2, <1>3, <1>11, <2>2, <3>1
  <2> QED
    BY <1>3, <1>8, <2>3
<1>24. PendNear'
  <2>1. SUFFICES ASSUME nll'.mode = "TRACKING"
                 PROVE  due <= newest' + Lead' + DefaultDelay + Slack
    BY <1>14 DEF PendNear, Slack
  <2>2. nll' = x.nll /\ newest' = Latest(p) /\ p.delay = 0 /\ s = "NORMAL"
    BY <1>2, <1>7, <1>8, <1>9, <1>10, <2>1
  <2>3. /\ x.nll.offset \in Int /\ x.nll.base \in Nat
        /\ x.pred = x.nll.base + x.nll.offset
        /\ x.nll.base <= Latest(p) + Slack
    BY <1>9, <2>1, <2>2 DEF NllState
  <2>4. Lead' \in Nat /\ Lead' >= x.nll.offset
    BY <2>2, <2>3 DEF Lead
  <2>5. Latest(p) \in Nat
    BY <1>3, <1>11
  <2>6. due = (IF filling THEN p.ts ELSE x.pred) + DefaultDelay
    BY <1>3, <1>9, <2>2, OschedConstants DEF due
  <2> HIDE DEF filling
  <2> QED
    BY <1>3, <1>9, <1>11, <2>2, <2>3, <2>4, <2>5, <2>6, NllConstants,
       OschedConstants
<1>25. Forwards
  <2>1. fill'.ended = fill.ended => ~over
    BY <1>1, <1>12, <1>16
  <2> QED
    BY <1>7, <1>9, <2>1 DEF Forwards
<1> QED
  BY <1>18, <1>19, <1>20, <1>21, <1>22, <1>23, <1>24, <1>25 DEF IInv

-----------------------------------------------------------------------------
(***************************************************************************)
(* The other steps.                                                        *)
(***************************************************************************)
FillState ==
    [time : Nat, app : BOOLEAN, appTs : Times, memopt : BOOLEAN,
     ended : BOOLEAN, aborted : BOOLEAN]

\* What IInv says of the types, in one place.
LEMMA Types ==
    ASSUME IInv
    PROVE  /\ nll \in NllState /\ pred \in Nat /\ osched \in OschedState
           /\ fill \in FillState /\ now \in 1 .. MaxTime /\ prevTime \in Times
           /\ jumps \in 0 .. MaxJumps /\ newest \in Times
           /\ now \in Nat /\ prevTime \in Nat /\ newest \in Nat
<1>1. /\ nll \in NllState /\ pred \in Nat /\ osched \in OschedState
      /\ fill \in FillState /\ now \in 1 .. MaxTime /\ prevTime \in Times
      /\ jumps \in 0 .. MaxJumps /\ newest \in Times
  BY DEF IInv, Typed, TypeOK, Times, FillState
<1> QED
  BY <1>1, OschedConstants DEF Times

\* Steps that neither predict nor reset.
LEMMA QuietStep ==
    ASSUME IInv, UNCHANGED <<nll, pred, newest>>,
           osched' \in OschedState, osched'.state = osched.state,
           osched'.pend \in {osched.pend, Free},
           fill' \in FillState, FillOnce', fill'.ended = fill.ended,
           fill.app => fill'.appTs = fill.appTs,
           now' \in 1 .. MaxTime, prevTime' \in Times, jumps' \in 0 .. MaxJumps,
           ~OtherFirst => prevTime' >= prevTime
    PROVE  IInv' /\ Forwards
<1>1. /\ nll \in NllState /\ pred \in Nat /\ newest \in Times
      /\ newest \in Nat /\ prevTime \in Nat
  BY Types
<1>2. Typed'
  BY <1>1 DEF Typed, TypeOK, OschedState, FillState, Times
<1>3. Recovering' /\ TracksArrivals'
  BY DEF IInv, Recovering, TracksWithoutFill, ErrBounded, TracksArrivals, Slack
<1>4. Predicting'
  BY DEF IInv, Predicting, FillOnce
<1>5. Seen'
  <2>1. prevTime' \in Nat
    BY OschedConstants DEF Times
  <2> QED
    BY <1>1, <2>1 DEF IInv, Seen
<1>6. PendNear'
  BY DEF IInv, PendNear, Lead, Slack
<1>7. Forwards
  BY <1>1 DEF Forwards
<1> QED
  BY <1>2, <1>3, <1>4, <1>5, <1>6, <1>7 DEF IInv

\* vqec_dp_oscheduler_outp_reset with the reset of the clock recovery.
LEMMA ResetStep ==
    ASSUME IInv, NEW o \in OschedState, NEW f \in BOOLEAN, ResetOutput(o, f),
           fill' \in FillState, FillOnce',
           now' \in 1 .. MaxTime, prevTime' \in Times, jumps' \in 0 .. MaxJumps
    PROVE  IInv' /\ Forwards
<1>1. /\ nll' = NllReset /\ pred' = 0 /\ newest' = 0
      /\ osched' = OutpReset(o, f)
  BY DEF ResetOutput
<1>2. osched' \in OschedState /\ osched'.state = "RCC_APP"
  <2>1. 0 \in Times
    BY OschedConstants DEF Times
  <2>2. (IF f THEN Free ELSE o.pend) \in [pred : Nat, ts : Times]
    BY <2>1 DEF Free, OschedState
  <2> QED
    BY <1>1, <2>1, <2>2 DEF OutpReset, OschedState
<1>3. /\ nll' \in NllState /\ ErrBounded(nll'.err)
      /\ nll'.mode = "NONTRACKING" /\ nll'.first = FALSE /\ nll'.sw = FALSE
      /\ nll'.offset = 0
  BY <1>1, NllResetType DEF NllReset
<1>4. Typed'
  <2>1. newest' \in Times
    BY <1>1, OschedConstants DEF Times
  <2> QED
    BY <1>1, <1>2, <1>3, <2>1 DEF Typed, TypeOK, OschedState, FillState, Times
<1>5. Recovering'
  BY <1>1, <1>2, <1>3 DEF Recovering, TracksWithoutFill, ErrBounded
<1>6. Predicting' /\ TracksArrivals' /\ PendNear'
  BY <1>3 DEF Predicting, TracksArrivals, PendNear
<1>7. Seen'
  BY <1>1, OschedConstants DEF Seen, Times
<1>8. Forwards
  BY <1>3 DEF Forwards
<1> QED
  BY <1>4, <1>5, <1>6, <1>7, <1>8 DEF IInv

LEMMA AbortedFillFacts ==
    ASSUME IInv, fill' = AbortedFill
    PROVE  fill' \in FillState /\ FillOnce'
<1>1. fill \in FillState
  BY Types
<1>2. /\ fill' \in FillState /\ fill'.time = 0 /\ fill'.app = fill.app
      /\ fill'.ended = fill.ended /\ fill'.appTs = fill.appTs
  BY <1>1 DEF AbortedFill, FillState
<1> QED
  BY <1>2 DEF IInv, FillOnce

LEMMA BurstDoneFacts ==
    ASSUME NEW o \in OschedState, NEW b \in BOOLEAN
    PROVE  /\ [o EXCEPT !.burstDone = b] \in OschedState
           /\ [o EXCEPT !.burstDone = b].state = o.state
           /\ [o EXCEPT !.burstDone = b].pend = o.pend
  BY DEF OschedState

LEMMA RunIInv == IInv /\ Run => IInv' /\ Forwards
<1> SUFFICES ASSUME IInv, Run PROVE IInv' /\ Forwards
  OBVIOUS
<1>1. ~TimeWentBack /\ prevTime' = now /\ now' = now /\ jumps' = jumps
  BY DEF Run
<1>2. PICK low \in {FALSE, fill.time > 0} :
        \E p \in AppPaks(osched) \cup InOrderPaks(osched)
                 \cup ReorderedPaks(osched) \cup RepairPaks(osched) :
          Schedule(p, low)
  BY DEF Run
<1>3. PICK p \in AppPaks(osched) \cup InOrderPaks(osched)
                 \cup ReorderedPaks(osched) \cup RepairPaks(osched) :
          Schedule(p, low)
  BY <1>2
<1>4. Pak(p)
  BY CachedPak
<1> QED
  BY <1>1, <1>3, <1>4, ScheduleStep

LEMMA RunIdleIInv == IInv /\ RunIdle => IInv' /\ Forwards
<1> SUFFICES ASSUME IInv, RunIdle PROVE IInv' /\ Forwards
  OBVIOUS
<1>1. /\ ~TimeWentBack /\ prevTime' = now
      /\ osched' = IF osched.pend.pred <= now THEN Sent(osched) ELSE osched
      /\ UNCHANGED <<nll, pred, fill, now, jumps, newest>>
  BY DEF RunIdle
<1>2. /\ osched \in OschedState /\ fill \in FillState /\ now \in 1 .. MaxTime
      /\ jumps \in 0 .. MaxJumps /\ now \in Nat /\ prevTime \in Nat
  BY Types
<1>3. /\ osched' \in OschedState /\ osched'.state = osched.state
      /\ osched'.pend \in {osched.pend, Free}
  BY <1>1, <1>2, SentFacts
<1>4. prevTime' \in Times /\ prevTime' >= prevTime
  BY <1>1, <1>2, OschedConstants DEF TimeWentBack, Times
<1>5. FillOnce'
  BY <1>1 DEF IInv, FillOnce
<1> QED
  BY <1>1, <1>2, <1>3, <1>4, <1>5, QuietStep

LEMMA RunBackIInv == IInv /\ RunBack => IInv' /\ Forwards
<1> SUFFICES ASSUME IInv, RunBack PROVE IInv' /\ Forwards
  OBVIOUS
<1> DEFINE b == osched.burstDone \/ ~fill.aborted
           o == [osched EXCEPT !.burstDone = b]
<1>1. /\ prevTime' = now /\ now' = now /\ jumps' = jumps
      /\ ResetOutput(o, TRUE) /\ fill' = AbortedFill
  BY DEF RunBack
<1>2. /\ osched \in OschedState /\ now \in 1 .. MaxTime /\ jumps \in 0 .. MaxJumps
  BY Types
<1>3. o \in OschedState
  BY <1>2, BurstDoneFacts
<1>4. fill' \in FillState /\ FillOnce'
  BY <1>1, AbortedFillFacts
<1>5. prevTime' \in Times
  BY <1>1, <1>2, OschedConstants DEF Times
<1> HIDE DEF o
<1> QED
  BY <1>1, <1>2, <1>3, <1>4, <1>5, ResetStep

LEMMA PcmResetIInv ==
    ASSUME IInv, NEW f \in BOOLEAN, PcmReset(f)
    PROVE  IInv' /\ Forwards
<1>1. /\ jumps < MaxJumps /\ jumps' = jumps + 1 /\ ResetOutput(osched, f)
      /\ fill' = fill /\ now' = now /\ prevTime' = prevTime
  BY DEF PcmReset
<1>2. /\ osched \in OschedState /\ fill \in FillState /\ now \in 1 .. MaxTime
      /\ prevTime \in Times /\ jumps \in 0 .. MaxJumps
  BY Types
<1>3. jumps' \in 0 .. MaxJumps
  BY <1>1, <1>2, OschedConstants
<1>4. FillOnce'
  BY <1>1 DEF IInv, FillOnce
<1> QED
  BY <1>1, <1>2, <1>3, <1>4, ResetStep

LEMMA ProcessAppIInv ==
    ASSUME IInv, NEW t \in FillTimes, NEW m \in MemOpt, ProcessApp(t, m)
    PROVE  IInv' /\ Forwards
<1>1. /\ ~fill.app
      /\ fill' = [fill EXCEPT !.time = t, !.memopt = m, !.app = TRUE, !.appTs = now]
      /\ UNCHANGED <<nll, pred, osched, now, prevTime, jumps, newest>>
  BY DEF ProcessApp
<1>2. /\ osched \in OschedState /\ fill \in FillState /\ now \in 1 .. MaxTime
      /\ prevTime \in Times /\ jumps \in 0 .. MaxJumps /\ prevTime \in Nat
  BY Types
<1>3. t \in Nat /\ m \in BOOLEAN /\ now \in Times /\ now > 0
  BY <1>2, OschedConstants DEF Times
<1>4. /\ fill' \in FillState /\ fill'.ended = fill.ended /\ fill'.app = TRUE
      /\ fill'.appTs = now
  BY <1>1, <1>2, <1>3 DEF FillState
<1>5. ~fill.ended
  BY <1>1 DEF IInv, FillOnce
<1>6. FillOnce'
  BY <1>3, <1>4, <1>5 DEF FillOnce
<1> QED
  BY <1>1, <1>2, <1>4, <1>6, QuietStep

LEMMA BurstDoneIInv == IInv /\ BurstDone => IInv' /\ Forwards
<1> SUFFICES ASSUME IInv, BurstDone PROVE IInv' /\ Forwards
  OBVIOUS
<1>1. /\ osched' = [osched EXCEPT !.burstDone = TRUE]
      /\ UNCHANGED <<nll, pred, fill, now, prevTime, jumps, newest>>
  BY DEF BurstDone
<1>2. /\ osched \in OschedState /\ fill \in FillState /\ now \in 1 .. MaxTime
      /\ prevTime \in Times /\ jumps \in 0 .. MaxJumps /\ prevTime \in Nat
  BY Types
<1>3. /\ osched' \in OschedState /\ osched'.state = osched.state
      /\ osched'.pend = osched.pend
  BY <1>1, <1>2, BurstDoneFacts
<1>4. FillOnce'
  BY <1>1 DEF IInv, FillOnce
<1> QED
  BY <1>1, <1>2, <1>3, <1>4, QuietStep

LEMMA AbortRccIInv == IInv /\ AbortRcc => IInv' /\ Forwards
<1> SUFFICES ASSUME IInv, AbortRcc PROVE IInv' /\ Forwards
  OBVIOUS
<1> DEFINE o == [osched EXCEPT !.burstDone = TRUE]
<1>1. /\ ResetOutput(o, TRUE) /\ fill' = AbortedFill
      /\ UNCHANGED <<now, prevTime, jumps>>
  BY DEF AbortRcc
<1>2. /\ osched \in OschedState /\ now \in 1 .. MaxTime
      /\ prevTime \in Times /\ jumps \in 0 .. MaxJumps
  BY Types
<1>3. o \in OschedState
  BY <1>2, BurstDoneFacts
<1>4. fill' \in FillState /\ FillOnce'
  BY <1>1, AbortedFillFacts
<1> HIDE DEF o
<1> QED
  BY <1>1, <1>2, <1>3, <1>4, ResetStep

\* The clock, and the other schedulers.
LEMMA ClockIInv == IInv /\ (Tick \/ ClockBack \/ RunOther) => IInv' /\ Forwards
<1> SUFFICES ASSUME IInv, Tick \/ ClockBack \/ RunOther PROVE IInv' /\ Forwards
  OBVIOUS
<1>1. UNCHANGED <<nll, pred, osched, fill, newest>>
  BY DEF Tick, ClockBack, RunOther
<1>2. /\ osched \in OschedState /\ fill \in FillState /\ now \in 1 .. MaxTime
      /\ prevTime \in Times /\ jumps \in 0 .. MaxJumps
      /\ prevTime \in Nat /\ now \in Nat
  BY Types
<1>3. now' \in 1 .. MaxTime /\ jumps' \in 0 .. MaxJumps
  BY <1>2, OschedConstants DEF Tick, ClockBack, RunOther
<1>4. prevTime' \in Times
  BY <1>2, OschedConstants DEF Tick, ClockBack, RunOther, Times
<1>5. ~OtherFirst => prevTime' >= prevTime
  BY <1>2 DEF Tick, ClockBack, RunOther, TimeWentBack
<1>6. FillOnce'
  BY <1>1 DEF IInv, FillOnce
<1> QED
  BY <1>1, <1>2, <1>3, <1>4, <1>5, <1>6, QuietStep

LEMMA NextIInv == IInv /\ [Next]_vars => IInv' /\ [Forwards]_vars
<1> SUFFICES ASSUME IInv, [Next]_vars PROVE IInv' /\ [Forwards]_vars
  OBVIOUS
<1>1. CASE Run
  BY <1>1, RunIInv
<1>2. CASE RunIdle
  BY <1>2, RunIdleIInv
<1>3. CASE RunBack
  BY <1>3, RunBackIInv
<1>4. CASE \E f \in BOOLEAN : PcmReset(f)
  BY <1>4, PcmResetIInv
<1>5. CASE \E t \in FillTimes, m \in MemOpt : ProcessApp(t, m)
  BY <1>5, ProcessAppIInv
<1>6. CASE BurstDone
  BY <1>6, BurstDoneIInv
<1>7. CASE AbortRcc
  BY <1>7, AbortRccIInv
<1>8. CASE Tick \/ ClockBack \/ RunOther
  BY <1>8, ClockIInv
<1>9. CASE UNCHANGED vars
  <2>1. UNCHANGED <<nll, pred, osched, fill, now, prevTime, jumps, newest>>
    BY <1>9 DEF vars
  <2>2. IInv'
    BY <2>1 DEF IInv, Typed, TypeOK, FillOnce, Recovering, TracksWithoutFill,
                ErrBounded, Predicting, TracksArrivals, Slack, Seen, PendNear,
                Lead
  <2> QED
    BY <1>9, <2>2
<1> QED
  BY <1>1, <1>2, <1>3, <1>4, <1>5, <1>6, <1>7, <1>8, <1>9 DEF Next

-----------------------------------------------------------------------------
(***************************************************************************)
(* The theorems.                                                           *)
(***************************************************************************)
\* The invariant of the scheduler and its clock recovery.
THEOREM SchedulerInvariance == Spec => []IInv
<1>1. IInv /\ [Next]_vars => IInv'
  BY NextIInv
<1> QED
  BY <1>1, InitIInv, PTL DEF Spec

\* The types: the base and the prediction never get negative, whatever the RTP
\* timestamps do.
THEOREM TypeCorrect == Spec => []TypeOK
<1>1. IInv => TypeOK
  BY DEF IInv, Typed
<1> QED
  BY <1>1, SchedulerInvariance, PTL

\* "Predicted time cannot move backwards without resetting the NLL"
\* (vqec_nll.h): for every threshold, average and slew rate, across the start of
\* the tracking, discontinuities and corrections of vqec_nll_adjust.
THEOREM PredictionGoesForward == Spec => PredForward
<1>1. IInv /\ [Next]_vars =>
        [nll.first /\ nll'.first /\ fill'.ended = fill.ended => pred' >= pred]_vars
  BY NextIInv DEF Forwards
<1> QED
  BY <1>1, SchedulerInvariance, PTL DEF Spec, PredForward

\* The base of the predictions stays within an arrival error and a correction
\* of the latest receive time, and the output tracks from the first primary
\* packet on unless a fast fill ended (vqec_nll_adjust, vqec_dp_oscheduler_run).
THEOREM OutputTracks == Spec => []Tracks
<1>1. IInv => Tracks
  BY DEF IInv, Recovering, Tracks
<1> QED
  BY <1>1, SchedulerInvariance, PTL

\* A scheduler that is the first to run after the system time went back holds no
\* packet for the old time.
THEOREM NothingHeldForOldTime ==
    ASSUME OtherFirst = FALSE
    PROVE  Spec => []NotHeldForOldTime
<1>1. IInv => NotHeldForOldTime
  <2> SUFFICES ASSUME IInv, prevTime = now, nll.mode = "TRACKING",
                      osched.pend # Free
               PROVE  osched.pend.pred <= now + Lead + DefaultDelay + Slack
    BY DEF NotHeldForOldTime
  <2>1. nll \in NllState /\ osched \in OschedState /\ now \in Nat /\ newest \in Nat
    BY Types
  <2>2. newest <= now
    BY DEF IInv, Seen
  <2>3. osched.pend.pred <= newest + Lead + DefaultDelay + Slack
    BY DEF IInv, PendNear
  <2>4. Lead \in Nat /\ osched.pend.pred \in Nat
    BY <2>1 DEF Lead, NllState, OschedState
  <2> QED
    BY <2>1, <2>2, <2>3, <2>4, NllConstants, OschedConstants
<1> QED
  BY <1>1, SchedulerInvariance, PTL
=============================================================================
