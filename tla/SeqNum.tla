------------------------------- MODULE SeqNum -------------------------------
(***************************************************************************)
(* Sequence numbers of packets (vqec_seq_num.h): 32-bit numbers that wrap  *)
(* around, of which RTP carries the low 16 bits.                           *)
(***************************************************************************)
EXTENDS Integers

CONSTANTS
    SeqSpace,      \* numbers there are (2^32 in the code)
    RtpMod         \* RTP sequence numbers there are (2^16 in the code)

ASSUME SeqNumAssumption ==
    /\ SeqSpace \in Nat /\ RtpMod \in Nat
    /\ RtpMod % 2 = 0 /\ RtpMod > 0
    /\ SeqSpace % RtpMod = 0 /\ SeqSpace >= 8 * RtpMod

SeqNumber == 0 .. SeqSpace - 1
RtpNumber == 0 .. RtpMod - 1

SeqAdd(s, n) == (s + n) % SeqSpace
NextSeq(s) == SeqAdd(s, 1)
PreSeq(s) == SeqAdd(s, -1)

\* How far s lies after t, counting upwards.
SeqDist(t, s) == (s - t) % SeqSpace

\* s lies in the half of the number space before t.
SeqLt(s, t) == SeqDist(t, s) >= SeqSpace \div 2
SeqLe(s, t) == s = t \/ SeqLt(s, t)

\* The number with these RTP bits that is nearest to s.
NearestToRtp(s, rtp) ==
    LET d == (rtp - s) % RtpMod
    IN  SeqAdd(s, IF d >= RtpMod \div 2 THEN d - RtpMod ELSE d)

\* A discontinuity: the number a few RTP generations later.
BumpSeq(s) == SeqAdd(s, 3 * RtpMod)

\* The numbers from s up to t, none when t is before s.
SeqRange(s, t) ==
    IF SeqLe(s, t) THEN {SeqAdd(s, i) : i \in 0 .. SeqDist(s, t)} ELSE {}

\* The first number of a set that spans less than half the space.
SeqMin(S) == CHOOSE s \in S : \A t \in S : SeqLe(s, t)
=============================================================================
