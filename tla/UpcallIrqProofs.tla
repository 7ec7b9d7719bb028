--------------------------- MODULE UpcallIrqProofs ---------------------------
(***************************************************************************)
(* Proofs about the upcall interrupts (UpcallIrq), for any number of       *)
(* devices, any width of the generation numbers and any number of losses   *)
(* that fits into them.                                                    *)
(***************************************************************************)
EXTENDS UpcallIrq, FiniteSetTheorems, SequenceTheorems, TLAPS

-----------------------------------------------------------------------------
(***************************************************************************)
(* Generation numbers.                                                     *)
(***************************************************************************)
M == 2 ^ Width

LEMMA IrqConstants ==
    /\ Dpchan \in Device /\ IsFiniteSet(Device)
    /\ SockMax \in Nat /\ MaxDrops \in Nat
    /\ M \in Nat /\ M > MaxDrops + 1 /\ M > 1 /\ Gen = 0 .. M - 1
    /\ SockMax > 0 => 2 ^ (Width - 1) > 1
<1>1. /\ Dpchan \in Device /\ IsFiniteSet(Device)
      /\ SockMax \in Nat /\ MaxDrops \in Nat
      /\ M \in Int /\ M > MaxDrops + 1
      /\ SockMax > 0 => 2 ^ (Width - 1) > 1
  BY IrqAssumption DEF M
<1>2. Gen = 0 .. M - 1
  BY DEF Gen, M
<1> HIDE DEF M
<1> QED
  BY <1>1, <1>2

\* ++chan->msg_generation_num wraps around.
LEMMA NextGenWraps ==
    ASSUME NEW g \in Gen
    PROVE  /\ NextGen(g) \in Gen
           /\ NextGen(g) = IF g + 1 = M THEN 0 ELSE g + 1
<1>1. g \in 0 .. M - 1 /\ M \in Nat /\ M > 1 /\ Gen = 0 .. M - 1
  BY IrqConstants
<1>2. NextGen(g) = (g + 1) % M
  BY DEF NextGen, M
<1> HIDE DEF M
<1> QED
  BY <1>1, <1>2

\* The next number passes the test of vqec_upcall_generation_num_le().
LEMMA NextIsLater ==
    ASSUME NEW g \in Gen, SockMax > 0
    PROVE  ~GenerationNumLe(NextGen(g), g)
<1>1. g \in 0 .. M - 1 /\ M \in Nat /\ M > 1 /\ 2 ^ (Width - 1) > 1
  BY IrqConstants
<1>2. NextGen(g) = (g + 1) % M
  BY DEF NextGen, M
<1>3. (NextGen(g) - g) % M = 1
  <2> HIDE DEF M
  <2>1. NextGen(g) = IF g + 1 = M THEN 0 ELSE g + 1
    BY <1>1, <1>2
  <2> QED
    BY <1>1, <2>1
<1>4. GenerationNumLe(NextGen(g), g) <=> 1 = 0 \/ 1 >= 2 ^ (Width - 1)
  BY <1>3 DEF GenerationNumLe, M
<1> QED
  BY <1>1, <1>4, IrqAssumption

\* Number g follows h after k losses.
Follows(g, h, k) == g = h + k \/ g = h + k - M

LEMMA FollowsItself == \A g \in Gen : Follows(g, g, 0)
<1>1. Gen \subseteq Int
  BY IrqConstants
<1> QED
  BY <1>1 DEF Follows

\* A number not used for a message leaves a gap that no later loss closes.
LEMMA LossLeavesGap ==
    ASSUME NEW g \in Gen, NEW h \in Gen, NEW k \in 0 .. MaxDrops - 1, Follows(g, h, k)
    PROVE  /\ Follows(NextGen(g), h, k + 1)
           /\ NextGen(NextGen(g)) # NextGen(h)
<1>1. /\ M \in Nat /\ M > MaxDrops + 1 /\ Gen = 0 .. M - 1 /\ MaxDrops \in Nat
  BY IrqConstants
<1>2. NextGen(g) = IF g + 1 = M THEN 0 ELSE g + 1
  BY NextGenWraps
<1>3. NextGen(h) = IF h + 1 = M THEN 0 ELSE h + 1
  BY NextGenWraps
<1>4. NextGen(NextGen(g)) = IF NextGen(g) + 1 = M THEN 0 ELSE NextGen(g) + 1
  BY NextGenWraps
<1> HIDE DEF M
<1> QED
  BY <1>1, <1>2, <1>3, <1>4 DEF Follows

-----------------------------------------------------------------------------
(***************************************************************************)
(* The numbers to come, by place: Before and After are neighbours.  l is   *)
(* the last number seen, s the socket, g the channel's number.             *)
(***************************************************************************)
Before(l, s, i) == IF i = 1 THEN l ELSE s[i - 1].gen
After(g, s, i) == IF i = Len(s) + 1 THEN NextGen(g) ELSE s[i].gen

LEMMA NumbersAt ==
    ASSUME sock \in Seq(Message), last \in Gen, gen \in Gen, NEW i \in 1 .. Len(sock) + 1
    PROVE  Numbers[i] = Before(last, sock, i) /\ Numbers[i + 1] = After(gen, sock, i)
<1> DEFINE s == [j \in DOMAIN sock |-> sock[j].gen]
           n == Len(sock)
           t == <<last>> \o s
           next == <<NextGen(gen)>>
<1>1. n \in Nat /\ DOMAIN sock = 1 .. n
  OBVIOUS
<1>2. s \in Seq(Gen) /\ Len(s) = n
  <2>1. \A j \in 1 .. n : sock[j].gen \in Gen
    <3>1. \A j \in 1 .. n : sock[j] \in Message
      BY ElementOfSeq
    <3> QED
      BY <3>1 DEF Message
  <2>2. s \in [1 .. n -> Gen]
    BY <1>1, <2>1
  <2> HIDE DEF s, n
  <2>3. s \in UNION {[1 .. m -> Gen] : m \in Nat}
    BY <1>1, <2>2
  <2>4. s \in Seq(Gen)
    BY <2>3, SeqDef
  <2>5. Len(s) \in Nat /\ DOMAIN s = 1 .. Len(s) /\ DOMAIN s = 1 .. n
    BY <2>2, <2>4, LenProperties
  <2>6. \A a, b \in Nat : 1 .. a = 1 .. b => a = b
    OBVIOUS
  <2> QED
    BY <1>1, <2>4, <2>5, <2>6
<1>3. \A j \in 1 .. n : s[j] = sock[j].gen
  BY <1>1
<1>4. <<last>> \in Seq(Gen) /\ next \in Seq(Gen)
  BY NextGenWraps
<1> HIDE DEF s, n
<1>5. /\ t \in Seq(Gen) /\ Len(t) = n + 1
      /\ t[1] = last /\ \A j \in 2 .. n + 1 : t[j] = s[j - 1]
  BY <1>1, <1>2, <1>4, ConcatProperties
<1> HIDE DEF t
<1>6. /\ \A j \in 1 .. n + 1 : (t \o next)[j] = t[j]
      /\ (t \o next)[n + 2] = NextGen(gen)
  BY <1>1, <1>4, <1>5, ConcatProperties
<1>7. Numbers = t \o next
  BY DEF Numbers, s, t
<1> QED
  BY <1>1, <1>3, <1>5, <1>6, <1>7 DEF Before, After, n

-----------------------------------------------------------------------------
(***************************************************************************)
(* The inductive invariant.                                                *)
(***************************************************************************)
Gapless == \A i \in 1 .. Len(sock) + 1 : After(gen, sock, i) = NextGen(Before(last, sock, i))

\* A message of device d is under way to the control plane.
Heard(d) == cp = Ack(d) \/ \E i \in 1 .. Len(sock) : sock[i].dev = d

\* Also a device that counts as pending, and hence sends nothing, is heard.
NothingLost ==
    cp # Poll /\ Gapless =>
        \A d \in Device : pending[d] \/ cause[d] # {} => Heard(d)

\* The number of the newest message the control plane will have seen is behind
\* the channel's by no more than the losses.  With the last message read and a
\* poll to come, the poll sets it right.
NewestSent == Before(last, sock, Len(sock) + 1)
Near ==
    cp # Poll \/ sock # <<>> => \E k \in 0 .. drops : Follows(gen, NewestSent, k)

\* As long as nothing is lost, a device is pending with its only message.
OneEach ==
    drops = 0 =>
        /\ cp # Poll /\ Gapless
        /\ \A i \in 1 .. Len(sock) : pending[sock[i].dev]
        /\ \A i, j \in 1 .. Len(sock) : sock[i].dev = sock[j].dev => i = j
        /\ cp.call = "ack" =>
              /\ pending[cp.dev]
              /\ \A i \in 1 .. Len(sock) : sock[i].dev # cp.dev

IInv == TypeOK /\ NothingLost /\ Near /\ OneEach

\* What the control plane does next, by kind.
LEMMA CpKinds ==
    ASSUME TypeOK
    PROVE  /\ cp = Idle \/ cp = Poll \/ \E d \in Device : cp = Ack(d)
           /\ \A d \in Device : cp = Ack(d) <=> cp.call = "ack" /\ cp.dev = d
           /\ cp = Poll <=> cp.call = "poll"
           /\ cp.call = "ack" => cp.dev \in Device /\ cp = Ack(cp.dev)
           /\ Idle # Poll /\ \A d \in Device : Ack(d) # Poll /\ Ack(d) # Idle
  BY DEF TypeOK, Ack, Poll, Idle

LEMMA SockFacts ==
    ASSUME TypeOK
    PROVE  /\ Len(sock) \in Nat /\ sock \in Seq(Message)
           /\ \A i \in 1 .. Len(sock) : /\ sock[i] \in Message
                                        /\ sock[i].gen \in Gen
                                        /\ sock[i].dev \in Device
           /\ \A i \in 1 .. Len(sock) + 1 : Before(last, sock, i) \in Gen /\ After(gen, sock, i) \in Gen
           /\ sock = <<>> <=> Len(sock) = 0
<1>1. sock \in Seq(Message) /\ Len(sock) \in Nat
  BY DEF TypeOK
<1>2. \A i \in 1 .. Len(sock) : sock[i] \in Message
  BY <1>1, ElementOfSeq
<1>3. \A i \in 1 .. Len(sock) : sock[i].gen \in Gen /\ sock[i].dev \in Device
  BY <1>2 DEF Message
<1>4. last \in Gen /\ NextGen(gen) \in Gen
  BY NextGenWraps DEF TypeOK
<1>5. sock = <<>> <=> Len(sock) = 0
  BY <1>1
<1> QED
  BY <1>1, <1>2, <1>3, <1>4, <1>5 DEF Before, After

LEMMA InitIInv == Init => IInv
<1> SUFFICES ASSUME Init PROVE IInv
  OBVIOUS
<1> USE IrqConstants
<1>1. /\ gen = 0 /\ last = 0 /\ sock = <<>> /\ cp = Idle /\ drops = 0
      /\ pending = [d \in Device |-> FALSE] /\ cause = [d \in Device |-> {}]
  BY DEF Init
<1>2. 0 \in Gen
  <2> HIDE DEF M
  <2> QED
    OBVIOUS
<1>3. TypeOK
  BY <1>1, <1>2 DEF TypeOK
<1>4. NothingLost
  BY <1>1 DEF NothingLost
<1>5. Len(sock) = 0 /\ Before(last, sock, 1) = 0 /\ After(gen, sock, 1) = NextGen(gen)
  BY <1>1 DEF Before, After
<1>6. Near
  BY <1>1, <1>5 DEF Near, NewestSent, Follows
<1>7. OneEach
  BY <1>1, <1>3, <1>5, CpKinds DEF OneEach, Gapless, Idle
<1> QED
  BY <1>3, <1>4, <1>6, <1>7 DEF IInv

-----------------------------------------------------------------------------
(***************************************************************************)
(* A device has something to say.                                          *)
(***************************************************************************)
LEMMA TxPending ==
    ASSUME IInv, NEW d \in Device, NEW r \in Reasons, NEW ok \in BOOLEAN,
           TxUpcallEv(d, r, ok), pending[d]
    PROVE  IInv'
<1>1. /\ UNCHANGED <<gen, pending, sock, drops, last, cp>>
      /\ cause' = [cause EXCEPT ![d] = @ \cup {r}]
  BY DEF TxUpcallEv, Send
<1>2. TypeOK'
  BY <1>1 DEF IInv, TypeOK
<1>3. NothingLost'
  <2>1. \A e \in Device : cause'[e] # {} => pending[e] \/ cause[e] # {}
    BY <1>1 DEF IInv, TypeOK
  <2> QED
    BY <1>1, <2>1
       DEF IInv, NothingLost, Gapless, Heard, Before, After
<1>4. Near' /\ OneEach'
  BY <1>1 DEF IInv, Near, NewestSent, Before, OneEach, Gapless, After
<1> QED
  BY <1>2, <1>3, <1>4 DEF IInv

LEMMA TxSent ==
    ASSUME IInv, NEW d \in Device, NEW r \in Reasons,
           TxUpcallEv(d, r, TRUE), ~pending[d]
    PROVE  IInv'
<1> DEFINE n == Len(sock)
           m == [gen |-> gen', dev |-> d]
<1>1. /\ gen' = NextGen(gen) /\ pending' = [pending EXCEPT ![d] = TRUE]
      /\ n < SockMax /\ sock' = Append(sock, m)
      /\ UNCHANGED <<drops, last, cp>>
      /\ cause' = [cause EXCEPT ![d] = @ \cup {r}]
  BY DEF TxUpcallEv, Send
<1>2. TypeOK
  BY DEF IInv
<1>3. n \in Nat /\ gen \in Gen /\ gen' \in Gen /\ sock \in Seq(Message)
  BY <1>1, <1>2, SockFacts, NextGenWraps DEF TypeOK
<1>4. m \in Message
  BY <1>3 DEF Message
<1>5. /\ Len(sock') = n + 1 /\ sock' \in Seq(Message)
      /\ \A i \in 1 .. n : sock'[i] = sock[i]
      /\ sock'[n + 1] = m /\ m.gen = gen' /\ m.dev = d
  BY <1>1, <1>3, <1>4
<1> HIDE DEF m
<1>6. TypeOK'
  BY <1>1, <1>2, <1>3, <1>5, IrqConstants DEF TypeOK
<1>7. /\ \A i \in 1 .. n + 1 : /\ Before(last', sock', i) = Before(last, sock, i)
                             /\ After(gen', sock', i) = After(gen, sock, i)
      /\ Before(last', sock', n + 2) = gen' /\ After(gen', sock', n + 2) = NextGen(gen')
  BY <1>1, <1>3, <1>5 DEF Before, After
<1>8. Gapless' <=> Gapless
  <2>1. n + 1 = Len(sock') /\ n + 2 \notin 1 .. n + 1
    BY <1>3, <1>5
  <2> QED
    BY <1>3, <1>7, <2>1 DEF Gapless
<1>9. NothingLost'
  <2>1. Heard(d)'
    BY <1>3, <1>5 DEF Heard
  <2>2. \A e \in Device : Heard(e) => Heard(e)'
    BY <1>1, <1>3, <1>5 DEF Heard
  <2>3. \A e \in Device \ {d} : /\ pending'[e] <=> pending[e]
                                /\ cause'[e] = cause[e]
    BY <1>1, <1>2 DEF TypeOK
  <2> QED
    BY <1>1, <1>8, <2>1, <2>2, <2>3 DEF IInv, NothingLost
<1>10. Near'
  <2>1. NewestSent' = Before(last', sock', n + 2)
    <3>1. Len(sock') + 1 = n + 2
      BY <1>3, <1>5
    <3> QED
      BY <3>1 DEF NewestSent
  <2>2. 0 \in 0 .. drops'
    <3>1. drops \in 0 .. MaxDrops /\ MaxDrops \in Nat
      BY <1>2, IrqConstants DEF TypeOK
    <3> QED
      BY <1>1, <3>1
  <2>3. Follows(gen', gen', 0)
    BY <1>3, FollowsItself
  <2> QED
    BY <1>7, <2>1, <2>2, <2>3 DEF Near, Follows
<1>11. OneEach'
  <2> SUFFICES ASSUME drops = 0 PROVE OneEach'
    BY <1>1 DEF OneEach
  <2>1. /\ cp # Poll /\ Gapless
        /\ \A i \in 1 .. n : pending[sock[i].dev]
        /\ \A i, j \in 1 .. n : sock[i].dev = sock[j].dev => i = j
        /\ cp.call = "ack" => /\ pending[cp.dev]
                              /\ \A i \in 1 .. n : sock[i].dev # cp.dev
    BY DEF IInv, OneEach
  <2>2. \A e \in Device : pending[e] => pending'[e] /\ e # d
    BY <1>1, <1>2 DEF TypeOK
  <2>3. pending'[d]
    BY <1>1, <1>2 DEF TypeOK
  <2>4. \A i \in 1 .. n : sock[i].dev \in Device
    BY <1>2, SockFacts
  <2>5. cp.call = "ack" => cp.dev \in Device
    BY <1>2, CpKinds
  <2>6. 1 .. Len(sock') = 1 .. n + 1
    BY <1>5
  <2>7. \A i \in 1 .. n + 1 : pending'[sock'[i].dev]
    BY <1>3, <1>5, <2>1, <2>2, <2>3, <2>4
  <2>8. \A i, j \in 1 .. n + 1 : sock'[i].dev = sock'[j].dev => i = j
    BY <1>3, <1>5, <2>1, <2>2, <2>4
  <2>9. cp'.call = "ack" => /\ pending'[cp'.dev]
                            /\ \A i \in 1 .. n + 1 : sock'[i].dev # cp'.dev
    BY <1>1, <1>3, <1>5, <2>1, <2>2, <2>5
  <2> HIDE DEF n
  <2>10. cp' # Poll
    BY <1>1, <2>1
  <2> QED
    BY <1>8, <2>1, <2>6, <2>7, <2>8, <2>9, <2>10 DEF OneEach, Poll
<1> QED
  BY <1>6, <1>9, <1>10, <1>11 DEF IInv

LEMMA TxLost ==
    ASSUME IInv, NEW d \in Device, NEW r \in Reasons,
           TxUpcallEv(d, r, FALSE), ~pending[d]
    PROVE  IInv'
<1> DEFINE n == Len(sock)
<1>1. /\ gen' = NextGen(gen) /\ pending' = [pending EXCEPT ![d] = FALSE]
      /\ drops < MaxDrops /\ drops' = drops + 1
      /\ UNCHANGED <<sock, last, cp>>
      /\ cause' = [cause EXCEPT ![d] = @ \cup {r}]
  BY DEF TxUpcallEv, Send
<1>2. TypeOK
  BY DEF IInv
<1>3. n \in Nat /\ gen \in Gen /\ gen' \in Gen /\ drops \in Nat /\ MaxDrops \in Nat
  BY <1>1, <1>2, SockFacts, NextGenWraps, IrqConstants DEF TypeOK
<1>4. TypeOK'
  BY <1>1, <1>2, <1>3 DEF TypeOK
<1>5. NewestSent \in Gen /\ NewestSent' = NewestSent /\ n + 1 \in 1 .. Len(sock) + 1
  <2>1. n + 1 \in 1 .. Len(sock) + 1
    BY <1>3
  <2> QED
    BY <1>1, <1>2, <2>1, SockFacts DEF NewestSent, Before
<1>6. ASSUME NEW k \in 0 .. drops, Follows(gen, NewestSent, k)
      PROVE  Follows(gen', NewestSent', k + 1) /\ ~Gapless'
  <2>1. k \in 0 .. MaxDrops - 1
    BY <1>1, <1>3
  <2>2. Follows(gen', NewestSent, k + 1) /\ NextGen(gen') # NextGen(NewestSent)
    BY <1>1, <1>3, <1>5, <1>6, <2>1, LossLeavesGap
  <2>3. After(gen', sock', n + 1) = NextGen(gen') /\ Before(last', sock', n + 1) = NewestSent
    BY <1>1, <1>5 DEF After, NewestSent, Before
  <2>4. n + 1 \in 1 .. Len(sock') + 1
    BY <1>1, <1>5
  <2> QED
    BY <1>5, <2>2, <2>3, <2>4 DEF Gapless
<1>7. NothingLost'
  <2> SUFFICES ASSUME cp # Poll PROVE ~Gapless'
    BY <1>1 DEF NothingLost, Poll
  <2> QED
    BY <1>6 DEF IInv, Near
<1>8. Near'
  <2> SUFFICES ASSUME cp # Poll \/ sock # <<>>
               PROVE  \E k \in 0 .. drops' : Follows(gen', NewestSent', k)
    BY <1>1 DEF Near, Poll, Follows
  <2>1. PICK k \in 0 .. drops : Follows(gen, NewestSent, k)
    BY DEF IInv, Near
  <2>2. k + 1 \in 0 .. drops'
    BY <1>1, <1>3
  <2> QED
    BY <1>6, <2>1, <2>2
<1>9. OneEach'
  BY <1>1, <1>3 DEF OneEach
<1> QED
  BY <1>4, <1>7, <1>8, <1>9 DEF IInv

-----------------------------------------------------------------------------
(***************************************************************************)
(* The control plane reads a message and makes a call.                     *)
(***************************************************************************)
LEMMA ProcessIInv ==
    ASSUME IInv, ProcessIrqEvent
    PROVE  IInv'
<1> DEFINE n == Len(sock)
           g == sock[1].gen
           d == sock[1].dev
<1>1. /\ cp = Idle /\ sock # <<>> /\ sock' = Tail(sock)
      /\ UNCHANGED <<gen, pending, cause, drops>>
      /\ IF InSequence(g) THEN last' = g /\ cp' = Ack(d)
         ELSE cp' = Poll /\ last' = last
  BY DEF ProcessIrqEvent
<1>2. TypeOK
  BY DEF IInv
<1>3. /\ n \in Nat /\ n > 0 /\ sock \in Seq(Message)
      /\ g \in Gen /\ d \in Device /\ gen \in Gen /\ last \in Gen
  BY <1>1, <1>2, SockFacts DEF TypeOK
<1>4. /\ Len(sock') = n - 1 /\ sock' \in Seq(Message)
      /\ \A i \in 1 .. n - 1 : sock'[i] = sock[i + 1]
  BY <1>1, <1>3
<1>5. TypeOK'
  <2>1. cp' \in {Idle, Poll} \cup {Ack(e) : e \in Device} /\ last' \in Gen
    BY <1>1, <1>3
  <2> QED
    BY <1>1, <1>2, <1>3, <1>4, <2>1, IrqConstants DEF TypeOK
<1>6. CASE InSequence(g)
  <2>1. last' = g /\ cp' = Ack(d) /\ g = NextGen(last)
    BY <1>1, <1>6 DEF InSequence
  <2>2. \A i \in 1 .. n : /\ Before(last', sock', i) = Before(last, sock, i + 1)
                          /\ After(gen', sock', i) = After(gen, sock, i + 1)
    <3> SUFFICES ASSUME NEW i \in 1 .. n
                 PROVE  /\ Before(last', sock', i) = Before(last, sock, i + 1)
                        /\ After(gen', sock', i) = After(gen, sock, i + 1)
      OBVIOUS
    <3>1. /\ i = Len(sock') + 1 <=> i + 1 = Len(sock) + 1
          /\ i # Len(sock') + 1 => sock'[i] = sock[i + 1]
          /\ i # 1 => sock'[i - 1] = sock[i]
          /\ (i + 1) - 1 = i /\ i + 1 # 1
      <4> HIDE DEF g, d
      <4>1. i # 1 => i - 1 \in 1 .. n - 1 /\ (i - 1) + 1 = i
        BY <1>3
      <4>2. i # n => i \in 1 .. n - 1
        BY <1>3
      <4>3. n = Len(sock)
        OBVIOUS
      <4> HIDE DEF n
      <4> QED
        BY <1>3, <1>4, <4>1, <4>2, <4>3
    <3>2. gen' = gen /\ last' = g
      BY <1>1, <2>1
    <3> QED
      BY <3>1, <3>2 DEF Before, After
  <2>3. After(gen, sock, 1) = NextGen(Before(last, sock, 1))
    BY <1>3, <2>1 DEF Before, After
  <2>4. Gapless' <=> Gapless
    <3>1. Gapless => Gapless'
      BY <1>3, <1>4, <2>2 DEF Gapless
    <3>2. ASSUME Gapless', NEW i \in 1 .. n + 1
          PROVE  After(gen, sock, i) = NextGen(Before(last, sock, i))
      <4>1. CASE i = 1
        BY <2>3, <4>1
      <4>2. CASE i > 1
        <5>1. i - 1 \in 1 .. n /\ (i - 1) + 1 = i /\ i - 1 \in 1 .. Len(sock') + 1
          BY <1>3, <1>4, <4>2
        <5>2. After(gen', sock', i - 1) = NextGen(Before(last', sock', i - 1))
          BY <3>2, <5>1 DEF Gapless
        <5> QED
          BY <2>2, <5>1, <5>2
      <4> QED
        BY <1>3, <4>1, <4>2
    <3> QED
      BY <3>1, <3>2 DEF Gapless
  <2>5. NewestSent' = NewestSent
    <3>1. Len(sock') + 1 = n /\ n \in 1 .. n
      BY <1>3, <1>4
    <3> QED
      BY <2>2, <3>1 DEF NewestSent
  <2>6. NothingLost'
    <3>1. cp # Poll
      BY <1>1 DEF Idle, Poll
    <3>2. ASSUME NEW e \in Device, Heard(e)
          PROVE  Heard(e)'
      <4>1. PICK i \in 1 .. n : sock[i].dev = e
        BY <1>1, <3>2 DEF Heard, Idle, Ack
      <4>2. CASE i = 1
        BY <2>1, <4>1, <4>2 DEF Heard, Ack
      <4>3. CASE i > 1
        <5>1. i - 1 \in 1 .. Len(sock') /\ sock'[i - 1] = sock[i]
          BY <1>3, <1>4, <4>3
        <5> QED
          BY <4>1, <5>1 DEF Heard
      <4> QED
        BY <4>2, <4>3
    <3> QED
      BY <1>1, <2>4, <3>1, <3>2 DEF IInv, NothingLost
  <2>7. Near'
    BY <1>1, <2>5 DEF IInv, Near, Follows
  <2>8. OneEach'
    <3> SUFFICES ASSUME drops = 0 PROVE OneEach'
      BY <1>1 DEF OneEach
    <3>1. /\ Gapless /\ \A i \in 1 .. n : pending[sock[i].dev]
          /\ \A i, j \in 1 .. n : sock[i].dev = sock[j].dev => i = j
      BY DEF IInv, OneEach
    <3>2. /\ \A i \in 1 .. n - 1 : i + 1 \in 1 .. n /\ i + 1 # 1 /\ 1 \in 1 .. n
          /\ \A i, j \in 1 .. n - 1 : i + 1 = j + 1 => i = j
          /\ 1 .. Len(sock') = 1 .. n - 1 /\ 1 \in 1 .. n
      BY <1>3, <1>4
    <3>3. \A i \in 1 .. n - 1 : pending[sock'[i].dev] /\ sock'[i].dev # d
      BY <1>4, <3>1, <3>2
    <3>4. \A i, j \in 1 .. n - 1 : sock'[i].dev = sock'[j].dev => i = j
      BY <1>4, <3>1, <3>2
    <3>5. cp'.dev = d /\ cp' # Poll /\ pending[d]
      BY <2>1, <3>1, <3>2 DEF Ack, Poll
    <3> QED
      BY <1>1, <2>4, <3>1, <3>2, <3>3, <3>4, <3>5 DEF OneEach, Poll
  <2> QED
    BY <1>5, <2>6, <2>7, <2>8 DEF IInv
<1>7. CASE ~InSequence(g)
  <2>1. cp' = Poll /\ last' = last
    BY <1>1, <1>7
  <2>2. NothingLost'
    BY <2>1 DEF NothingLost, Poll
  <2>3. Near'
    <3> SUFFICES ASSUME sock' # <<>> PROVE Near'
      BY <2>1 DEF Near, Poll
    <3>1. n > 1
      BY <1>3, <1>4
    <3>2. NewestSent' = NewestSent
      BY <1>3, <1>4, <3>1 DEF NewestSent, Before
    <3> QED
      BY <1>1, <3>2 DEF IInv, Near, Follows
  <2>4. OneEach'
    <3> SUFFICES ASSUME drops = 0 PROVE FALSE
      BY <1>1 DEF OneEach
    <3>1. Gapless /\ 1 \in 1 .. n + 1
      BY <1>3 DEF IInv, OneEach
    <3>2. g = NextGen(last)
      BY <1>3, <3>1 DEF Gapless, Before, After
    <3>3. SockMax > 0
      BY <1>2, <1>3, IrqConstants DEF TypeOK
    <3>4. ~GenerationNumLe(g, last)
      BY <1>3, <3>2, <3>3, NextIsLater
    <3> QED
      BY <1>7, <3>2, <3>4 DEF InSequence
  <2> QED
    BY <1>5, <2>2, <2>3, <2>4 DEF IInv
<1> QED
  BY <1>6, <1>7

LEMMA AckIInv ==
    ASSUME IInv, AckUpcallIrq
    PROVE  IInv'
<1> DEFINE d == cp.dev
<1>1. /\ cp.call = "ack" /\ cp' = Idle
      /\ pending' = [pending EXCEPT ![d] = FALSE]
      /\ cause' = [cause EXCEPT ![d] = {}]
      /\ UNCHANGED <<gen, sock, last, drops>>
  BY DEF AckUpcallIrq
<1>2. TypeOK
  BY DEF IInv
<1>3. d \in Device /\ cp = Ack(d) /\ cp # Poll
  BY <1>1, <1>2, CpKinds
<1>4. TypeOK'
  BY <1>1, <1>2, <1>3 DEF TypeOK
<1>5. /\ \A e \in Device \ {d} : /\ pending'[e] <=> pending[e]
                                 /\ cause'[e] = cause[e]
      /\ ~pending'[d] /\ cause'[d] = {}
  BY <1>1, <1>2, <1>3 DEF TypeOK
<1>6. NothingLost'
  <2>1. ASSUME NEW e \in Device \ {d}, Heard(e)
        PROVE  Heard(e)'
    BY <1>1, <1>3, <2>1 DEF Heard, Ack
  <2>2. Gapless' <=> Gapless
    BY <1>1 DEF Gapless, Before, After
  <2> QED
    BY <1>3, <1>5, <2>1, <2>2 DEF IInv, NothingLost
<1>7. Near'
  BY <1>1, <1>3 DEF IInv, Near, NewestSent, Before, Follows
<1>8. OneEach'
  <2>1. \A i \in 1 .. Len(sock) : sock[i].dev \in Device
    BY <1>2, SockFacts
  <2>2. cp' # Poll /\ cp'.call # "ack"
    BY <1>1 DEF Idle, Poll
  <2> QED
    BY <1>1, <1>5, <2>1, <2>2
       DEF IInv, OneEach, Gapless, Before, After, Poll
<1> QED
  BY <1>4, <1>6, <1>7, <1>8 DEF IInv

LEMMA PollIInv ==
    ASSUME IInv, PollUpcallIrq
    PROVE  IInv'
<1>1. /\ cp.call = "poll" /\ cp' = Idle /\ last' = gen
      /\ pending' = [d \in Device |-> FALSE] /\ cause' = [d \in Device |-> {}]
      /\ UNCHANGED <<gen, sock, drops>>
  BY DEF PollUpcallIrq
<1>2. TypeOK
  BY DEF IInv
<1>3. cp = Poll
  BY <1>1, <1>2, CpKinds
<1>4. TypeOK'
  BY <1>1, <1>2 DEF TypeOK
<1>5. NothingLost'
  BY <1>1 DEF NothingLost
<1>6. Near'
  <2>1. gen \in Nat /\ 0 \in 0 .. drops
    BY <1>2, IrqConstants DEF TypeOK
  <2>2. CASE sock = <<>>
    <3>1. NewestSent' = gen
      BY <1>1, <2>2 DEF NewestSent, Before
    <3> QED
      BY <1>1, <2>1, <3>1 DEF Near, Follows
  <2>3. CASE sock # <<>>
    <3>1. Len(sock) \in Nat \ {0}
      BY <1>2, <2>3, SockFacts
    <3>2. NewestSent' = NewestSent
      BY <1>1, <3>1 DEF NewestSent, Before
    <3> QED
      BY <1>1, <2>3, <3>2 DEF IInv, Near, Follows
  <2> QED
    BY <2>2, <2>3
<1>7. OneEach'
  BY <1>1, <1>3 DEF IInv, OneEach
<1> QED
  BY <1>4, <1>5, <1>6, <1>7 DEF IInv

LEMMA TxIInv ==
    ASSUME IInv, NEW d \in Device, NEW r \in Reasons, NEW ok \in BOOLEAN,
           TxUpcallEv(d, r, ok)
    PROVE  IInv'
<1>1. CASE pending[d]
  BY <1>1, TxPending
<1>2. CASE ~pending[d] /\ ok = TRUE
  BY <1>2, TxSent
<1>3. CASE ~pending[d] /\ ok = FALSE
  BY <1>3, TxLost
<1> QED
  BY <1>1, <1>2, <1>3

LEMMA NextIInv == IInv /\ [Next]_vars => IInv'
<1> SUFFICES ASSUME IInv, [Next]_vars PROVE IInv'
  OBVIOUS
<1>1. CASE \E d \in Device, ok \in BOOLEAN : TxUpcallEv(d, "event", ok)
  BY <1>1, TxIInv DEF Reasons
<1>2. CASE \E ok \in BOOLEAN : GenNumSync(ok)
  BY <1>2, TxIInv, IrqConstants DEF GenNumSync, Reasons
<1>3. CASE ProcessIrqEvent
  BY <1>3, ProcessIInv
<1>4. CASE AckUpcallIrq
  BY <1>4, AckIInv
<1>5. CASE PollUpcallIrq
  BY <1>5, PollIInv
<1>6. CASE UNCHANGED vars
  <2>1. UNCHANGED <<gen, pending, cause, sock, last, cp, drops>>
    BY <1>6 DEF vars
  <2> QED
    BY <2>1 DEF IInv, TypeOK, NothingLost, Heard, Near, NewestSent, Follows,
                OneEach, Gapless, Before, After, Poll, Ack
<1> QED
  BY <1>1, <1>2, <1>3, <1>4, <1>5, <1>6 DEF Next

-----------------------------------------------------------------------------
(***************************************************************************)
(* The theorems.                                                           *)
(***************************************************************************)
\* The invariant of the interrupts and the generation numbers.
THEOREM IrqInvariance == Spec => []IInv
  BY InitIInv, NextIInv, PTL DEF Spec

\* No recorded cause is forgotten, whichever messages the socket has no room for
\* (vqec_dpchan_tx_upcall_ev, vqec_upcall_process_irq_event): it is about to be
\* fetched, announced, or the numbers to come show that something was lost.
THEOREM NoCauseForgotten == Spec => []CauseNotForgotten
<1>1. IInv => CauseNotForgotten
  <2> SUFFICES ASSUME IInv, NEW d \in Device, cause[d] # {},
                      cp # Poll, cp # Ack(d),
                      ~\E i \in DOMAIN sock : sock[i].dev = d
               PROVE  \E i \in 1 .. Len(sock) + 1 :
                         Numbers[i + 1] # NextGen(Numbers[i])
    BY DEF CauseNotForgotten
  <2>1. TypeOK
    BY DEF IInv
  <2>2. sock \in Seq(Message) /\ last \in Gen /\ gen \in Gen
    BY <2>1 DEF TypeOK
  <2>3. ~Heard(d)
    BY <2>2 DEF Heard
  <2>4. PICK i \in 1 .. Len(sock) + 1 :
          After(gen, sock, i) # NextGen(Before(last, sock, i))
    BY <2>3 DEF IInv, NothingLost, Gapless
  <2> QED
    BY <2>2, <2>4, NumbersAt
<1> QED
  BY <1>1, IrqInvariance, PTL

\* The comment on VQEC_UPCALL_SOCKET_IRQEVENTS, as long as nothing is lost: the
\* messages in the socket are those of different devices.
THEOREM SocketIsBounded == Spec => []SocketSound
<1>1. IInv => SocketSound
  <2> SUFFICES ASSUME IInv, drops = 0 PROVE Len(sock) <= Cardinality(Device)
    BY DEF IInv, SocketSound, QueueBoundedNoDrops, QueueBounded
  <2> DEFINE n == Len(sock)
             dev == [i \in 1 .. n |-> sock[i].dev]
  <2>1. TypeOK
    BY DEF IInv
  <2>2. n \in Nat /\ \A i \in 1 .. n : sock[i].dev \in Device
    BY <2>1, SockFacts
  <2>3. \A i, j \in 1 .. n : sock[i].dev = sock[j].dev => i = j
    BY DEF IInv, OneEach
  <2>4. dev \in Injection(1 .. n, Device)
    BY <2>2, <2>3 DEF Injection, IsInjective
  <2> HIDE DEF dev
  <2>5. Cardinality(1 .. n) <= Cardinality(Device)
    BY <2>4, FS_Injection, IrqConstants
  <2> HIDE DEF n
  <2>6. Cardinality(1 .. n) = IF 1 > n THEN 0 ELSE n - 1 + 1
    BY <2>2, FS_Interval
  <2>7. Cardinality(1 .. n) = n
    BY <2>2, <2>6
  <2> QED
    BY <2>5, <2>7 DEF n
<1> QED
  BY <1>1, IrqInvariance, PTL
=============================================================================
