------------------------------ MODULE UpcallIrq ------------------------------
(***************************************************************************)
(* The upcalls of one channel: "interrupts" of its dataplane devices       *)
(* (vqec_dpchan.c) to the control plane (vqec_upcall_event.c).             *)
(*                                                                         *)
(* A device records the reason of an event in its cause register and sends *)
(* a message over a UNIX datagram socket unless one is pending already;    *)
(* the control plane reads the message and fetches the causes by a call.   *)
(* Messages carry a generation number of the channel, by which the control *)
(* plane sees that one was not sent (the socket had no room): it then      *)
(* polls all devices.  Every 10 seconds the channel's own device sends a   *)
(* GEN_NUM_SYNC, so that a loss is noticed when nothing else happens.      *)
(***************************************************************************)
EXTENDS Integers, Sequences, FiniteSets

CONSTANTS
    Device,        \* the devices of a channel
    Dpchan,        \* its own device, which sends GEN_NUM_SYNC
    Width,         \* bits of a generation number (32 in the code)
    SockMax,       \* messages the socket has room for
    MaxDrops       \* bound: messages that are not sent

\* The last conjunct follows from the one before it.
ASSUME IrqAssumption ==
    /\ Dpchan \in Device /\ IsFiniteSet(Device)
    /\ Width \in Nat /\ SockMax \in Nat /\ MaxDrops \in Nat
    /\ MaxDrops + 2 * SockMax < 2 ^ (Width - 1)
    /\ MaxDrops + 1 < 2 ^ Width

Gen == 0 .. 2 ^ Width - 1
Reasons == {"event", "GEN_NUM_SYNC"}

VARIABLES
    gen,           \* chan->msg_generation_num
    pending,       \* irq->pending, by device
    cause,         \* irq->cause, by device
    sock,          \* the messages in the socket: generation number and device
    last,          \* upcall_last_generation_num of the control plane
    cp,            \* what the control plane does next
    drops          \* messages not sent so far

vars == <<gen, pending, cause, sock, last, cp, drops>>

Message == [gen : Gen, dev : Device]
Ack(d) == [call |-> "ack", dev |-> d]
Poll == [call |-> "poll", dev |-> Dpchan]
Idle == [call |-> "none", dev |-> Dpchan]

TypeOK ==
    /\ gen \in Gen /\ last \in Gen
    /\ pending \in [Device -> BOOLEAN]
    /\ cause \in [Device -> SUBSET Reasons]
    /\ sock \in Seq(Message) /\ Len(sock) <= SockMax
    /\ cp \in {Idle, Poll} \cup {Ack(d) : d \in Device}
    /\ drops \in 0 .. MaxDrops

Init ==
    /\ gen = 0 /\ last = 0
    /\ pending = [d \in Device |-> FALSE]
    /\ cause = [d \in Device |-> {}]
    /\ sock = <<>>
    /\ cp = Idle
    /\ drops = 0

-----------------------------------------------------------------------------
\* ++chan->msg_generation_num
NextGen(g) == (g + 1) % 2 ^ Width

\* Mutant: a message that is not sent takes no number, and
\* mutant: a message is sent although one is pending, and
\* mutant: the device counts as pending although nothing was sent.
SendNoNumber(d, ok) ==
    IF pending[d] THEN UNCHANGED <<gen, pending, sock, drops>>
    ELSE /\ gen' = IF ok THEN NextGen(gen) ELSE gen
         /\ pending' = [pending EXCEPT ![d] = ok]
         /\ IF ok THEN /\ Len(sock) < SockMax
                       /\ sock' = Append(sock, [gen |-> gen', dev |-> d])
                       /\ UNCHANGED drops
            ELSE drops < MaxDrops /\ drops' = drops + 1 /\ UNCHANGED sock

SendAlways(d, ok) ==
    /\ ok /\ Len(sock) < SockMax
    /\ gen' = NextGen(gen)
    /\ sock' = Append(sock, [gen |-> gen', dev |-> d])
    /\ UNCHANGED <<pending, drops>>

SendPendingAnyway(d, ok) ==
    IF pending[d] THEN UNCHANGED <<gen, pending, sock, drops>>
    ELSE /\ gen' = NextGen(gen)
         /\ pending' = [pending EXCEPT ![d] = TRUE]
         /\ IF ok THEN /\ Len(sock) < SockMax
                       /\ sock' = Append(sock, [gen |-> gen', dev |-> d])
                       /\ UNCHANGED drops
            ELSE drops < MaxDrops /\ drops' = drops + 1 /\ UNCHANGED sock

\* The message of vqec_dpchan_tx_upcall_ev(); sendmsg() fails if the socket is
\* full, and may fail for want of memory.
Send(d, ok) ==
    IF pending[d] THEN UNCHANGED <<gen, pending, sock, drops>>
    ELSE /\ gen' = NextGen(gen)
         /\ pending' = [pending EXCEPT ![d] = ok]
         /\ IF ok THEN /\ Len(sock) < SockMax
                       /\ sock' = Append(sock, [gen |-> gen', dev |-> d])
                       /\ UNCHANGED drops
            ELSE drops < MaxDrops /\ drops' = drops + 1 /\ UNCHANGED sock

TxUpcallEv(d, r, ok) ==
    /\ Send(d, ok)
    /\ cause' = [cause EXCEPT ![d] = @ \cup {r}]
    /\ UNCHANGED <<last, cp>>

\* vqec_dpchan_poll_ev_handler(), every 10 seconds.
GenNumSync(ok) == TxUpcallEv(Dpchan, "GEN_NUM_SYNC", ok)

\* vqec_upcall_generation_num_le(): (cur - last) >> 31 in 32 bits.
GenerationNumLe(cur, prev) ==
    (cur - prev) % 2 ^ Width = 0 \/ (cur - prev) % 2 ^ Width >= 2 ^ (Width - 1)

\* vqec_upcall_chan_update_msg_generation_num() returns TRUE.
InSequence(g) == ~GenerationNumLe(g, last) /\ g = NextGen(last)

\* vqec_upcall_process_irq_event() up to the call to the dataplane.
ProcessIrqEvent ==
    /\ cp = Idle /\ sock # <<>>
    /\ sock' = Tail(sock)
    /\ IF InSequence(Head(sock).gen)
       THEN last' = Head(sock).gen /\ cp' = Ack(Head(sock).dev)
       ELSE cp' = Poll /\ UNCHANGED last
    /\ UNCHANGED <<gen, pending, cause, drops>>

\* vqec_dp_chan_ack_upcall_irq(), whose answer vqec_upcall_chan_event() hands on.
AckUpcallIrq ==
    /\ cp.call = "ack"
    /\ pending' = [pending EXCEPT ![cp.dev] = FALSE]
    /\ cause' = [cause EXCEPT ![cp.dev] = {}]
    /\ cp' = Idle
    /\ UNCHANGED <<gen, sock, last, drops>>

\* vqec_dp_chan_poll_upcall_irq() and vqec_upcall_chan_event_batch().
PollUpcallIrq ==
    /\ cp.call = "poll"
    /\ pending' = [d \in Device |-> FALSE]
    /\ cause' = [d \in Device |-> {}]
    /\ last' = gen
    /\ cp' = Idle
    /\ UNCHANGED <<gen, sock, drops>>

Next ==
    \/ \E d \in Device, ok \in BOOLEAN : TxUpcallEv(d, "event", ok)
    \/ \E ok \in BOOLEAN : GenNumSync(ok)
    \/ ProcessIrqEvent \/ AckUpcallIrq \/ PollUpcallIrq

\* The control plane reads its socket, calls return, and the timer of the
\* dataplane makes a GEN_NUM_SYNC go out again and again.
Fairness ==
    /\ WF_vars(ProcessIrqEvent)
    /\ WF_vars(AckUpcallIrq \/ PollUpcallIrq)
    /\ WF_vars(GenNumSync(TRUE))

Spec == Init /\ [][Next]_vars
FairSpec == Spec /\ Fairness

-----------------------------------------------------------------------------
(***************************************************************************)
(* Properties.                                                             *)
(***************************************************************************)

\* The numbers the control plane will see, from the last it has seen to the one
\* the next message will carry.
Numbers == <<last>> \o [i \in DOMAIN sock |-> sock[i].gen] \o <<NextGen(gen)>>

\* A cause that is recorded is not forgotten: the control plane is about to
\* fetch it, or a message of its device is on the way, or two neighbours among
\* the numbers to come are not in sequence, so that all devices will be polled.
CauseNotForgotten ==
    \A d \in Device : cause[d] # {} =>
        \/ cp \in {Ack(d), Poll}
        \/ \E i \in DOMAIN sock : sock[i].dev = d
        \/ \E i \in 1 .. Len(sock) + 1 : Numbers[i + 1] # NextGen(Numbers[i])

\* What the comment on VQEC_UPCALL_SOCKET_IRQEVENTS says: the depth of the
\* socket queue is bounded, by one pending message for each device.
QueueBounded == Len(sock) <= Cardinality(Device)

\* It is so as long as every message has been sent.
QueueBoundedNoDrops == drops = 0 => QueueBounded

\* The socket carries numbers of the right width, at most one for each device as
\* long as none is lost.
SocketSound == TypeOK /\ QueueBoundedNoDrops

\* Every event reaches the control plane, lost messages or not.
EventsDelivered == \A d \in Device : cause[d] # {} ~> cause[d] = {}
=============================================================================
