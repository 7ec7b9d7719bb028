------------------------------- MODULE EventQ -------------------------------
(***************************************************************************)
(* The event queue that both RCC state machines run on: the control-plane  *)
(* machine of src/eva/vqec_sm.c and the dataplane machine of               *)
(* src/eva/vqec-dp/channel/vqec_dp_sm.c keep the same ring of four slots.  *)
(*                                                                         *)
(* deliver_event() leases a slot for its event.  The outermost call then   *)
(* runs the state machine on one slot after another until the queue is     *)
(* empty; a call made from within an action, entry or exit routine only    *)
(* leases its slot and returns.  A queue is a record                       *)
(*   slot  - the ring, a free slot holding NoEvent (lease = FALSE)         *)
(*   idx   - event_q_idx, the slot the next event leases                   *)
(*   depth - event_q_depth, the leased slots                               *)
(*   cur   - the slot the outermost call is working on                     *)
(***************************************************************************)
EXTENDS Naturals

\* Mutant: a shorter ring.
ShortRing == 2

\* VQEC_SM_MAX_EVENTQ_DEPTH and VQEC_DP_SM_MAX_EVENTQ_DEPTH.
MAX_EVENTQ_DEPTH == 4

Slot == 0 .. MAX_EVENTQ_DEPTH - 1

NoEvent == "NO_EVENT"

QueueOf(E) == [slot : [Slot -> E \cup {NoEvent}],
               idx : Slot, depth : Nat, cur : Slot]

EmptyQueue == [slot |-> [i \in Slot |-> NoEvent],
               idx |-> 0, depth |-> 0, cur |-> 0]

\* (i + 1) % VQEC_SM_MAX_EVENTQ_DEPTH
NextSlot(i) == (i + 1) % MAX_EVENTQ_DEPTH

\* The two assertions at the head of deliver_event(): the queue has room and
\* the slot at event_q_idx is not leased.
CanLease(q) == q.depth < MAX_EVENTQ_DEPTH /\ q.slot[q.idx] = NoEvent

\* deliver_event() up to the depth test.
Lease(q, e) == [slot |-> [q.slot EXCEPT ![q.idx] = e],
                idx |-> NextSlot(q.idx), depth |-> q.depth + 1, cur |-> q.cur]

LeaseIf(q, b, e) == IF b THEN Lease(q, e) ELSE q

\* The event the loop of the outermost call works on.
Current(q) == q.slot[q.cur]

\* Mutant: the slot is not cleared.
ReleaseKeepsLease(q) == [q EXCEPT !.depth = @ - 1, !.cur = NextSlot(@)]

\* The end of the loop body: clear the slot and go on to the next one.
Release(q) == [slot |-> [q.slot EXCEPT ![q.cur] = NoEvent],
               idx |-> q.idx, depth |-> q.depth - 1, cur |-> NextSlot(q.cur)]

-----------------------------------------------------------------------------
\* The number of slots from slot c on to slot i, going round the ring.
Dist(c, i) == IF i >= c THEN i - c ELSE i + MAX_EVENTQ_DEPTH - c

\* The leased slots are the depth slots from cur on, all the others are free,
\* and the next lease takes the slot after the last leased one.
RingConsistent(q) ==
    /\ \A i \in Slot : (q.slot[i] # NoEvent) <=> Dist(q.cur, i) < q.depth
    /\ \/ q.depth < MAX_EVENTQ_DEPTH /\ Dist(q.cur, q.idx) = q.depth
       \/ q.depth = MAX_EVENTQ_DEPTH /\ q.idx = q.cur
=============================================================================
