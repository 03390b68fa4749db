------------------------------- MODULE Virtio -------------------------------
(***************************************************************************)
(* A virtqueue (kernel/src/virtio.rs, Queue): a ring of descriptors on     *)
(* offer, which the device takes in order, and a ring of used ones, which  *)
(* it fills in any order.  Positions count modulo IndexModulus (2^16) and  *)
(* index the rings modulo QueueSize.                                       *)
(***************************************************************************)
EXTENDS Naturals

CONSTANTS QueueSize, IndexModulus

ASSUME VirtioAssumption ==
  QueueSize \in Nat \ {0} /\ IndexModulus % QueueSize = 0 /\ IndexModulus > QueueSize

Bump(index) == (index + 1) % IndexModulus

\* "nothing" marks an entry its reader has done with.
Blank == [i \in 0..(QueueSize - 1) |-> "nothing"]

\* Queue::new
NewQueue == [available |-> Blank, nextAvailable |-> 0, used |-> Blank, nextUsed |-> 0,
             deviceAvailable |-> 0, deviceUsed |-> 0]

\* Queue::offer
Offer(q, d) ==
  [q EXCEPT !.available[q.nextAvailable % QueueSize] = d, !.nextAvailable = Bump(@)]

\* Queue::take_used, when there is something to take
HasUsed(q) == q.deviceUsed # q.nextUsed
FirstUsed(q) == q.used[q.nextUsed % QueueSize]
TakeUsed(q) == [q EXCEPT !.used[q.nextUsed % QueueSize] = "nothing", !.nextUsed = Bump(@)]

\* The device takes the next descriptor on offer, and puts one in the used ring.
HasOffer(q) == q.nextAvailable # q.deviceAvailable
FirstOffer(q) == q.available[q.deviceAvailable % QueueSize]
TakeOffer(q) ==
  [q EXCEPT !.available[q.deviceAvailable % QueueSize] = "nothing", !.deviceAvailable = Bump(@)]
PutUsed(q, d) == [q EXCEPT !.used[q.deviceUsed % QueueSize] = d, !.deviceUsed = Bump(@)]
=============================================================================
