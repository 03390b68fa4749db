-------------------------------- MODULE Ring --------------------------------
(***************************************************************************)
(* A ring: the message queue two processes share, with its user-level      *)
(* halves (userland/src/lib.rs, module ring) and the kernel's wait and     *)
(* wake (kernel/src/ring.rs).                                              *)
(*                                                                         *)
(* Each side runs on a processor of its own.  An access to a counter or a  *)
(* flag the other side reads is a step of its own, and so is every         *)
(* critical section of the kernel.  A side's own counter does not move     *)
(* under it, so queued() is one step: the read of the other's.  The copy   *)
(* of a slot begins in one step and ends in another.                       *)
(*                                                                         *)
(* Counters are u32 and wrap at Modulus, 2^32 in the code.                 *)
(***************************************************************************)
EXTENDS Parking, Integers

CONSTANTS Sender, Receiver,
          Slots,     \* the ring's slot count
          Modulus,   \* at which the counters wrap
          Value,     \* what a slot can hold
          MayWake    \* threads another subsystem may unblock at any moment

ASSUME SideAssumption ==
  {Sender, Receiver} \subseteq Thread /\ Sender # Receiver /\ MayWake \subseteq Thread
ASSUME SlotsAssumption == Slots \in Nat /\ Modulus \in Nat /\ 2 <= Slots /\ Slots < Modulus

VARIABLES
  tail, head,   \* the counters, written by the sender and the receiver
  slot,         \* the slots
  flag,         \* each side's sleeping flag, in its own page
  sleeping,     \* the kernel's Ring::sleeping
  side,           \* where each side is
  message,      \* what the sender sends
  out,          \* what the receiver's copy produced
  taken         \* what the last receive returned

memory == <<tail, head, slot, flag>>
ringVars == <<parking, memory, sleeping, side, message, out, taken>>

RingInit ==
  /\ ParkingInit
  /\ tail = 0 /\ head = 0
  /\ slot = [i \in 0 .. Slots - 1 |-> CHOOSE v \in Value : TRUE]
  /\ flag = [t \in Thread |-> 0]
  /\ sleeping = [t \in Thread |-> FALSE]
  /\ side = [t \in Thread |-> "out"]
  /\ message = slot[0] /\ out = slot[0] /\ taken = slot[0]

-----------------------------------------------------------------------------

Sides == {Sender, Receiver}
Other(t) == IF t = Sender THEN Receiver ELSE Sender

\* A thread that is parked executes nothing.
SideAt(t, place) == parked[t] = "up" /\ side[t] = place

SideGoTo(t, place) == side' = [side EXCEPT ![t] = place]

\* Ring::queued: wrapping_sub.  More than Slots is a broken ring.
QueuedMessages == (tail - head) % Modulus

\* A bug to be caught: a ring filled to one past its last slot.
ReadyPast(t) == IF t = Sender THEN QueuedMessages <= Slots ELSE QueuedMessages > 0

\* Whether a side has something to do: ready_for in the kernel, the closures of
\* send and receive and the guards of try_send and try_receive in user space.
Ready(t) ==
  \/ QueuedMessages > Slots
  \/ IF t = Sender THEN QueuedMessages < Slots ELSE QueuedMessages > 0

\* The slot a counter names.
Index(counter) == counter % Slots

-----------------------------------------------------------------------------
(* User space: the attempt.                                                *)

\* send or try_send is called with v, receive or try_receive.
Begin(t, v) ==
  /\ SideAt(t, "out")
  /\ message' = IF t = Sender THEN v ELSE message
  /\ SideGoTo(t, "try")
  /\ UNCHANGED <<parking, memory, sleeping, out, taken>>

\* The look of try_send and try_receive.  An attempt that fails is repeated, or is
\* the last before a side goes to sleep, or fails to the caller.
Try(t) ==
  /\ SideAt(t, "try")
  /\ IF Ready(t) /\ QueuedMessages <= Slots THEN SideGoTo(t, "copy")
     ELSE \E next \in {"try", "flag", "out"} : SideGoTo(t, next)
  /\ UNCHANGED <<parking, memory, sleeping, message, out, taken>>

\* The copy into or out of the slot.
Copy(t) ==
  /\ SideAt(t, "copy")
  /\ IF t = Sender THEN slot' = [slot EXCEPT ![Index(tail)] = message] /\ UNCHANGED out
                   ELSE out' = slot[Index(head)] /\ UNCHANGED slot
  /\ SideGoTo(t, "publish")
  /\ UNCHANGED <<parking, tail, head, flag, sleeping, message, taken>>

\* The exchange that publishes the counter.
Publish(t) ==
  /\ SideAt(t, "publish")
  /\ IF t = Sender THEN tail' = (tail + 1) % Modulus /\ UNCHANGED <<head, taken>>
                   ELSE head' = (head + 1) % Modulus /\ taken' = out /\ UNCHANGED tail
  /\ SideGoTo(t, "peek")
  /\ UNCHANGED <<parking, slot, flag, sleeping, message, out>>

\* The look at the other side's flag; the call returns unless it is set.
Peek(t) ==
  /\ SideAt(t, "peek")
  /\ SideGoTo(t, IF flag[Other(t)] # 0 THEN "wake" ELSE "out")
  /\ UNCHANGED <<parking, memory, sleeping, message, out, taken>>

-----------------------------------------------------------------------------
(* User space: sleep_until.                                                *)

\* flag.swap(1).
Flag(t) ==
  /\ SideAt(t, "flag")
  /\ flag' = [flag EXCEPT ![t] = 1]
  /\ SideGoTo(t, "look")
  /\ UNCHANGED <<parking, tail, head, slot, sleeping, message, out, taken>>

\* The second look.
Look(t) ==
  /\ SideAt(t, "look")
  /\ SideGoTo(t, IF Ready(t) THEN "unflag" ELSE "wait")
  /\ UNCHANGED <<parking, memory, sleeping, message, out, taken>>

\* flag.swap(0), and the loop of send or receive goes round.
Unflag(t) ==
  /\ SideAt(t, "unflag")
  /\ flag' = [flag EXCEPT ![t] = 0]
  /\ SideGoTo(t, "try")
  /\ UNCHANGED <<parking, tail, head, slot, sleeping, message, out, taken>>

-----------------------------------------------------------------------------
(* The kernel.                                                             *)

\* A bug to be caught: no third look under the lock.
RingWaitBlindly(t) ==
  /\ SideAt(t, "wait")
  /\ sleeping' = [sleeping EXCEPT ![t] = TRUE]
  /\ SideGoTo(t, "park")
  /\ UNCHANGED <<parking, memory, message, out, taken>>

\* wait() under the lock: the third look, and the sleeper is named.
RingWait(t) ==
  /\ SideAt(t, "wait")
  /\ IF Ready(t) THEN SideGoTo(t, "confirm") /\ UNCHANGED sleeping
     ELSE SideGoTo(t, "park") /\ sleeping' = [sleeping EXCEPT ![t] = TRUE]
  /\ UNCHANGED <<parking, memory, message, out, taken>>

\* block_current, after the lock is released; it says whether it parked.
Park(t) ==
  /\ SideAt(t, "park")
  /\ BlockCurrent(t)
  /\ SideGoTo(t, IF wakePending[t] THEN "confirm" ELSE "wait")
  /\ UNCHANGED <<memory, sleeping, message, out, taken>>

\* The look of a side that did not park.
Confirm(t) ==
  /\ SideAt(t, "confirm")
  /\ SideGoTo(t, IF Ready(t) THEN "unflag" ELSE "wait")
  /\ UNCHANGED <<parking, memory, sleeping, message, out, taken>>

\* wake() under the lock takes the other side's sleeper ...
Wake(t) ==
  /\ SideAt(t, "wake")
  /\ sleeping' = [sleeping EXCEPT ![Other(t)] = FALSE]
  /\ SideGoTo(t, IF sleeping[Other(t)] THEN "unblock" ELSE "out")
  /\ UNCHANGED <<parking, memory, message, out, taken>>

\* ... and unblocks it outside.
WakeUnblock(t) ==
  /\ SideAt(t, "unblock")
  /\ Unblock(Other(t))
  /\ SideGoTo(t, "out")
  /\ UNCHANGED <<memory, sleeping, message, out, taken>>

\* A wake from another part of the kernel.
Stray(t) ==
  /\ Unblock(t)
  /\ UNCHANGED <<memory, sleeping, side, message, out, taken>>

-----------------------------------------------------------------------------

SideStep(t) ==
  \/ Try(t) \/ Copy(t) \/ Publish(t) \/ Peek(t)
  \/ Flag(t) \/ Look(t) \/ Unflag(t)
  \/ RingWait(t) \/ Park(t) \/ Confirm(t) \/ Wake(t) \/ WakeUnblock(t)

RingNext ==
  \/ \E t \in Sides : SideStep(t) \/ \E v \in Value : Begin(t, v)
  \/ \E t \in MayWake : Stray(t)

RingSpec == RingInit /\ [][RingNext]_ringVars

-----------------------------------------------------------------------------

\* The Dekker-shaped race: no side is parked although it has something to do,
\* unless the other is on its way to wake it.
NoSideParkedReady ==
  \A t \in Sides :
    parked[t] = "parked" /\ side[t] = "wait" /\ Ready(t) =>
      \/ side[Other(t)] = "peek" /\ flag[t] = 1
      \/ side[Other(t)] = "wake" /\ sleeping[t]
      \/ side[Other(t)] = "unblock"

\* What the ring holds, oldest first.
Held == [i \in 1 .. QueuedMessages |-> slot[Index((head + i - 1) % Modulus)]]

\* "message queues two processes share": messages are received in the order they
\* were sent, none lost and none twice.
Shown == INSTANCE Channel WITH Capacity <- Slots, queue <- Held
IsChannel == Shown!ChannelSpec

\* A message in the ring is received.
Received == \A h \in 0 .. Modulus - 1 : (head = h /\ tail # h) ~> (head # h)

\* A sender waiting for room comes back.
SenderReturns == (side[Sender] \in {"flag", "look", "wait", "park"}) ~> (side[Sender] = "try")
=============================================================================
