----------------------------- MODULE DiskSlots -----------------------------
(***************************************************************************)
(* A disk's request slots (kernel/src/block/request.rs, Slots): taken one  *)
(* at a time, or all at once for a command the device runs only alone, by  *)
(* threads that sleep until one is given back and by callers that cannot   *)
(* and go on trying.  A slot whose polled request timed out is never given *)
(* back.                                                                   *)
(***************************************************************************)
EXTENDS Parking, Naturals, Sequences

CONSTANTS SlotCount, Sleepers   \* Sleepers: the threads for which can_sleep()

AllSlots == 1..SlotCount

VARIABLES busy, exclusiveWaiting, slotWaiters,    \* Taken
          slotPc, exclusive, queuedExclusive, bits, \* each caller in acquire()
          releaseList                              \* the waiters release() took out

takenVars == <<busy, exclusiveWaiting, slotWaiters>>
callerVars == <<slotPc, exclusive, queuedExclusive, bits, releaseList>>
slotVars == <<parking, takenVars, callerVars>>

SlotsInit ==
  /\ busy = {} /\ exclusiveWaiting = 0 /\ slotWaiters = <<>>
  /\ slotPc = [t \in Thread |-> "out"]
  /\ exclusive = [t \in Thread |-> FALSE] /\ queuedExclusive = [t \in Thread |-> FALSE]
  /\ bits = [t \in Thread |-> {}] /\ releaseList = [t \in Thread |-> <<>>]

SlotStep(t, from, to) ==
  /\ parked[t] = "up" /\ slotPc[t] = from
  /\ slotPc' = [slotPc EXCEPT ![t] = to]

AskFor(t, all) ==
  /\ SlotStep(t, "out", "acquire")
  /\ exclusive' = [exclusive EXCEPT ![t] = all]
  /\ UNCHANGED <<parking, takenVars, queuedExclusive, bits, releaseList>>

Claimable(t) ==
  IF exclusive[t] THEN busy = {} ELSE busy # AllSlots /\ exclusiveWaiting = 0

\* The lowest free slot, or every one.
Claim(t) == IF exclusive[t] THEN AllSlots
            ELSE {CHOOSE s \in AllSlots \ busy : \A r \in AllSlots \ busy : s <= r}

\* One turn of acquire()'s loop, under the lock: claim, or join the waiters.
AcquireClaim(t) ==
  /\ SlotStep(t, "acquire", "holds")
  /\ Claimable(t)
  /\ busy' = busy \cup Claim(t)
  /\ bits' = [bits EXCEPT ![t] = Claim(t)]
  /\ exclusiveWaiting' = IF queuedExclusive[t] THEN exclusiveWaiting - 1 ELSE exclusiveWaiting
  /\ queuedExclusive' = [queuedExclusive EXCEPT ![t] = FALSE]
  /\ UNCHANGED <<parking, slotWaiters, exclusive, releaseList>>

AcquireWait(t) ==
  /\ SlotStep(t, "acquire", "block")
  /\ t \in Sleepers /\ ~Claimable(t)
  /\ slotWaiters' = Append(slotWaiters, t)
  /\ exclusiveWaiting' = IF exclusive[t] /\ ~queuedExclusive[t]
                         THEN exclusiveWaiting + 1 ELSE exclusiveWaiting
  /\ queuedExclusive' = [queuedExclusive EXCEPT ![t] = exclusive[t]]
  /\ UNCHANGED <<parking, busy, exclusive, bits, releaseList>>

AcquireBlock(t) ==
  /\ SlotStep(t, "block", "acquire")
  /\ BlockCurrent(t)
  /\ UNCHANGED <<takenVars, exclusive, queuedExclusive, bits, releaseList>>

\* release(): clear the bits and take the waiters, under the lock ...
ReleaseSlot(t) ==
  /\ SlotStep(t, "holds", "wake")
  /\ busy' = busy \ bits[t] /\ bits' = [bits EXCEPT ![t] = {}]
  /\ releaseList' = [releaseList EXCEPT ![t] = slotWaiters]
  /\ slotWaiters' = <<>>
  /\ UNCHANGED <<parking, exclusiveWaiting, exclusive, queuedExclusive>>

\* ... and wake them, one by one, outside it.
ReleaseWake(t) ==
  /\ parked[t] = "up" /\ slotPc[t] = "wake"
  /\ IF releaseList[t] = <<>>
     THEN /\ slotPc' = [slotPc EXCEPT ![t] = "out"]
          /\ exclusive' = [exclusive EXCEPT ![t] = FALSE]
          /\ UNCHANGED <<parking, releaseList>>
     ELSE /\ Unblock(Head(releaseList[t]))
          /\ releaseList' = [releaseList EXCEPT ![t] = Tail(@)]
          /\ UNCHANGED <<slotPc, exclusive>>
  /\ UNCHANGED <<takenVars, queuedExclusive, bits>>

\* A polled wait timed out and the command is still with the device: the
\* driver's release() leaves the slot taken.
Abandon(t) ==
  /\ t \notin Sleepers
  /\ SlotStep(t, "holds", "out")
  /\ bits' = [bits EXCEPT ![t] = {}] /\ exclusive' = [exclusive EXCEPT ![t] = FALSE]
  /\ UNCHANGED <<parking, takenVars, queuedExclusive, releaseList>>

SlotsNext ==
  \E t \in Thread :
    \/ \E all \in BOOLEAN : AskFor(t, all)
    \/ AcquireClaim(t) \/ AcquireWait(t) \/ AcquireBlock(t)
    \/ ReleaseSlot(t) \/ ReleaseWake(t) \/ Abandon(t)

SlotsSpec == ParkingInit /\ SlotsInit /\ [][SlotsNext]_slotVars

\* request.rs, release: "Everyone waiting tries again".  No caller of acquire()
\* sleeps while it could have what it waits for, unless a release() is on its way
\* to wake it: slots given back, an exclusive claim that ends the ban on single
\* ones and wakes that find the thread not yet parked included.  And no slot is
\* in two callers' hands.
SlotWaitersWoken ==
  /\ \A t \in Thread :
       parked[t] = "parked" /\ slotPc[t] = "acquire" /\ Claimable(t)
       => \E r \in Thread : \E i \in 1..Len(releaseList[r]) : releaseList[r][i] = t
  /\ \A t, r \in Thread : t # r => bits[t] \cap bits[r] = {}
=============================================================================
