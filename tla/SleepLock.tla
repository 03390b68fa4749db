----------------------------- MODULE SleepLock -----------------------------
(***************************************************************************)
(* SleepMutex, the lock whose waiters park (kernel/src/sync.rs).  Each     *)
(* critical section of the waiters' list is a step; the exchange on held,  *)
(* the store that frees it and the unblock are steps of their own.         *)
(***************************************************************************)
EXTENDS Parking, Naturals, Sequences

CONSTANTS CanSleep,  \* the threads for which can_sleep() holds
          MaxQueued  \* bound on the length of the waiters' list

ASSUME CanSleepAssumption == CanSleep \subseteq Thread
ASSUME QueuedAssumption == MaxQueued \in Nat

VARIABLES lockHeld, waiters,  \* the lock
          lockPc,         \* each thread's place in lock() or in the guard's drop
          next            \* the waiter that drop() popped, a sequence of at most one

sleepLock == <<lockHeld, waiters, lockPc, next>>

SleepLockInit ==
  /\ lockHeld = FALSE /\ waiters = << >>
  /\ lockPc = [t \in Thread |-> "out"]
  /\ next = [t \in Thread |-> << >>]

Locking(t, place) == parked[t] = "up" /\ lockPc[t] = place

LockGoTo(t, place) == lockPc' = [lockPc EXCEPT ![t] = place]

\* lock() is called; a thread woken in it comes back to here as well.
LockBegin(t) ==
  /\ Locking(t, "out")
  /\ LockGoTo(t, "try")
  /\ UNCHANGED <<lockHeld, waiters, next, parking>>

\* take(), and the spin of a caller that cannot park.
LockTry(t) ==
  /\ Locking(t, "try")
  /\ lockHeld' = TRUE
  /\ LockGoTo(t, IF ~lockHeld THEN "in" ELSE IF t \in CanSleep THEN "queue" ELSE "try")
  /\ UNCHANGED <<waiters, next, parking>>

\* Under the waiters' lock: try again, or queue.
LockQueue(t) ==
  /\ Locking(t, "queue")
  /\ Len(waiters) < MaxQueued
  /\ IF lockHeld
     THEN waiters' = Append(waiters, t) /\ LockGoTo(t, "park") /\ UNCHANGED lockHeld
     ELSE lockHeld' = TRUE /\ LockGoTo(t, "in") /\ UNCHANGED waiters
  /\ UNCHANGED <<next, parking>>

LockPark(t) ==
  /\ Locking(t, "park")
  /\ BlockCurrent(t)
  /\ LockGoTo(t, "try")
  /\ UNCHANGED <<lockHeld, waiters, next>>

\* The guard is dropped: held is freed, a waiter popped, and woken.
DropFree(t) ==
  /\ Locking(t, "in")
  /\ lockHeld' = FALSE
  /\ LockGoTo(t, "pop")
  /\ UNCHANGED <<waiters, next, parking>>

\* A bug to be caught: the waiter is read and not removed.
DropPopKeeps(t) ==
  /\ Locking(t, "pop")
  /\ IF waiters = << >>
     THEN LockGoTo(t, "out") /\ UNCHANGED next
     ELSE next' = [next EXCEPT ![t] = <<Head(waiters)>>] /\ LockGoTo(t, "wake")
  /\ UNCHANGED <<lockHeld, waiters, parking>>

DropPop(t) ==
  /\ Locking(t, "pop")
  /\ IF waiters = << >>
     THEN LockGoTo(t, "out") /\ UNCHANGED <<waiters, next>>
     ELSE /\ next' = [next EXCEPT ![t] = <<Head(waiters)>>]
          /\ waiters' = Tail(waiters)
          /\ LockGoTo(t, "wake")
  /\ UNCHANGED <<lockHeld, parking>>

DropWake(t) ==
  /\ Locking(t, "wake")
  /\ Unblock(next[t][1])
  /\ next' = [next EXCEPT ![t] = << >>]
  /\ LockGoTo(t, "out")
  /\ UNCHANGED <<lockHeld, waiters>>

\* Every step but entering lock() and leaving the critical section.
LockStep(t) ==
  LockTry(t) \/ LockQueue(t) \/ LockPark(t) \/ DropPop(t) \/ DropWake(t)

----------------------------------------------------------------------------
\* The lock on its own: threads that park nowhere else.
SleepLockNext == \E t \in Thread : LockBegin(t) \/ DropFree(t) \/ LockStep(t)

SleepLockSpec ==
  ParkingInit /\ SleepLockInit /\ [][SleepLockNext]_<<parking, sleepLock>>

\* "held admits one holder at a time".
OneHolder ==
  \A t, u \in Thread : lockPc[t] = "in" /\ lockPc[u] = "in" => t = u

\* A wake for some waiter is on its way, or some thread that will free the lock,
\* or try it, is running.
WakeComing ==
  \/ lockHeld
  \/ \E t \in Thread : lockPc[t] \in {"pop", "wake"}
  \/ \E t \in Thread : lockPc[t] \in {"try", "queue", "park"} /\ parked[t] = "up"
                       /\ (lockPc[t] = "park" => wakePending[t])

\* "There is no gap for a release to fall into": a thread parked in lock() while
\* the lock is free is about to get a turn, or somebody else is.
NoGap ==
  (\E t \in Thread : parked[t] = "parked" /\ lockPc[t] = "try") => WakeComing

\* A waiter is in the queue exactly as often as it is owed a wake.
QueuedOnce ==
  \A t \in Thread :
    LET owed == lockPc[t] = "park" \/ (lockPc[t] = "try" /\ parked[t] = "parked")
        places == {i \in DOMAIN waiters : waiters[i] = t}
        bearers == {u \in Thread : lockPc[u] = "wake" /\ next[u] = <<t>>}
    IN  /\ places # {} => owed
        /\ \A i, j \in places : i = j
        /\ owed /\ ~wakePending[t] => places # {} \/ bearers # {}

\* SleepMutex admits one holder, and a waiter is in its list exactly as often as it
\* is owed a wake.
SleepersSound == OneHolder /\ QueuedOnce
=============================================================================
