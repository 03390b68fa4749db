------------------------------ MODULE MCWaits ------------------------------
(***************************************************************************)
(* Small instances of what a thread waits in and must come out of: the     *)
(* ticket lock, the sleeping lock (taken by threads that park nowhere      *)
(* else, and by threads that wait for the disk and sleep as well) and a    *)
(* ring.  They share the parking of threads and nothing else, so one run   *)
(* holds them side by side: the initial state chooses the part that moves. *)
(***************************************************************************)
EXTENDS TicketLock, SleepIo, Ring

CONSTANT IoThread  \* bound: the threads that take part when disk and clock do

VARIABLE part

MCContext == {"t1", "h1", "t2", "h2"}
MCCpuOf == [x \in MCContext |-> IF x \in {"t1", "h1"} THEN 1 ELSE 2]

ringState == <<memory, sleeping, side, message, out, taken>>
diskState == <<io, sleeps>>
waitsVars == <<vars, parking, sleepLock, diskState, ringState, part>>

WaitsInit ==
  part \in {"ticket", "sleep", "io", "ring"} /\ Init /\ IoInit /\ RingInit

\* A step of the sleeping lock alone, and one of the ring.
Sleeping(A) == part = "sleep" /\ A /\ UNCHANGED <<vars, diskState, ringState, part>>
Ringing(A) == part = "ring" /\ A /\ UNCHANGED <<vars, sleepLock, diskState, part>>

WaitsNext ==
  \/ part = "ticket" /\ Next
     /\ UNCHANGED <<parking, sleepLock, diskState, ringState, part>>
  \/ Sleeping(SleepLockNext)
  \/ /\ part = "io" /\ IoNext /\ UNCHANGED <<vars, ringState, part>>
     /\ \A t \in Thread \ IoThread : parked'[t] = "up" /\ lockPc'[t] = "out"
  \/ Ringing(RingNext)

\* A running thread goes on and leaves the critical section; nobody has to lock.
SleepLockFairness ==
  \A t \in Thread : /\ WF_waitsVars(Sleeping(LockStep(t)))
                    /\ WF_waitsVars(Sleeping(DropFree(t)))

\* A side that has begun goes on, for its processor runs it whenever it is ready,
\* and the receiver asks for the next message.
RingFairness ==
  /\ \A t \in Sides : WF_waitsVars(Ringing(SideStep(t)))
  /\ WF_waitsVars(Ringing(\E v \in Value : Begin(Receiver, v)))

WaitsSpec ==
  /\ WaitsInit /\ [][WaitsNext]_waitsVars
  /\ Fairness /\ IoFairness /\ SleepLockFairness /\ RingFairness
----------------------------------------------------------------------------
\* A SleepMutex that is free does not stay free while a thread waits for it, as
\* long as its waiters park nowhere else.
LockTaken ==
  \A t \in Thread : (part = "sleep" /\ lockPc[t] \in {"try", "queue", "park"}) ~> lockHeld

\* Nobody parked waits for ever: a request is answered to the thread that made it,
\* whatever wakes go astray, and a free SleepMutex is taken.
SleepersServed == RequestEnds /\ LockTaken

\* A message in the ring is received, and a sender that waits for room comes back.
RingDrained == Received /\ SenderReturns
=============================================================================
