------------------------------ MODULE SleepIo ------------------------------
(***************************************************************************)
(* Threads that wait for a disk request (kernel/src/block/request.rs,      *)
(* Completion) while they hold a SleepMutex, as every file system          *)
(* operation does (kernel/src/fs/mod.rs, FileSystem::state), and that also *)
(* sleep: one wake_pending serves all three ways of parking, so a wake     *)
(* meant for one can end another.                                          *)
(*                                                                         *)
(* There is one answer per request slot, and each thread has a slot of its *)
(* own.  The interrupt handler that delivers the answer runs on any        *)
(* processor; every access to state and to waiter, and the unblock, is a   *)
(* step of its own: wait() takes no lock, and finish() runs while it does. *)
(* A sleeper is in "asleep" until its deadline, and wake_due_sleepers      *)
(* unblocks it after that.                                                 *)
(***************************************************************************)
EXTENDS SleepLock

CONSTANTS Slot, NoThread

ASSUME NoThreadAssumption == NoThread \notin Thread

VARIABLES
  answer,      \* Completion::state of each slot: Idle, InFlight, Done or Fault
  waiter,      \* Completion::waiter of each slot
  waitPc,      \* each thread's place in wait(), "out" when it is not there
  waitSlot,    \* the slot it waits on
  finishPc,    \* the place in finish() of whoever answers a slot
  finishFor    \* the waiter finish() swapped out

answers == <<answer, waiter>>
waits == <<waitPc, waitSlot>>
finishes == <<finishPc, finishFor>>
CompletionInit ==
  /\ answer = [s \in Slot |-> "Idle"] /\ waiter = [s \in Slot |-> NoThread]
  /\ waitPc = [t \in Thread |-> "out"] /\ waitSlot = [t \in Thread |-> CHOOSE s \in Slot : TRUE]
  /\ finishPc = [s \in Slot |-> "out"] /\ finishFor = [s \in Slot |-> NoThread]

\* arm(), before the command is handed to the device.
Arm(s) ==
  /\ answer' = [answer EXCEPT ![s] = "InFlight"]
  /\ UNCHANGED waiter

Outcome(s) == answer[s] \in {"Done", "Fault"}

\* finish(): store the answer, swap the waiter out, wake it.
FinishStore(s, ok) ==
  /\ finishPc[s] = "out"
  /\ answer' = [answer EXCEPT ![s] = IF ok THEN "Done" ELSE "Fault"]
  /\ finishPc' = [finishPc EXCEPT ![s] = "swap"]
  /\ UNCHANGED <<waiter, finishFor, waits, parking>>

FinishSwap(s) ==
  /\ finishPc[s] = "swap"
  /\ waiter' = [waiter EXCEPT ![s] = NoThread]
  /\ finishFor' = [finishFor EXCEPT ![s] = waiter[s]]
  /\ finishPc' = [finishPc EXCEPT ![s] = IF waiter[s] = NoThread THEN "out" ELSE "wake"]
  /\ UNCHANGED <<answer, waits, parking>>

FinishWake(s) ==
  /\ finishPc[s] = "wake"
  /\ Unblock(finishFor[s])
  /\ finishPc' = [finishPc EXCEPT ![s] = "out"]
  /\ finishFor' = [finishFor EXCEPT ![s] = NoThread]
  /\ UNCHANGED <<answers, waits>>

\* A thread that is parked executes nothing.
Waiting(t, place) == parked[t] = "up" /\ waitPc[t] = place

WaitGoTo(t, place) == waitPc' = [waitPc EXCEPT ![t] = place]

\* wait() is called on an armed slot; it looks first ...
WaitBegin(t, s) ==
  /\ waitSlot' = [waitSlot EXCEPT ![t] = s]
  /\ WaitGoTo(t, "look")

WaitLook(t) ==
  /\ Waiting(t, "look")
  /\ WaitGoTo(t, IF Outcome(waitSlot[t]) THEN "out" ELSE "register")
  /\ UNCHANGED <<waitSlot, answers, finishes, parking>>

\* ... names itself ...
WaitRegister(t) ==
  /\ Waiting(t, "register")
  /\ waiter' = [waiter EXCEPT ![waitSlot[t]] = t]
  /\ WaitGoTo(t, "recheck")
  /\ UNCHANGED <<answer, waitSlot, finishes, parking>>

\* A bug to be caught: parking without looking again.
WaitRecheckNot(t) ==
  /\ Waiting(t, "recheck")
  /\ WaitGoTo(t, "sleep")
  /\ UNCHANGED <<waitSlot, answers, finishes, parking>>

\* ... looks again ...
WaitRecheck(t) ==
  /\ Waiting(t, "recheck")
  /\ WaitGoTo(t, IF Outcome(waitSlot[t]) THEN "unregister" ELSE "sleep")
  /\ UNCHANGED <<waitSlot, answers, finishes, parking>>

WaitUnregister(t) ==
  /\ Waiting(t, "unregister")
  /\ waiter' = [waiter EXCEPT ![waitSlot[t]] = NoThread]
  /\ WaitGoTo(t, "out")
  /\ UNCHANGED <<answer, waitSlot, finishes, parking>>

\* ... and parks, to start over when something wakes it.
WaitSleep(t) ==
  /\ Waiting(t, "sleep")
  /\ BlockCurrent(t)
  /\ WaitGoTo(t, "look")
  /\ UNCHANGED <<waitSlot, answers, finishes>>

WaitStep(t) ==
  \/ WaitLook(t) \/ WaitRegister(t) \/ WaitRecheck(t) \/ WaitUnregister(t) \/ WaitSleep(t)

FinishStep(s) == FinishSwap(s) \/ FinishWake(s)
----------------------------------------------------------------------------
VARIABLES asleep,   \* in sleep_ticks, before the deadline
          due       \* in SLEEPERS, past the deadline, not yet woken

io == <<answers, waits, finishes>>
sleeps == <<asleep, due>>
ioVars == <<parking, sleepLock, io, sleeps>>

IoInit ==
  /\ ParkingInit /\ SleepLockInit /\ CompletionInit
  /\ asleep = {} /\ due = {}

Free(t) == waitPc[t] = "out" /\ t \notin asleep \cup due

\* lock(), and the guard's drop, by a thread that is in no other wait.
EnterLock(t) == Free(t) /\ (LockBegin(t) \/ LockStep(t)) /\ UNCHANGED <<io, sleeps>>

Leave(t) == Free(t) /\ DropFree(t) /\ UNCHANGED <<io, sleeps>>

\* The holder arms its slot and waits for the answer.
Request(t) ==
  /\ Free(t) /\ Locking(t, "in") /\ finishPc[t] = "out"
  /\ Arm(t) /\ WaitBegin(t, t)
  /\ UNCHANGED <<parking, sleepLock, finishes, sleeps>>

Wait(t) == WaitStep(t) /\ UNCHANGED <<sleepLock, sleeps>>

\* The device answers, on whichever processor takes its interrupt.
DeviceInterrupt(s) ==
  /\ \/ answer[s] = "InFlight" /\ FinishStore(s, TRUE)
     \/ FinishStep(s)
  /\ UNCHANGED <<sleepLock, sleeps>>

\* sleep_ticks, the deadline, and the wake after it.
Sleep(t) ==
  /\ Free(t) /\ Locking(t, "out")
  /\ ParkAfresh(t)
  /\ asleep' = asleep \cup {t}
  /\ UNCHANGED <<due, sleepLock, io>>

Deadline(t) ==
  /\ t \in asleep
  /\ asleep' = asleep \ {t} /\ due' = due \cup {t}
  /\ UNCHANGED <<parking, sleepLock, io>>

WakeSleeper(t) ==
  /\ t \in due
  /\ due' = due \ {t}
  /\ Unblock(t)
  /\ UNCHANGED <<asleep, sleepLock, io>>

IoNext ==
  \/ \E t \in Thread : \/ EnterLock(t) \/ Leave(t) \/ Request(t) \/ Wait(t)
                       \/ Sleep(t) \/ Deadline(t) \/ WakeSleeper(t)
  \/ \E s \in Slot : DeviceInterrupt(s)

IoSpec == IoInit /\ [][IoNext]_ioVars

\* A device answers what it was handed, a handler and a running thread go on.
IoFairness ==
  /\ \A t \in Thread : WF_ioVars(Wait(t))
  /\ \A s \in Slot : WF_ioVars(DeviceInterrupt(s))

\* Every request is answered to the thread that made it, whatever wakes go astray:
\* wait() looks at the answer again after each.
RequestEnds == \A t \in Thread : waitPc[t] # "out" ~> waitPc[t] = "out"
=============================================================================
