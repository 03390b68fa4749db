----------------------------- MODULE SchedSteps -----------------------------
(***************************************************************************)
(* What the scheduler's steps other than prepare_switch do to the          *)
(* processors' stacks, and to the types: the first half of the proof in    *)
(* module SchedProofs.                                                     *)
(***************************************************************************)
EXTENDS Sched, QueueLemmas

\* The time each leaf is given.
USE SMTT(30), ZenonT(30)

\* What the assumptions on the constants say of the threads.
LEMMA Basics ==
  /\ Boot \in Cpu /\ BootThread \in Worker /\ Worker \subseteq Thread
  /\ NoThread \notin Thread /\ NoThread \notin Worker
  /\ \A c \in Cpu : Idle[c] \in Thread /\ Idle[c] \notin Worker /\ Idle[c] # NoThread
  /\ \A c, d \in Cpu : Idle[c] = Idle[d] => c = d
  /\ MayWake \subseteq Worker /\ Joinable \subseteq Worker /\ Priorities \subseteq Level
BY CpuAssumption, WorkerAssumption, IdleAssumption, ChoiceAssumption
   DEF Thread

Switching == {"bury", "switch", "arrive"}

\* A step of processor c outside the part of schedule() that switches: it leaves
\* the processors on their stacks, and the threads change state only the ways
\* block_current, exit_current, unblock and spawn change it.
CalmStep(c) ==
  /\ UNCHANGED <<current, pending, standing, onCpu>>
  /\ current[c] # NoThread /\ pc[c] \notin Switching
  /\ \E p \in Places \ Switching : pc' = [pc EXCEPT ![c] = p]
  /\ \A t \in Thread :
       /\ t # standing[c] => at'[t] = at[t]
       /\ \/ state'[t] = state[t] /\ saved'[t] = saved[t]
          \/ t \in Worker /\ t = standing[c] /\ state'[t] \in {"Blocked", "Finished"}
                          /\ saved'[t] = saved[t]
          \/ t \in Worker /\ state[t] = "Blocked" /\ state'[t] = "Ready"
                          /\ saved'[t] = saved[t]
          \/ t \in Worker /\ state[t] = "Unborn" /\ state'[t] = "Ready" /\ saved'[t]
  /\ pc'[c] \in {"out", "spawn"} /\ at'[current[c]] = "free"
       => state'[current[c]] = "Running"

\* Such a step keeps what is known of the stacks.
LEMMA CalmStepKeepsStackInv ==
  ASSUME TypeOK, StackInv, NEW c \in Cpu, CalmStep(c)
  PROVE  StackInv'
<1> USE Basics
<1>p. PICK p \in Places \ Switching : pc' = [pc EXCEPT ![c] = p]
  BY Zenon DEF CalmStep
<1>0. /\ pending[c] = NoThread /\ standing[c] = current[c] /\ pc'[c] = p
      /\ \A d \in Cpu : d # c => pc'[d] = pc[d]
  BY <1>p DEF CalmStep, StackInv, StandingInv, Switching, TypeOK, StackTypes
<1>1. StandingInv'
  <2> SUFFICES ASSUME NEW d \in Cpu
               PROVE  /\ current'[d] = NoThread => pc'[d] = "out"
                      /\ pending'[d] # NoThread => pc'[d] \in {"bury", "switch", "arrive"}
                      /\ pc'[d] \in {"switch", "arrive"} => pending'[d] # NoThread
                      /\ standing'[d] = IF pending'[d] = NoThread \/ pc'[d] = "arrive"
                                        THEN current'[d] ELSE pending'[d]
    BY DEF StandingInv
  <2>1. CASE d = c
    BY <1>0, <1>p, <2>1 DEF CalmStep, Switching
  <2>2. CASE d # c
    BY <1>0, <2>2 DEF CalmStep, StackInv, StandingInv
  <2> QED
    BY <2>1, <2>2
<1>2. \A t \in Thread : state[t] # "Unborn" => state'[t] # "Unborn"
  BY DEF CalmStep
<1>3. HeldInv'
  BY <1>2 DEF CalmStep, StackInv, HeldInv, Holds
<1>4. \A d \in Cpu : state'[Idle[d]] = state[Idle[d]]
  BY DEF CalmStep
<1>5. IdleInv'
  BY <1>4 DEF CalmStep, StackInv, IdleInv, Holds
<1>6. SavedInv'
  <2> SUFFICES ASSUME NEW t \in Thread, state'[t] # "Unborn", \A d \in Cpu : standing'[d] # t
               PROVE  saved'[t]
    BY DEF SavedInv
  <2>1. standing[c] # t /\ \A d \in Cpu : standing[d] # t
    BY DEF CalmStep
  <2>2. CASE state[t] = "Unborn"
    BY <2>1, <2>2 DEF CalmStep
  <2>3. CASE state[t] # "Unborn"
    <3>1. saved[t]
      BY <2>1, <2>3 DEF StackInv, SavedInv
    <3> QED
      BY <3>1, <2>3, <2>1 DEF CalmStep
  <2> QED
    BY <2>2, <2>3
<1>7. RunningInv'
  <2> SUFFICES ASSUME NEW d \in Cpu, current'[d] # NoThread, at'[current'[d]] = "free",
                      pc'[d] \in {"out", "spawn", "bury", "switch", "arrive"}
               PROVE  state'[current'[d]] = "Running"
    BY DEF RunningInv
  <2>1. CASE d = c
    BY <1>0, <1>p, <2>1 DEF CalmStep, Switching
  <2>2. CASE d # c
    <3>1. current[d] \in Thread /\ current'[d] = current[d]
      BY DEF TypeOK, StackTypes, CalmStep
    <3>2. current[d] # standing[c]
      BY <1>0, <2>2, <3>1 DEF StackInv, HeldInv, Holds
    <3>3. state[current[d]] = "Running"
      BY <1>0, <2>2, <3>1, <3>2 DEF CalmStep, StackInv, RunningInv
    <3> QED
      BY <3>1, <3>2, <3>3 DEF CalmStep
  <2> QED
    BY <2>1, <2>2
<1> QED
  BY <1>1, <1>3, <1>5, <1>6, <1>7 DEF StackInv

\* Spawn moves no processor to another stack.
LEMMA SpawnIsCalm ==
  ASSUME TypeOK, StackInv, NEW c \in Cpu, NEW u \in Worker, NEW p \in Priorities, Spawn(c, u, p)
  PROVE  CalmStep(c)
<1>1. current[c] # NoThread /\ pc[c] \notin Switching /\ standing[c] = current[c]
  BY DEF StackInv, StandingInv, Switching, Spawn, Calls, Open
<1> QED
  BY <1>1, Basics, Zenon DEF CalmStep, TypeOK, StackTypes, StackInv, RunningInv, Places, Switching, Spawn, Calls, Open, tcb, cpus, local, machine

\* SpawnEnqueue moves no processor to another stack.
LEMMA SpawnEnqueueIsCalm ==
  ASSUME TypeOK, StackInv, NEW c \in Cpu, SpawnEnqueue(c)
  PROVE  CalmStep(c)
<1>1. current[c] # NoThread /\ pc[c] \notin Switching /\ standing[c] = current[c]
  BY DEF StackInv, StandingInv, Switching, SpawnEnqueue
<1> QED
  BY <1>1, Basics, Zenon DEF CalmStep, TypeOK, StackTypes, StackInv, RunningInv, Places, Switching, SpawnEnqueue, tcb, cpus, local, machine

\* SetPriority moves no processor to another stack.
LEMMA SetPriorityIsCalm ==
  ASSUME TypeOK, StackInv, NEW c \in Cpu, NEW u \in Worker, NEW p \in Priorities, SetPriority(c, u, p)
  PROVE  CalmStep(c)
<1>1. /\ current[c] # NoThread /\ pc[c] = "out" /\ standing[c] = current[c]
      /\ pc' = pc /\ state' = state /\ saved' = saved /\ at' = at
      /\ UNCHANGED <<current, pending, standing, onCpu>>
  BY DEF StackInv, StandingInv, SetPriority, Calls, Open, cpus, local, machine
<1>2. pc' = [pc EXCEPT ![c] = "out"]
  BY <1>1 DEF TypeOK, StackTypes
<1> QED
  BY <1>1, <1>2 DEF CalmStep, TypeOK, StackTypes, StackInv, RunningInv, Places, Switching

\* BlockCurrent moves no processor to another stack.
LEMMA BlockCurrentIsCalm ==
  ASSUME TypeOK, StackInv, NEW c \in Cpu, NEW t \in Worker, BlockCurrent(c, t)
  PROVE  CalmStep(c)
<1>1. current[c] # NoThread /\ pc[c] \notin Switching /\ standing[c] = current[c]
  BY DEF StackInv, StandingInv, Switching, BlockCurrent, Calls, Open
<1> QED
  BY <1>1, Basics DEF CalmStep, TypeOK, StackTypes, StackInv, RunningInv, Places, Switching, BlockCurrent, Calls, Open, tcb, cpus, local, machine

\* Unblock moves no processor to another stack.
LEMMA UnblockIsCalm ==
  ASSUME TypeOK, StackInv, NEW c \in Cpu, NEW u \in Worker, Unblock(c, u)
  PROVE  CalmStep(c)
<1>1. current[c] # NoThread /\ pc[c] \notin Switching /\ standing[c] = current[c]
  BY DEF StackInv, StandingInv, Switching, Unblock, Wake, Movable, Open
<1>2. /\ UNCHANGED <<pc, current, pending, standing, onCpu, saved, at>>
      /\ state' = state \/ (state[u] = "Blocked" /\ state' = [state EXCEPT ![u] = "Ready"])
  BY DEF Unblock, Wake, local, machine
<1>3. pc[c] \in Places \ Switching /\ pc' = [pc EXCEPT ![c] = pc[c]]
  BY <1>1, <1>2 DEF TypeOK, StackTypes
<1>4. u \in Worker /\ \A t \in Thread :
        state'[t] = state[t] \/ (t = u /\ state[t] = "Blocked" /\ state'[t] = "Ready")
  BY <1>2, Basics DEF TypeOK, StackTypes
<1>5. pc'[c] \in {"out", "spawn"} /\ at'[current[c]] = "free" => state'[current[c]] = "Running"
  BY <1>1, <1>2 DEF StackInv, RunningInv, TypeOK, StackTypes
<1> QED
  BY <1>1, <1>2, <1>3, <1>4, <1>5, Zenon DEF CalmStep

\* SleepTicks moves no processor to another stack.
LEMMA SleepTicksIsCalm ==
  ASSUME TypeOK, StackInv, NEW c \in Cpu, NEW t \in Worker, NEW n \in 1..MaxSleep, SleepTicks(c, t, n)
  PROVE  CalmStep(c)
<1>1. current[c] # NoThread /\ pc[c] \notin Switching /\ standing[c] = current[c]
  BY DEF StackInv, StandingInv, Switching, SleepTicks, Calls, Open
<1> QED
  BY <1>1, Basics, Zenon DEF CalmStep, TypeOK, StackTypes, StackInv, RunningInv, Places, Switching, SleepTicks, Calls, Open, tcb, cpus, local, machine

\* PublishDeadline moves no processor to another stack.
LEMMA PublishDeadlineIsCalm ==
  ASSUME TypeOK, StackInv, NEW c \in Cpu, PublishDeadline(c)
  PROVE  CalmStep(c)
<1>1. current[c] # NoThread /\ pc[c] \notin Switching /\ standing[c] = current[c]
  BY DEF StackInv, StandingInv, Switching, PublishDeadline
<1> QED
  BY <1>1, Basics, ZenonT(30) DEF CalmStep, TypeOK, StackTypes, StackInv, RunningInv, Places, Switching, PublishDeadline, tcb, cpus, local, machine

\* Join moves no processor to another stack.
LEMMA JoinIsCalm ==
  ASSUME TypeOK, StackInv, NEW c \in Cpu, NEW t \in Worker, NEW u \in Joinable, Join(c, t, u)
  PROVE  CalmStep(c)
<1>1. /\ current[c] = t /\ pc[c] = "out" /\ standing[c] = t
      /\ pc' = pc /\ saved' = saved
      /\ UNCHANGED <<current, pending, standing, onCpu>>
  BY DEF StackInv, StandingInv, Join, Calls, Open, cpus, local, machine
<1>2. pc' = [pc EXCEPT ![c] = "out"]
  BY <1>1 DEF TypeOK, StackTypes
<1>3. state' = [state EXCEPT ![t] = "Blocked"] /\ at' = [at EXCEPT ![t] = "parking"]
  BY DEF Join
<1> QED
  BY <1>1, <1>2, <1>3, Basics DEF CalmStep, TypeOK, StackTypes, Places, Switching

\* ExitCurrent moves no processor to another stack.
LEMMA ExitCurrentIsCalm ==
  ASSUME TypeOK, StackInv, NEW c \in Cpu, NEW t \in Worker, ExitCurrent(c, t)
  PROVE  CalmStep(c)
<1>1. current[c] # NoThread /\ pc[c] \notin Switching /\ standing[c] = current[c]
  BY DEF StackInv, StandingInv, Switching, ExitCurrent, Calls, Open, JoinersOf
<1> QED
  BY <1>1, Basics, Zenon DEF CalmStep, TypeOK, StackTypes, StackInv, RunningInv, Places, Switching, ExitCurrent, Calls, Open, JoinersOf, tcb, cpus, local, machine

\* HandOutWake moves no processor to another stack.
LEMMA HandOutWakeIsCalm ==
  ASSUME TypeOK, StackInv, NEW c \in Cpu, NEW u \in Worker, HandOutWake(c, u)
  PROVE  CalmStep(c)
<1>1. current[c] # NoThread /\ pc[c] \notin Switching /\ standing[c] = current[c]
  BY DEF StackInv, StandingInv, Switching, HandOutWake, Wake, Movable
<1>2. /\ UNCHANGED <<pc, current, pending, standing, onCpu, saved, at>>
      /\ state' = state \/ (state[u] = "Blocked" /\ state' = [state EXCEPT ![u] = "Ready"])
  BY DEF HandOutWake, Wake, machine
<1>3. pc[c] \in Places \ Switching /\ pc' = [pc EXCEPT ![c] = pc[c]]
  BY <1>1, <1>2 DEF TypeOK, StackTypes
<1>4. u \in Worker /\ \A t \in Thread :
        state'[t] = state[t] \/ (t = u /\ state[t] = "Blocked" /\ state'[t] = "Ready")
  BY <1>2, Basics DEF TypeOK, StackTypes
<1>5. pc'[c] \in {"out", "spawn"} /\ at'[current[c]] = "free" => state'[current[c]] = "Running"
  BY <1>1, <1>2 DEF StackInv, RunningInv, TypeOK, StackTypes
<1> QED
  BY <1>1, <1>2, <1>3, <1>4, <1>5, Zenon DEF CalmStep

\* WakesDone moves no processor to another stack.
LEMMA WakesDoneIsCalm ==
  ASSUME TypeOK, StackInv, NEW c \in Cpu, WakesDone(c)
  PROVE  CalmStep(c)
<1>1. current[c] # NoThread /\ pc[c] \notin Switching /\ standing[c] = current[c]
  BY DEF StackInv, StandingInv, Switching, WakesDone
<1> QED
  BY <1>1, Basics, Zenon DEF CalmStep, TypeOK, StackTypes, StackInv, RunningInv, Places, Switching, WakesDone, tcb, cpus, local, machine

\* TimerTick moves no processor to another stack.
LEMMA TimerTickIsCalm ==
  ASSUME TypeOK, StackInv, NEW c \in Cpu, TimerTick(c)
  PROVE  CalmStep(c)
<1>1. current[c] # NoThread /\ pc[c] \notin Switching /\ standing[c] = current[c]
  BY DEF StackInv, StandingInv, Switching, TimerTick, Open
<1> QED
  BY <1>1, Basics DEF CalmStep, TypeOK, StackTypes, StackInv, RunningInv, Places, Switching, TimerTick, Open, tcb, cpus, local, machine

\* WakeDueSleepers moves no processor to another stack.
LEMMA WakeDueSleepersIsCalm ==
  ASSUME TypeOK, StackInv, NEW c \in Cpu, WakeDueSleepers(c)
  PROVE  CalmStep(c)
<1>1. current[c] # NoThread /\ pc[c] \notin Switching /\ standing[c] = current[c]
  BY DEF StackInv, StandingInv, Switching, WakeDueSleepers, LeftAsleep, DueNow
<1> QED
  BY <1>1, Basics, Zenon DEF CalmStep, TypeOK, StackTypes, StackInv, RunningInv, Places, Switching, WakeDueSleepers, LeftAsleep, DueNow, tcb, cpus, local, machine

\* YieldNow moves no processor to another stack.
LEMMA YieldNowIsCalm ==
  ASSUME TypeOK, StackInv, NEW c \in Cpu, NEW t \in Worker, YieldNow(c, t)
  PROVE  CalmStep(c)
<1>1. current[c] # NoThread /\ pc[c] \notin Switching /\ standing[c] = current[c]
  BY DEF StackInv, StandingInv, Switching, YieldNow, Calls, Open
<1> QED
  BY <1>1, Basics, Zenon DEF CalmStep, TypeOK, StackTypes, StackInv, RunningInv, Places, Switching, YieldNow, Calls, Open, tcb, cpus, local, machine

\* ParkSchedule moves no processor to another stack.
LEMMA ParkScheduleIsCalm ==
  ASSUME TypeOK, StackInv, NEW c \in Cpu, ParkSchedule(c)
  PROVE  CalmStep(c)
<1>1. current[c] # NoThread /\ pc[c] \notin Switching /\ standing[c] = current[c]
  BY DEF StackInv, StandingInv, Switching, ParkSchedule, Open
<1> QED
  BY <1>1, Basics, Zenon DEF CalmStep, TypeOK, StackTypes, StackInv, RunningInv, Places, Switching, ParkSchedule, Open, tcb, cpus, local, machine

\* EnterSchedule moves no processor to another stack.
LEMMA EnterScheduleIsCalm ==
  ASSUME TypeOK, StackInv, NEW c \in Cpu, EnterSchedule(c)
  PROVE  CalmStep(c)
<1>1. current[c] # NoThread /\ pc[c] \notin Switching /\ standing[c] = current[c]
  BY DEF StackInv, StandingInv, Switching, EnterSchedule
<1> QED
  BY <1>1, Basics DEF CalmStep, TypeOK, StackTypes, StackInv, RunningInv, Places, Switching, EnterSchedule, tcb, cpus, local, machine

\* Steal moves no processor to another stack.
LEMMA StealIsCalm ==
  ASSUME TypeOK, StackInv, NEW c \in Cpu, Steal(c)
  PROVE  CalmStep(c)
<1>1. current[c] # NoThread /\ pc[c] \notin Switching /\ standing[c] = current[c]
  BY DEF StackInv, StandingInv, Switching, Steal
<1> QED
  BY <1>1, Basics, Zenon DEF CalmStep, TypeOK, StackTypes, StackInv, RunningInv, Places, Switching, Steal, tcb, cpus, local, machine

\* Spawn keeps the types.
LEMMA SpawnType ==
  ASSUME TypeOK, ArgInv, NEW c \in Cpu, NEW u \in Worker, NEW p \in Priorities, Spawn(c, u, p)
  PROVE  TypeOK' /\ ArgInv'
<1>1. StackTypes'
  BY Basics DEF Spawn, TypeOK, StackTypes, Places, States, cpus
<1>2. ThreadTypes'
  BY Basics DEF Spawn, TypeOK, ThreadTypes, cpus
<1>3. QueueTypes'
  BY DEF Spawn, TypeOK, QueueTypes, cpus
<1>4. ClockTypes'
  BY DEF Spawn, TypeOK, ClockTypes, clock
<1>5. ArgInv'
  BY DEF Spawn, ArgInv, TypeOK, StackTypes
<1> QED
  BY <1>1, <1>2, <1>3, <1>4, <1>5 DEF TypeOK

\* SpawnEnqueue keeps the types.
LEMMA SpawnEnqueueType ==
  ASSUME TypeOK, ArgInv, NEW c \in Cpu, SpawnEnqueue(c)
  PROVE  TypeOK' /\ ArgInv'
<1>1. StackTypes'
  BY Basics, Zenon DEF SpawnEnqueue, TypeOK, StackTypes, Places, tcb, machine
<1>2. ThreadTypes'
  BY DEF SpawnEnqueue, TypeOK, ThreadTypes, tcb
<1>3. QueueTypes'
  BY EnqueueType, Zenon DEF SpawnEnqueue, TypeOK, QueueTypes, ThreadTypes, ArgInv, Thread
<1>4. ClockTypes'
  BY DEF SpawnEnqueue, TypeOK, ClockTypes, clock
<1>5. ArgInv'
  BY DEF SpawnEnqueue, ArgInv, TypeOK, StackTypes
<1> QED
  BY <1>1, <1>2, <1>3, <1>4, <1>5 DEF TypeOK

\* SetPriority keeps the types.
LEMMA SetPriorityType ==
  ASSUME TypeOK, ArgInv, NEW c \in Cpu, NEW u \in Worker, NEW p \in Priorities, SetPriority(c, u, p)
  PROVE  TypeOK' /\ ArgInv'
<1>1. StackTypes'
  BY DEF SetPriority, TypeOK, StackTypes, cpus, local, machine
<1>2. ThreadTypes'
  BY Basics DEF SetPriority, TypeOK, ThreadTypes, cpus, local
<1>3. QueueTypes'
  BY DEF SetPriority, TypeOK, QueueTypes, cpus
<1>4. ClockTypes'
  BY DEF SetPriority, TypeOK, ClockTypes, clock
<1>5. ArgInv'
  BY DEF SetPriority, ArgInv, local
<1> QED
  BY <1>1, <1>2, <1>3, <1>4, <1>5 DEF TypeOK

\* BlockCurrent keeps the types.
LEMMA BlockCurrentType ==
  ASSUME TypeOK, ArgInv, NEW c \in Cpu, NEW t \in Worker, BlockCurrent(c, t)
  PROVE  TypeOK' /\ ArgInv'
<1>1. StackTypes'
  <2>1. CASE wakePending[t]
    BY <2>1 DEF BlockCurrent, TypeOK, StackTypes, cpus, local
  <2>2. CASE ~wakePending[t]
    BY <2>2, Basics DEF BlockCurrent, TypeOK, StackTypes, States, cpus, local
  <2> QED
    BY <2>1, <2>2
<1>2. ThreadTypes'
  BY Basics, Zenon DEF BlockCurrent, TypeOK, ThreadTypes, cpus, local
<1>3. QueueTypes'
  BY DEF BlockCurrent, TypeOK, QueueTypes, cpus
<1>4. ClockTypes'
  BY DEF BlockCurrent, TypeOK, ClockTypes, clock
<1>5. ArgInv'
  BY DEF BlockCurrent, ArgInv, local
<1> QED
  BY <1>1, <1>2, <1>3, <1>4, <1>5 DEF TypeOK

\* Unblock keeps the types.
LEMMA UnblockType ==
  ASSUME TypeOK, ArgInv, NEW c \in Cpu, NEW u \in Worker, Unblock(c, u)
  PROVE  TypeOK' /\ ArgInv'
<1>1. StackTypes'
  BY Basics DEF Unblock, Wake, TypeOK, StackTypes, States, local, machine
<1>2. ThreadTypes'
  BY Basics DEF Unblock, Wake, TypeOK, ThreadTypes, local
<1>3. QueueTypes'
  BY Basics, EnqueueType, Zenon DEF Unblock, Wake, TypeOK, QueueTypes, ThreadTypes
<1>4. ClockTypes'
  BY DEF Unblock, Wake, TypeOK, ClockTypes, clock
<1>5. ArgInv'
  BY DEF Unblock, Wake, ArgInv, local
<1> QED
  BY <1>1, <1>2, <1>3, <1>4, <1>5 DEF TypeOK

\* SleepTicks keeps the types.
LEMMA SleepTicksType ==
  ASSUME TypeOK, ArgInv, NEW c \in Cpu, NEW t \in Worker, NEW n \in 1..MaxSleep, SleepTicks(c, t, n)
  PROVE  TypeOK' /\ ArgInv'
<1>1. StackTypes'
  BY Basics DEF SleepTicks, TypeOK, StackTypes, Places, States, cpus, machine
<1>2. ThreadTypes'
  BY Basics DEF SleepTicks, TypeOK, ThreadTypes, cpus
<1>3. QueueTypes'
  BY DEF SleepTicks, TypeOK, QueueTypes, cpus
<1>4. ClockTypes'
  <2>1. now + n \in 0..MaxNow
    BY BoundAssumption DEF SleepTicks, TypeOK, ClockTypes
  <2> QED
    BY <2>1 DEF SleepTicks, TypeOK, ClockTypes
<1>5. ArgInv'
  <2>1. now + n \in 0..MaxNow
    BY BoundAssumption DEF SleepTicks, TypeOK, ClockTypes
  <2>2. arg' = [arg EXCEPT ![c] = now + n] /\ pc' = [pc EXCEPT ![c] = "publish"]
    BY DEF SleepTicks
  <2> QED
    BY <2>1, <2>2 DEF ArgInv, TypeOK, StackTypes
<1> QED
  BY <1>1, <1>2, <1>3, <1>4, <1>5 DEF TypeOK

\* PublishDeadline keeps the types.
LEMMA PublishDeadlineType ==
  ASSUME TypeOK, StackInv, ArgInv, NEW c \in Cpu, PublishDeadline(c)
  PROVE  TypeOK' /\ ArgInv'
<1>1. StackTypes'
  <2>1. standing[c] \in Thread
    BY DEF StackInv, StandingInv, TypeOK, StackTypes, PublishDeadline
  <2> QED
    BY <2>1 DEF PublishDeadline, TypeOK, StackTypes, Places, tcb, cpus
<1>2. ThreadTypes'
  BY DEF PublishDeadline, TypeOK, ThreadTypes, tcb, cpus
<1>3. QueueTypes'
  BY DEF PublishDeadline, TypeOK, QueueTypes, cpus
<1>4. ClockTypes'
  <2>1. nextWake \in 0..Never /\ arg[c] \in 0..Never
    BY BoundAssumption DEF TypeOK, ClockTypes, ArgInv, PublishDeadline, Never
  <2>2. {nextWake, arg[c]} \subseteq Nat
    BY <2>1
  <2>3. Min({nextWake, arg[c]}) \in {nextWake, arg[c]}
    BY <2>2, MinIsLeast
  <2> QED
    BY <2>1, <2>3 DEF PublishDeadline, Published, TypeOK, ClockTypes
<1>5. ArgInv'
  BY DEF PublishDeadline, ArgInv, TypeOK, StackTypes
<1> QED
  BY <1>1, <1>2, <1>3, <1>4, <1>5 DEF TypeOK

\* Join keeps the types.
LEMMA JoinType ==
  ASSUME TypeOK, ArgInv, NEW c \in Cpu, NEW t \in Worker, NEW u \in Joinable, Join(c, t, u)
  PROVE  TypeOK' /\ ArgInv'
<1>1. StackTypes'
  BY Basics, ZenonT(30) DEF Join, TypeOK, StackTypes, States, cpus, local
<1>2. ThreadTypes'
  BY Basics DEF Join, TypeOK, ThreadTypes, cpus, local
<1>3. QueueTypes'
  BY DEF Join, TypeOK, QueueTypes, cpus
<1>4. ClockTypes'
  BY DEF Join, TypeOK, ClockTypes, clock
<1>5. ArgInv'
  BY DEF Join, ArgInv, local
<1> QED
  BY <1>1, <1>2, <1>3, <1>4, <1>5 DEF TypeOK

\* ExitCurrent keeps the types.
LEMMA ExitCurrentType ==
  ASSUME TypeOK, ArgInv, NEW c \in Cpu, NEW t \in Worker, ExitCurrent(c, t)
  PROVE  TypeOK' /\ ArgInv'
<1>1. StackTypes'
  BY Basics DEF ExitCurrent, TypeOK, StackTypes, Places, States, cpus
<1>2. ThreadTypes'
  BY Basics DEF ExitCurrent, TypeOK, ThreadTypes, JoinersOf, cpus
<1>3. QueueTypes'
  BY DEF ExitCurrent, TypeOK, QueueTypes, cpus
<1>4. ClockTypes'
  BY DEF ExitCurrent, TypeOK, ClockTypes, clock
<1>5. ArgInv'
  BY DEF ExitCurrent, ArgInv, TypeOK, StackTypes
<1> QED
  BY <1>1, <1>2, <1>3, <1>4, <1>5 DEF TypeOK

\* HandOutWake keeps the types.
LEMMA HandOutWakeType ==
  ASSUME TypeOK, ArgInv, NEW c \in Cpu, NEW u \in Worker, HandOutWake(c, u)
  PROVE  TypeOK' /\ ArgInv'
<1>1. StackTypes'
  BY Basics DEF HandOutWake, Wake, TypeOK, StackTypes, States, machine
<1>2. ThreadTypes'
  BY Basics DEF HandOutWake, Wake, TypeOK, ThreadTypes
<1>3. QueueTypes'
  BY Basics, EnqueueType, Zenon DEF HandOutWake, Wake, TypeOK, QueueTypes, ThreadTypes
<1>4. ClockTypes'
  BY DEF HandOutWake, Wake, TypeOK, ClockTypes, clock
<1>5. ArgInv'
  BY DEF HandOutWake, Wake, ArgInv
<1> QED
  BY <1>1, <1>2, <1>3, <1>4, <1>5 DEF TypeOK

\* WakesDone keeps the types.
LEMMA WakesDoneType ==
  ASSUME TypeOK, ArgInv, NEW c \in Cpu, WakesDone(c)
  PROVE  TypeOK' /\ ArgInv'
<1>1. StackTypes'
  BY Basics DEF WakesDone, TypeOK, StackTypes, Places, tcb, cpus, machine
<1>2. ThreadTypes'
  BY DEF WakesDone, TypeOK, ThreadTypes, tcb, cpus
<1>3. QueueTypes'
  BY DEF WakesDone, TypeOK, QueueTypes, cpus
<1>4. ClockTypes'
  BY DEF WakesDone, TypeOK, ClockTypes, clock
<1>5. ArgInv'
  BY DEF WakesDone, ArgInv, TypeOK, StackTypes
<1> QED
  BY <1>1, <1>2, <1>3, <1>4, <1>5 DEF TypeOK

\* TimerTick keeps the types.
LEMMA TimerTickType ==
  ASSUME TypeOK, ArgInv, NEW c \in Cpu, TimerTick(c)
  PROVE  TypeOK' /\ ArgInv'
<1>1. StackTypes'
  <2>1. \E p \in {"collect", "enter"} : pc' = [pc EXCEPT ![c] = p]
    BY DEF TimerTick
  <2> QED
    BY <2>1 DEF TimerTick, TypeOK, StackTypes, Places, tcb, cpus, machine
<1>2. ThreadTypes'
  BY DEF TimerTick, TypeOK, ThreadTypes, tcb, cpus
<1>3. QueueTypes'
  BY DEF TimerTick, TypeOK, QueueTypes, cpus
<1>4. ClockTypes'
  BY BoundAssumption DEF TimerTick, TypeOK, ClockTypes
<1>5. ArgInv'
  <2> DEFINE tick == IF c = Boot /\ now < MaxNow THEN now + 1 ELSE now
  <2>1. tick \in 0..MaxNow
    BY BoundAssumption DEF TypeOK, ClockTypes
  <2>2. \/ pc' = [pc EXCEPT ![c] = "collect"] /\ arg' = [arg EXCEPT ![c] = tick]
        \/ pc' = [pc EXCEPT ![c] = "enter"] /\ arg' = arg
    BY DEF TimerTick
  <2> HIDE DEF tick
  <2>3. CASE pc' = [pc EXCEPT ![c] = "collect"] /\ arg' = [arg EXCEPT ![c] = tick]
    BY <2>1, <2>3 DEF ArgInv, TypeOK, StackTypes
  <2>4. CASE pc' = [pc EXCEPT ![c] = "enter"] /\ arg' = arg
    BY <2>4 DEF ArgInv, TypeOK, StackTypes
  <2> QED
    BY <2>2, <2>3, <2>4
<1> QED
  BY <1>1, <1>2, <1>3, <1>4, <1>5 DEF TypeOK

\* WakeDueSleepers keeps the types.
LEMMA WakeDueSleepersType ==
  ASSUME TypeOK, ArgInv, NEW c \in Cpu, WakeDueSleepers(c)
  PROVE  TypeOK' /\ ArgInv'
<1>1. StackTypes'
  BY Basics, ZenonT(30) DEF WakeDueSleepers, TypeOK, StackTypes, Places, tcb, cpus, machine
<1>2. ThreadTypes'
  <2>1. {s.id : s \in DueNow(c)} \subseteq Worker
    BY DEF DueNow, TypeOK, ClockTypes
  <2> QED
    BY <2>1, Zenon DEF WakeDueSleepers, TypeOK, ThreadTypes, tcb, cpus
<1>3. QueueTypes'
  BY Zenon DEF WakeDueSleepers, TypeOK, QueueTypes, cpus
<1>4. ClockTypes'
  <2> DEFINE S == {Never} \cup {s.deadline : s \in LeftAsleep(c)}
  <2>0. LeftAsleep(c) \subseteq [id : Worker, deadline : 0..MaxNow]
    BY DEF LeftAsleep, TypeOK, ClockTypes
  <2>1. S \subseteq 0..Never
    BY <2>0, BoundAssumption DEF Never
  <2>2. S # {} /\ S \subseteq Nat
    BY <2>1
  <2>3. nextWake' = Min(S) /\ sleepers' = LeftAsleep(c) /\ now' = now
    BY Zenon DEF WakeDueSleepers
  <2> HIDE DEF S
  <2>4. Min(S) \in S
    BY <2>2, MinIsLeast, Zenon
  <2> QED
    BY <2>0, <2>1, <2>3, <2>4, Zenon DEF TypeOK, ClockTypes
<1>5. ArgInv'
  BY DEF WakeDueSleepers, ArgInv, TypeOK, StackTypes
<1> QED
  BY <1>1, <1>2, <1>3, <1>4, <1>5 DEF TypeOK

\* YieldNow keeps the types.
LEMMA YieldNowType ==
  ASSUME TypeOK, ArgInv, NEW c \in Cpu, NEW t \in Worker, YieldNow(c, t)
  PROVE  TypeOK' /\ ArgInv'
<1>1. StackTypes'
  BY Basics, ZenonT(30) DEF YieldNow, TypeOK, StackTypes, Places, tcb, cpus, machine
<1>2. ThreadTypes'
  BY DEF YieldNow, TypeOK, ThreadTypes, tcb, cpus
<1>3. QueueTypes'
  BY DEF YieldNow, TypeOK, QueueTypes, cpus
<1>4. ClockTypes'
  BY DEF YieldNow, TypeOK, ClockTypes, clock
<1>5. ArgInv'
  BY DEF YieldNow, ArgInv, TypeOK, StackTypes
<1> QED
  BY <1>1, <1>2, <1>3, <1>4, <1>5 DEF TypeOK

\* ParkSchedule keeps the types.
LEMMA ParkScheduleType ==
  ASSUME TypeOK, StackInv, ArgInv, NEW c \in Cpu, ParkSchedule(c)
  PROVE  TypeOK' /\ ArgInv'
<1>1. StackTypes'
  <2>1. standing[c] \in Thread
    BY DEF StackInv, StandingInv, TypeOK, StackTypes, ParkSchedule, Open
  <2> QED
    BY <2>1 DEF ParkSchedule, TypeOK, StackTypes, Places, tcb, cpus
<1>2. ThreadTypes'
  BY DEF ParkSchedule, TypeOK, ThreadTypes, tcb, cpus
<1>3. QueueTypes'
  BY DEF ParkSchedule, TypeOK, QueueTypes, cpus
<1>4. ClockTypes'
  BY DEF ParkSchedule, TypeOK, ClockTypes, clock
<1>5. ArgInv'
  BY DEF ParkSchedule, ArgInv, TypeOK, StackTypes
<1> QED
  BY <1>1, <1>2, <1>3, <1>4, <1>5 DEF TypeOK

\* EnterSchedule keeps the types.
LEMMA EnterScheduleType ==
  ASSUME TypeOK, ArgInv, NEW c \in Cpu, EnterSchedule(c)
  PROVE  TypeOK' /\ ArgInv'
<1>1. StackTypes'
  <2>1. \E p \in {"steal", "pick"} : pc' = [pc EXCEPT ![c] = p]
    BY DEF EnterSchedule
  <2> QED
    BY <2>1 DEF EnterSchedule, TypeOK, StackTypes, Places, tcb, cpus, machine
<1>2. ThreadTypes'
  BY DEF EnterSchedule, TypeOK, ThreadTypes, tcb, cpus
<1>3. QueueTypes'
  BY DEF EnterSchedule, TypeOK, QueueTypes, cpus
<1>4. ClockTypes'
  BY DEF EnterSchedule, TypeOK, ClockTypes, clock
<1>5. ArgInv'
  <2>1. \/ /\ \E d \in Cpu \ {c} : arg' = [arg EXCEPT ![c] = d]
           /\ pc' = [pc EXCEPT ![c] = "steal"]
        \/ pc' = [pc EXCEPT ![c] = "pick"] /\ arg' = arg
    BY DEF EnterSchedule
  <2> QED
    BY <2>1 DEF ArgInv, TypeOK, StackTypes
<1> QED
  BY <1>1, <1>2, <1>3, <1>4, <1>5 DEF TypeOK

\* Steal keeps the types.
LEMMA StealType ==
  ASSUME TypeOK, ArgInv, NEW c \in Cpu, Steal(c)
  PROVE  TypeOK' /\ ArgInv'
<1> DEFINE d     == arg[c]
           found == PopFrom(ready[d], HighestFirst, Runnable(onCpu))
           rest  == PopRest(ready[d], HighestFirst, Runnable(onCpu))
<1>d. /\ d \in Cpu /\ d # c
      /\ ready[d] \in [Level -> Seq(Worker)] /\ HighestFirst \in PickOrders
  BY DEF ArgInv, Steal, TypeOK, QueueTypes, PickOrders
<1>r. rest \in [Level -> Seq(Worker)]
  BY <1>d, PopRestType
<1>f. found = NoThread \/ found \in Worker
  BY <1>d, PopFromRunnable, ZenonT(30)
<1>s. \/ UNCHANGED <<owner, ready>>
      \/ ready' = [ready EXCEPT ![d] = rest] /\ UNCHANGED owner
      \/ /\ found \in Worker
         /\ owner' = [owner EXCEPT ![found] = c]
         /\ ready' = [ready EXCEPT ![d] = rest, ![c] = Enqueue(@, priority[found], found)]
  BY <1>f, ZenonT(30) DEF Steal
<1>u. /\ pc' = [pc EXCEPT ![c] = "pick"] /\ arg' = [arg EXCEPT ![c] = NoThread]
      /\ UNCHANGED <<state, priority, joiners, wakePending, onCpu, current, pending,
                     reaped, threads, stacks, clock, wakes, burying, machine>>
  BY ZenonT(30) DEF Steal
<1> HIDE DEF d, found, rest
<1>1. StackTypes'
  BY <1>u DEF TypeOK, StackTypes, Places, machine
<1>2. ThreadTypes'
  <2>1. owner' \in [Thread -> Cpu]
    <3>1. owner \in [Thread -> Cpu]
      BY DEF TypeOK, ThreadTypes
    <3> QED
      BY <1>s, <3>1, Basics
  <2> QED
    BY <1>u, <2>1 DEF TypeOK, ThreadTypes
<1>3. QueueTypes'
  <2>1. CASE UNCHANGED ready
    BY <2>1 DEF TypeOK, QueueTypes
  <2>2. CASE ready' = [ready EXCEPT ![d] = rest]
    BY <1>d, <1>r, <2>2 DEF TypeOK, QueueTypes
  <2>3. CASE /\ found \in Worker
             /\ ready' = [ready EXCEPT ![d] = rest, ![c] = Enqueue(@, priority[found], found)]
    <3>1. Enqueue(ready[c], priority[found], found) \in [Level -> Seq(Worker)]
      BY <2>3, Basics, EnqueueType, Zenon DEF TypeOK, QueueTypes, ThreadTypes
    <3>2. ready' = [ready EXCEPT ![d] = rest, ![c] = Enqueue(ready[c], priority[found], found)]
      BY <1>d, <2>3 DEF TypeOK, QueueTypes
    <3> QED
      BY <1>d, <1>r, <3>1, <3>2, Zenon DEF TypeOK, QueueTypes
  <2> QED
    BY <1>s, <2>1, <2>2, <2>3
<1>4. ClockTypes'
  BY <1>u DEF TypeOK, ClockTypes, clock
<1>5. ArgInv'
  BY <1>u DEF ArgInv, TypeOK, StackTypes
<1> QED
  BY <1>1, <1>2, <1>3, <1>4, <1>5 DEF TypeOK

-----------------------------------------------------------------------------
\* The steps that move a processor from one stack to another.

\* A processor that comes up stands on its own idle thread.
LEMMA AdoptKeeps ==
  ASSUME TypeOK, ArgInv, StackInv, NEW c \in Cpu, AdoptSecondaryCpu(c)
  PROVE  TypeOK' /\ ArgInv' /\ StackInv'
<1> USE Basics
<1>0. /\ current[c] = NoThread /\ pc[c] = "out" /\ pending[c] = NoThread
      /\ standing[c] = NoThread
  BY DEF AdoptSecondaryCpu, StackInv, StandingInv
<1>1. TypeOK' /\ ArgInv'
  <2>1. StackTypes'
    BY DEF AdoptSecondaryCpu, TypeOK, StackTypes, States, local
  <2>2. ThreadTypes'
    <3>1. owner' = [owner EXCEPT ![Idle[c]] = c] /\ threads' = threads \cup {Idle[c]}
      BY DEF AdoptSecondaryCpu
    <3>2. UNCHANGED <<priority, wakePending, joiners, reaped, burying, wakes, stacks>>
      BY DEF AdoptSecondaryCpu, local
    <3> QED
      BY <3>1, <3>2 DEF TypeOK, ThreadTypes
  <2>3. QueueTypes'
    BY DEF AdoptSecondaryCpu, TypeOK, QueueTypes
  <2>4. ClockTypes'
    BY DEF AdoptSecondaryCpu, TypeOK, ClockTypes, clock
  <2>5. ArgInv'
    BY DEF AdoptSecondaryCpu, ArgInv, local
  <2> QED
    BY <2>1, <2>2, <2>3, <2>4, <2>5 DEF TypeOK
<1>2. /\ current' = [current EXCEPT ![c] = Idle[c]]
      /\ standing' = [standing EXCEPT ![c] = Idle[c]]
      /\ state' = [state EXCEPT ![Idle[c]] = "Running"]
      /\ onCpu' = [onCpu EXCEPT ![Idle[c]] = TRUE]
      /\ UNCHANGED <<pending, pc, saved, at>>
  BY DEF AdoptSecondaryCpu, local
<1>3. \A d \in Cpu : d # c => ~Holds(d, Idle[c])
  BY DEF StackInv, IdleInv
<1>4. StandingInv'
  BY <1>0, <1>2 DEF StackInv, StandingInv, TypeOK, StackTypes
<1>5. HeldInv'
  <2>1. \A d \in Cpu, t \in Thread : Holds(d, t)' => Holds(d, t) \/ (d = c /\ t = Idle[c])
    <3>1. \A d \in Cpu : /\ current'[d] = IF d = c THEN Idle[c] ELSE current[d]
                        /\ pending'[d] = pending[d]
      BY <1>2 DEF TypeOK, StackTypes
    <3> QED
      BY <1>0, <3>1, Zenon DEF Holds
  <2>2. \A d \in Cpu : pending'[d] # NoThread => pending'[d] # current'[d]
    BY <1>0, <1>2 DEF StackInv, HeldInv, TypeOK, StackTypes
  <2>3. \A d \in Cpu, t \in Thread : Holds(d, t)' => onCpu'[t] /\ state'[t] # "Unborn"
    <3>1. /\ onCpu'[Idle[c]] /\ state'[Idle[c]] = "Running"
          /\ \A t \in Thread : t # Idle[c] => onCpu'[t] = onCpu[t] /\ state'[t] = state[t]
      BY <1>2 DEF TypeOK, StackTypes
    <3>2. \A d \in Cpu, t \in Thread : Holds(d, t) => onCpu[t] /\ state[t] # "Unborn"
      BY Zenon DEF StackInv, HeldInv
    <3>3. ASSUME NEW d \in Cpu, NEW t \in Thread, Holds(d, t)'
          PROVE  onCpu'[t] /\ state'[t] # "Unborn"
      <4>1. CASE t = Idle[c]
        BY <3>1, <4>1
      <4>2. CASE t # Idle[c]
        BY <2>1, <3>1, <3>2, <3>3, <4>2
      <4> QED
        BY <4>1, <4>2
    <3> QED
      BY <3>3, Zenon
  <2>4. \A d, e \in Cpu, t \in Thread : Holds(d, t)' /\ Holds(e, t)' => d = e
    BY <1>3, <2>1 DEF StackInv, HeldInv
  <2> QED
    BY <2>2, <2>3, <2>4 DEF HeldInv
<1>6. IdleInv'
  BY <1>0, <1>2, <1>3 DEF StackInv, IdleInv, Holds, TypeOK, StackTypes
<1>7. SavedInv'
  BY <1>0, <1>2, <1>3 DEF StackInv, SavedInv, TypeOK, StackTypes
<1>8. RunningInv'
  BY <1>0, <1>2, <1>3 DEF StackInv, RunningInv, Holds, TypeOK, StackTypes
<1> QED
  BY <1>1, <1>4, <1>5, <1>6, <1>7, <1>8 DEF StackInv

\* bury touches no stack a processor is on.
LEMMA BuryKeeps ==
  ASSUME TypeOK, ArgInv, StackInv, NEW c \in Cpu, Bury(c)
  PROVE  TypeOK' /\ ArgInv' /\ StackInv'
<1> USE Basics
<1>1. TypeOK' /\ ArgInv'
  <2>1. StackTypes'
    BY DEF Bury, TypeOK, StackTypes, Places, tcb, cpus, machine
  <2>2. ThreadTypes'
    BY DEF Bury, TypeOK, ThreadTypes, tcb, cpus
  <2>3. QueueTypes'
    BY DEF Bury, TypeOK, QueueTypes, cpus
  <2>4. ClockTypes'
    BY DEF Bury, TypeOK, ClockTypes, clock
  <2>5. ArgInv'
    BY DEF Bury, ArgInv, TypeOK, StackTypes
  <2> QED
    BY <2>1, <2>2, <2>3, <2>4, <2>5 DEF TypeOK
<1>2. /\ UNCHANGED <<current, pending, standing, onCpu, state, saved, at>>
      /\ pc[c] = "bury"
      /\ pc' = [pc EXCEPT ![c] = IF pending[c] = NoThread THEN "out" ELSE "switch"]
  BY DEF Bury, tcb, cpus, machine
<1>3. StandingInv'
  BY <1>2 DEF StackInv, StandingInv, TypeOK, StackTypes
<1>a. \A d \in Cpu, t \in Thread : Holds(d, t)' <=> Holds(d, t)
  BY <1>2, Zenon DEF Holds
<1>b. HeldInv'
  BY <1>2, <1>a, Zenon DEF StackInv, HeldInv
<1>c. IdleInv'
  BY <1>2, <1>a, Zenon DEF StackInv, IdleInv
<1>d. SavedInv'
  BY <1>2, Zenon DEF StackInv, SavedInv
<1>5. RunningInv'
  BY <1>2 DEF StackInv, RunningInv, TypeOK, StackTypes
<1> QED
  BY <1>1, <1>3, <1>b, <1>c, <1>d, <1>5 DEF StackInv

\* context_switch saves the thread it leaves and stands on the one it enters.
LEMMA ContextSwitchKeeps ==
  ASSUME TypeOK, ArgInv, StackInv, NEW c \in Cpu, ContextSwitch(c)
  PROVE  TypeOK' /\ ArgInv' /\ StackInv'
<1> USE Basics
<1>0. /\ pc[c] = "switch" /\ pending[c] # NoThread /\ standing[c] = pending[c]
      /\ current[c] # NoThread /\ pending[c] # current[c]
      /\ current[c] \in Thread /\ pending[c] \in Thread
  BY DEF ContextSwitch, StackInv, StandingInv, HeldInv, TypeOK, StackTypes
<1>1. TypeOK' /\ ArgInv'
  <2>1. StackTypes'
    BY <1>0, Zenon DEF ContextSwitch, TypeOK, StackTypes, Places, tcb, cpus
  <2>2. ThreadTypes'
    BY DEF ContextSwitch, TypeOK, ThreadTypes, tcb, cpus
  <2>3. QueueTypes'
    BY DEF ContextSwitch, TypeOK, QueueTypes, cpus
  <2>4. ClockTypes'
    BY DEF ContextSwitch, TypeOK, ClockTypes, clock
  <2>5. ArgInv'
    BY DEF ContextSwitch, ArgInv, TypeOK, StackTypes
  <2> QED
    BY <2>1, <2>2, <2>3, <2>4, <2>5 DEF TypeOK
<1>2. /\ UNCHANGED <<current, pending, onCpu, state, at>>
      /\ pc' = [pc EXCEPT ![c] = "arrive"]
      /\ standing' = [standing EXCEPT ![c] = current[c]]
      /\ saved' = [saved EXCEPT ![standing[c]] = TRUE, ![current[c]] = FALSE]
  BY DEF ContextSwitch, tcb, cpus
<1>3. StandingInv'
  BY <1>0, <1>2 DEF StackInv, StandingInv, TypeOK, StackTypes
<1>a. \A d \in Cpu, t \in Thread : Holds(d, t)' <=> Holds(d, t)
  BY <1>2, Zenon DEF Holds
<1>4. HeldInv' /\ IdleInv'
  <2>1. HeldInv'
    BY <1>2, <1>a, Zenon DEF StackInv, HeldInv
  <2>2. IdleInv'
    BY <1>2, <1>a, Zenon DEF StackInv, IdleInv
  <2> QED
    BY <2>1, <2>2
<1>5. SavedInv'
  <2> SUFFICES ASSUME NEW t \in Thread, state'[t] # "Unborn", \A d \in Cpu : standing'[d] # t
               PROVE  saved'[t]
    BY DEF SavedInv
  <2>1. t # current[c] /\ \A d \in Cpu : d # c => standing[d] # t
    BY <1>2 DEF TypeOK, StackTypes
  <2>2. CASE t = standing[c]
    BY <1>0, <1>2, <2>1, <2>2 DEF TypeOK, StackTypes
  <2>3. CASE t # standing[c]
    BY <1>2, <2>1, <2>3 DEF StackInv, SavedInv, TypeOK, StackTypes
  <2> QED
    BY <2>2, <2>3
<1>6. RunningInv'
  BY <1>0, <1>2 DEF StackInv, RunningInv, TypeOK, StackTypes
<1> QED
  BY <1>1, <1>3, <1>4, <1>5, <1>6 DEF StackInv

\* flush_pending keeps the queues queues of workers.
LEMMA FlushedReadyType ==
  ASSUME TypeOK, StackInv, NEW c \in Cpu
  PROVE  FlushedReady(c) \in [Level -> Seq(Worker)]
<1> USE Basics
<1>1. CASE pending[c] = NoThread
  BY <1>1 DEF FlushedReady, TypeOK, QueueTypes
<1>2. CASE pending[c] # NoThread
  <2>1. pending[c] \in Thread /\ Holds(c, pending[c])
    BY <1>2 DEF TypeOK, StackTypes, Holds
  <2>2. pending[c] # Idle[c] => pending[c] \in Worker
    BY <2>1 DEF Thread, StackInv, IdleInv
  <2> QED
    BY <2>1, <2>2, EnqueueType, Zenon DEF FlushedReady, TypeOK, QueueTypes, ThreadTypes
<1> QED
  BY <1>1, <1>2

\* The incoming thread's flush_pending lets the outgoing one go.
LEMMA ArriveKeeps ==
  ASSUME TypeOK, ArgInv, StackInv, NEW c \in Cpu, Arrive(c)
  PROVE  TypeOK' /\ ArgInv' /\ StackInv'
<1> USE Basics
<1>0. /\ pc[c] = "arrive" /\ pending[c] # NoThread /\ standing[c] = current[c]
      /\ current[c] # NoThread /\ pending[c] # current[c]
      /\ current[c] \in Thread /\ pending[c] \in Thread
  BY DEF Arrive, StackInv, StandingInv, HeldInv, TypeOK, StackTypes
<1>2. /\ UNCHANGED <<current, standing, state, saved, at>>
      /\ pc' = [pc EXCEPT ![c] = "out"]
      /\ pending' = [pending EXCEPT ![c] = NoThread]
      /\ onCpu' = [onCpu EXCEPT ![pending[c]] = FALSE]
  BY <1>0 DEF Arrive, FlushedOnCpu, machine
<1>1. TypeOK' /\ ArgInv'
  <2>1. StackTypes'
    BY <1>0, <1>2 DEF TypeOK, StackTypes, Places
  <2>2. ThreadTypes'
    BY <1>0 DEF Arrive, FlushedReaped, TypeOK, ThreadTypes
  <2>3. QueueTypes'
    BY FlushedReadyType DEF Arrive, TypeOK, QueueTypes
  <2>4. ClockTypes'
    BY DEF Arrive, TypeOK, ClockTypes, clock
  <2>5. ArgInv'
    BY DEF Arrive, ArgInv, TypeOK, StackTypes
  <2> QED
    BY <2>1, <2>2, <2>3, <2>4, <2>5 DEF TypeOK
<1>3. StandingInv'
  BY <1>0, <1>2 DEF StackInv, StandingInv, TypeOK, StackTypes
<1>4. HeldInv'
  <2>1. \A d \in Cpu, t \in Thread :
          Holds(d, t)' => Holds(d, t) /\ t # pending[c]
    <3>1. \A d \in Cpu : /\ current'[d] = current[d]
                        /\ pending'[d] = IF d = c THEN NoThread ELSE pending[d]
      BY <1>2 DEF TypeOK, StackTypes
    <3>2. \A d \in Cpu, t \in Thread : Holds(d, t)' => Holds(d, t) /\ (d = c => t = current[c])
      BY <3>1, Zenon DEF Holds
    <3>3. Holds(c, pending[c])
      BY <1>0, Zenon DEF Holds
    <3> QED
      <4>1. /\ \A d \in Cpu : Holds(d, pending[c]) => d = c
            /\ pending[c] # current[c]
        BY <1>0, <3>3, Zenon DEF StackInv, HeldInv
      <4> QED
        BY <3>2, <4>1, Zenon
  <2>2. \A d \in Cpu : pending'[d] # NoThread => pending'[d] # current'[d]
    BY <1>0, <1>2 DEF StackInv, HeldInv, TypeOK, StackTypes
  <2> QED
    BY <1>2, <2>1, <2>2 DEF StackInv, HeldInv, TypeOK, StackTypes
<1>5. IdleInv'
  BY <1>0, <1>2 DEF StackInv, IdleInv, Holds, TypeOK, StackTypes
<1>6. SavedInv'
  BY <1>2 DEF StackInv, SavedInv
<1>7. RunningInv'
  BY <1>0, <1>2 DEF StackInv, RunningInv, TypeOK, StackTypes
<1> QED
  BY <1>1, <1>3, <1>4, <1>5, <1>6, <1>7 DEF StackInv
=============================================================================
