---------------------------- MODULE SchedProofs ----------------------------
(***************************************************************************)
(* The scheduler never puts two processors on one stack, never resumes a   *)
(* thread from a stack pointer that was not written, and implements the    *)
(* parking protocol of module Parking, for any number of processors and    *)
(* threads.  Then the invariant about every thread's place, QueueInv, and  *)
(* what follows from it; module SchedQueues shows that the steps keep it.  *)
(***************************************************************************)
EXTENDS SchedSteps

\* The time each leaf is given.
USE SMTT(30), ZenonT(30)

\* The two outcomes of prepare_switch on c, by then outside the switch.
OnStack(c) == /\ pc[c] = "pick" /\ pending[c] = NoThread /\ standing[c] = current[c]
              /\ current[c] \in Thread /\ Holds(c, current[c])
              /\ UNCHANGED <<standing, saved, at>>

Stays(c) ==
  /\ OnStack(c)
  /\ UNCHANGED <<onCpu, state, current, pending>>
  /\ state[current[c]] = "Running"
  /\ \E p \in {"bury", "out"} : pc' = [pc EXCEPT ![c] = p]

SwitchesTo(c, next) ==
  /\ OnStack(c)
  /\ next \in Thread /\ next # current[c] /\ state[next] \notin {"Unborn", "Blocked", "Finished"}
  /\ \A d \in Cpu : ~Holds(d, next) /\ (next = Idle[d] => d = c)
  /\ onCpu' = [onCpu EXCEPT ![next] = TRUE]
  /\ pending' = [pending EXCEPT ![c] = current[c]]
  /\ current' = [current EXCEPT ![c] = next]
  /\ state' \in [Thread -> States]
  /\ state'[next] = "Running"
  /\ state'[current[c]] = IF state[current[c]] = "Running" THEN "Ready" ELSE state[current[c]]
  /\ \A t \in Thread : t # current[c] /\ t # next => state'[t] = state[t]
  /\ \E p \in {"bury", "switch"} : pc' = [pc EXCEPT ![c] = p]

\* prepare_switch stays where it is, or picks a thread no processor is on.
LEMMA PickStaysOrSwitches ==
  ASSUME TypeOK, StackInv, NEW c \in Cpu, NEW order \in PickOrders, Pick(c, order)
  PROVE  Stays(c) \/ \E next \in Thread : SwitchesTo(c, next)
<1> DEFINE found == PopFrom(ready[c], order, Runnable(onCpu))
           next  == IF found = NoThread THEN Idle[c] ELSE found
           stay  == \/ found = NoThread /\ current[c] # Idle[c] /\ state[current[c]] = "Running"
                    \/ next = current[c]
<1>0. pc[c] = "pick" /\ UNCHANGED <<standing, saved, at>>
  BY Zenon DEF Pick, machine
<1>1. OnStack(c)
  BY <1>0, Basics DEF OnStack, StackInv, StandingInv, Holds, TypeOK, StackTypes
<1>2. FlushedOnCpu(c) = onCpu /\ FlushedReady(c) = ready[c] /\ FlushedReaped(c) = reaped[c]
  BY <1>1, Zenon DEF OnStack, FlushedOnCpu, FlushedReady, FlushedReaped
<1>3. found # NoThread => found \in Worker /\ state[found] = "Ready" /\ ~onCpu[found]
  <2>1. ready[c] \in [Level -> Seq(Worker)]
    BY Zenon DEF TypeOK, QueueTypes
  <2>2. found # NoThread => found \in Worker \cap Runnable(onCpu)
    BY <2>1, PopFromRunnable, Zenon
  <2> QED
    BY <2>2, Zenon DEF Runnable
<1>4. pc' = [pc EXCEPT ![c] = IF reaped[c] # {} THEN "bury" ELSE IF stay THEN "out" ELSE "switch"]
  BY <1>2, Zenon DEF Pick
<1>5. CASE stay
  <2>1. UNCHANGED <<onCpu, state, current>> /\ pending' = [pending EXCEPT ![c] = NoThread]
    BY <1>2, <1>5, Zenon DEF Pick
  <2>2. \E p \in {"bury", "out"} : pc' = [pc EXCEPT ![c] = p]
    BY <1>4, <1>5, Zenon
  <2>3. state[current[c]] = "Running" \/ current[c] = Idle[c] \/ found = current[c]
    BY <1>5, Zenon
  <2>4. found # current[c]
    BY <1>1, <1>3, Basics, Zenon DEF OnStack, StackInv, HeldInv
  <2> HIDE DEF stay, next, found
  <2>5. state[current[c]] = "Running"
    BY <2>3, <2>4 DEF StackInv, IdleInv
  <2>6. pending' = pending
    BY <1>1, <2>1 DEF OnStack, TypeOK, StackTypes
  <2> QED
    BY <1>1, <2>1, <2>2, <2>5, <2>6, Zenon DEF Stays
<1>6. CASE ~stay
  <2>1. /\ onCpu' = [onCpu EXCEPT ![next] = TRUE]
        /\ pending' = [pending EXCEPT ![c] = current[c]]
        /\ current' = [current EXCEPT ![c] = next]
        /\ state' = [state EXCEPT ![current[c]] = IF @ = "Running" THEN "Ready" ELSE @,
                                  ![next] = "Running"]
    BY <1>2, <1>6, Zenon DEF Pick, SwitchedOnCpu
  <2>2. \E p \in {"bury", "switch"} : pc' = [pc EXCEPT ![c] = p]
    BY <1>4, <1>6, Zenon
  <2>3. next # current[c]
    BY <1>6, Zenon
  <2>4. \/ next = Idle[c]
        \/ next \in Worker /\ state[next] = "Ready" /\ ~onCpu[next]
    BY <1>3, Zenon
  <2> HIDE DEF stay, next, found
  <2>5. CASE next = Idle[c]
    <3>1. /\ next \in Thread /\ state[next] \notin {"Unborn", "Blocked", "Finished"}
          /\ \A d \in Cpu : next = Idle[d] => d = c
      BY <1>1, <2>5, Basics DEF OnStack, Holds, StackInv, IdleInv
    <3>2. \A d \in Cpu : ~Holds(d, next)
      BY <1>1, <2>3, <2>5, Basics DEF OnStack, Holds, StackInv, IdleInv
    <3> QED
      BY <1>1, <2>1, <2>2, <2>3, <3>1, <3>2, ZenonT(30)
         DEF SwitchesTo, OnStack, TypeOK, StackTypes, States
  <2>6. CASE next \in Worker /\ state[next] = "Ready" /\ ~onCpu[next]
    <3>1. next \in Thread /\ \A d \in Cpu : ~Holds(d, next) /\ next # Idle[d]
      BY <2>6, Basics DEF StackInv, HeldInv
    <3> QED
      BY <1>1, <2>1, <2>2, <2>3, <2>6, <3>1, ZenonT(30)
         DEF SwitchesTo, OnStack, TypeOK, StackTypes, States
  <2> QED
    BY <2>4, <2>5, <2>6
<1> QED
  BY <1>5, <1>6

\* A processor that stays on its thread disturbs nothing.
LEMMA StaysKeepsStackInv ==
  ASSUME StackTypes, StackInv, NEW c \in Cpu, Stays(c)
  PROVE  StackInv'
<1> USE DEF Stays, OnStack
<1>1. PICK p \in {"bury", "out"} : pc' = [pc EXCEPT ![c] = p]
  BY ZenonT(30)
<1>2. pc'[c] = p /\ \A d \in Cpu : d # c => pc'[d] = pc[d]
  BY <1>1 DEF StackTypes
<1>3. StandingInv'
  BY <1>2, Basics DEF StackInv, StandingInv, Holds
<1>4. HeldInv' /\ SavedInv'
  BY DEF StackInv, HeldInv, SavedInv, Holds
<1>5. IdleInv'
  BY DEF StackInv, IdleInv, Holds
<1>6. RunningInv'
  BY <1>2 DEF StackInv, RunningInv
<1> QED
  BY <1>3, <1>4, <1>5, <1>6 DEF StackInv

\* A processor that switches holds two threads until the incoming one has let the
\* outgoing one go, and nobody else holds either.
LEMMA SwitchKeepsStackInv ==
  ASSUME StackTypes, StackInv, NEW c \in Cpu, NEW next \in Thread, SwitchesTo(c, next)
  PROVE  StackInv'
<1> DEFINE cur == current[c]
<1>0. /\ pending[c] = NoThread /\ cur \in Thread /\ Holds(c, cur)
      /\ next # cur /\ state[next] # "Unborn"
      /\ \A d \in Cpu : ~Holds(d, next) /\ (next = Idle[d] => d = c)
      /\ standing[c] = cur /\ UNCHANGED <<standing, saved, at>>
  BY Zenon DEF SwitchesTo, OnStack
<1>1. PICK p \in {"bury", "switch"} : pc' = [pc EXCEPT ![c] = p]
  BY Zenon DEF SwitchesTo
<1>2. /\ pc'[c] = p /\ pending'[c] = cur /\ current'[c] = next
      /\ \A d \in Cpu : d # c => /\ pc'[d] = pc[d] /\ pending'[d] = pending[d]
                                 /\ current'[d] = current[d]
  <2>1. /\ pending' = [pending EXCEPT ![c] = cur]
        /\ current' = [current EXCEPT ![c] = next]
    BY Zenon DEF SwitchesTo
  <2> QED
    BY <1>1, <2>1 DEF StackTypes
<1>a. /\ onCpu'[next] /\ state'[next] = "Running"
      /\ \A t \in Thread : onCpu[t] => onCpu'[t]
  <2>1. onCpu' = [onCpu EXCEPT ![next] = TRUE] /\ state'[next] = "Running"
    BY Zenon DEF SwitchesTo
  <2> QED
    BY <2>1 DEF StackTypes
<1>b. /\ state'[cur] = IF state[cur] = "Running" THEN "Ready" ELSE state[cur]
      /\ \A t \in Thread : t # cur /\ t # next => state'[t] = state[t]
  BY Zenon DEF SwitchesTo
<1>3. /\ next # NoThread /\ cur # NoThread
      /\ \A d \in Cpu, t \in Thread : Holds(d, t)' => Holds(d, t) \/ (d = c /\ t = next)
  BY <1>0, <1>2, Basics DEF Holds
<1>4. StandingInv'
  <2> SUFFICES ASSUME NEW d \in Cpu
               PROVE  /\ current'[d] = NoThread => pc'[d] = "out"
                      /\ pending'[d] # NoThread => pc'[d] \in {"bury", "switch", "arrive"}
                      /\ pc'[d] \in {"switch", "arrive"} => pending'[d] # NoThread
                      /\ standing'[d] = IF pending'[d] = NoThread \/ pc'[d] = "arrive"
                                        THEN current'[d] ELSE pending'[d]
    BY Zenon DEF StandingInv
  <2>1. CASE d = c
    BY <1>0, <1>1, <1>2, <1>3, <2>1
  <2>2. CASE d # c
    BY <1>0, <1>2, <2>2 DEF StackInv, StandingInv
  <2> QED
    BY <2>1, <2>2, Zenon
<1>5. \A t \in Thread : (state'[t] = "Unborn") <=> (state[t] = "Unborn")
  BY <1>0, <1>a, <1>b DEF StackInv, HeldInv
<1>6. HeldInv'
  <2>1. \A d \in Cpu : pending'[d] # NoThread => pending'[d] # current'[d]
    BY <1>0, <1>2 DEF StackInv, HeldInv
  <2>2. \A d \in Cpu, t \in Thread : Holds(d, t)' => onCpu'[t] /\ state'[t] # "Unborn"
    BY <1>0, <1>a, <1>3, <1>5 DEF StackInv, HeldInv
  <2>3. \A d, e \in Cpu, t \in Thread : Holds(d, t)' /\ Holds(e, t)' => d = e
    BY <1>0, <1>3 DEF StackInv, HeldInv
  <2> QED
    BY <2>1, <2>2, <2>3, Zenon DEF HeldInv
<1>7. IdleInv'
  <2> SUFFICES ASSUME NEW d \in Cpu
               PROVE  /\ \A e \in Cpu : Holds(e, Idle[d])' => e = d
                      /\ state'[Idle[d]] \notin {"Blocked", "Finished"}
                      /\ current'[d] # NoThread => state'[Idle[d]] # "Unborn"
                      /\ current'[d] = Idle[d] => state'[Idle[d]] = "Running"
    BY DEF IdleInv
  <2>0. Idle[d] \in Thread
    BY Basics
  <2>1. \A e \in Cpu : Holds(e, Idle[d])' => e = d
    BY <1>0, <1>3, <2>0 DEF StackInv, IdleInv
  <2>2. state'[Idle[d]] \notin {"Blocked", "Finished"}
    BY <1>a, <1>b, <2>0 DEF StackInv, IdleInv
  <2>3. current'[d] # NoThread => current[d] # NoThread
    BY <1>2, <1>3
  <2>4. current'[d] # NoThread => state'[Idle[d]] # "Unborn"
    BY <1>5, <2>0, <2>3 DEF StackInv, IdleInv
  <2>5. current'[d] = Idle[d] => state'[Idle[d]] = "Running"
    <3>1. CASE d = c
      BY <1>2, <1>a, <3>1
    <3>2. CASE d # c
      <4>1. current[d] = Idle[d] => Idle[d] # cur /\ Idle[d] # next
        BY <1>0, <3>2, Basics DEF StackInv, IdleInv, Holds
      <4> QED
        BY <1>2, <1>b, <2>0, <3>2, <4>1 DEF StackInv, IdleInv
    <3> QED
      BY <3>1, <3>2
  <2> QED
    BY <2>1, <2>2, <2>4, <2>5
<1>8. SavedInv'
  BY <1>0, <1>5, Zenon DEF StackInv, SavedInv
<1>9. RunningInv'
  <2> SUFFICES ASSUME NEW d \in Cpu, current'[d] # NoThread, at'[current'[d]] = "free",
                      pc'[d] \in {"out", "spawn", "bury", "switch", "arrive"}
               PROVE  state'[current'[d]] = "Running"
    BY DEF RunningInv
  <2>1. CASE d = c
    BY <1>2, <1>a, <2>1
  <2>2. CASE d # c
    <3>1. current[d] \in Thread /\ current[d] # NoThread /\ Holds(d, current[d])
      BY <1>2, <2>2 DEF StackTypes, Holds
    <3>2. current[d] # cur /\ current[d] # next
      BY <1>0, <2>2, <3>1, Zenon DEF StackInv, HeldInv
    <3> QED
      BY <1>0, <1>2, <1>b, <2>2, <3>1, <3>2 DEF StackInv, RunningInv
  <2> QED
    BY <2>1, <2>2, Zenon
<1> QED
  BY <1>4, <1>6, <1>7, <1>8, <1>9 DEF StackInv

\* The critical section of schedule().
LEMMA PickKeeps ==
  ASSUME TypeOK, ArgInv, StackInv, NEW c \in Cpu, NEW order \in PickOrders, Pick(c, order)
  PROVE  TypeOK' /\ ArgInv' /\ StackInv'
<1>1. Stays(c) \/ \E next \in Thread : SwitchesTo(c, next)
  BY PickStaysOrSwitches
<1>2. /\ ready' = [ready EXCEPT ![c] = PopRest(FlushedReady(c), order, Runnable(FlushedOnCpu(c)))]
      /\ burying' = [burying EXCEPT ![c] = FlushedReaped(c)]
      /\ reaped' = [reaped EXCEPT ![c] = {}]
      /\ UNCHANGED <<priority, joiners, wakePending, owner, threads, stacks, clock, arg, wakes>>
  BY Zenon DEF Pick
<1>3. StackTypes'
  <2>1. CASE Stays(c)
    BY <2>1 DEF Stays, OnStack, TypeOK, StackTypes, Places
  <2>2. ASSUME NEW next \in Thread, SwitchesTo(c, next)
        PROVE  StackTypes'
    BY <2>2 DEF SwitchesTo, OnStack, TypeOK, StackTypes, Places
  <2> QED
    BY <1>1, <2>1, <2>2
<1>4. ThreadTypes'
  <2>1. FlushedReaped(c) \in SUBSET Thread
    BY DEF FlushedReaped, TypeOK, ThreadTypes, StackTypes
  <2> QED
    BY <1>2, <2>1 DEF TypeOK, ThreadTypes
<1>5. QueueTypes'
  <2>1. PopRest(FlushedReady(c), order, Runnable(FlushedOnCpu(c))) \in [Level -> Seq(Worker)]
    BY FlushedReadyType, PopRestType
  <2> QED
    BY <1>2, <2>1 DEF TypeOK, QueueTypes
<1>6. ClockTypes'
  BY <1>2 DEF TypeOK, ClockTypes, clock
<1>7. ArgInv'
  <2>1. \E p \in {"bury", "out", "switch"} : pc' = [pc EXCEPT ![c] = p]
    BY <1>1, Zenon DEF Stays, SwitchesTo
  <2> QED
    BY <1>2, <2>1 DEF ArgInv, TypeOK, StackTypes
<1>8. StackInv'
  BY <1>1, StaysKeepsStackInv, SwitchKeepsStackInv DEF TypeOK
<1> QED
  BY <1>3, <1>4, <1>5, <1>6, <1>7, <1>8 DEF TypeOK

-----------------------------------------------------------------------------
\* The inductive invariant.

Inv == TypeOK /\ SchedInv

\* The scheduler starts in the invariant: the boot thread running, all else unborn.
LEMMA InitInv == Init => Inv
<1> SUFFICES ASSUME Init PROVE Inv
  OBVIOUS
<1> USE Basics
<1>1. StackTypes
  <2>1. state \in [Thread -> States] /\ onCpu \in [Thread -> BOOLEAN]
    BY DEF Init, States
  <2>2. /\ current \in [Cpu -> Thread \cup {NoThread}]
        /\ standing \in [Cpu -> Thread \cup {NoThread}]
    BY DEF Init
  <2>3. pending \in [Cpu -> Thread \cup {NoThread}] /\ pc \in [Cpu -> Places]
    BY DEF Init, Places
  <2>4. saved \in [Thread -> BOOLEAN] /\ at \in [Thread -> {"free", "parking", "exited"}]
    BY DEF Init
  <2> QED
    BY <2>1, <2>2, <2>3, <2>4 DEF StackTypes
<1>a. ThreadTypes
  <2>1. priority \in [Thread -> Level] /\ wakePending \in [Thread -> BOOLEAN]
    BY DEF Init, Level
  <2>2. owner \in [Thread -> Cpu] /\ joiners \in [Thread -> SUBSET Worker]
    BY DEF Init
  <2>3. /\ reaped \in [Cpu -> SUBSET Thread] /\ burying \in [Cpu -> SUBSET Thread]
        /\ wakes \in [Cpu -> SUBSET Worker]
    BY DEF Init
  <2>4. threads \subseteq Thread /\ stacks \subseteq Thread
    BY DEF Init
  <2> QED
    BY <2>1, <2>2, <2>3, <2>4 DEF ThreadTypes
<1>0. QueueTypes
  BY DEF Init, QueueTypes, EmptyQueues
<1>b. ClockTypes
  BY BoundAssumption DEF Init, ClockTypes, Never
<1>2. ArgInv
  BY DEF Init, ArgInv
<1>3. StandingInv /\ HeldInv /\ SavedInv /\ RunningInv
  BY ZenonT(30) DEF Init, StandingInv, HeldInv, SavedInv, RunningInv, Holds
<1>4. IdleInv
  BY DEF Init, IdleInv, Holds
<1> QED
  BY <1>0, <1>1, <1>a, <1>b, <1>2, <1>3, <1>4 DEF Inv, TypeOK, SchedInv, StackInv

\* Every step keeps it: the calm ones by CalmStepKeepsStackInv.
LEMMA NextInv ==
  ASSUME Inv, [Next]_vars
  PROVE  Inv'
<1> USE Basics DEF Inv, SchedInv
<1>1. CASE UNCHANGED vars
  <2>1. UNCHANGED <<tcb, cpus, threads, stacks, clock, local, machine>>
    BY <1>1 DEF vars
  <2>2. StackTypes' /\ ThreadTypes'
    BY <2>1, ZenonT(30) DEF TypeOK, StackTypes, ThreadTypes, tcb, cpus, local, machine
  <2>3. QueueTypes' /\ ClockTypes' /\ ArgInv'
    BY <2>1 DEF TypeOK, QueueTypes, ClockTypes, ArgInv, cpus, clock, local
  <2>4. StandingInv' /\ SavedInv' /\ RunningInv'
    BY <2>1, ZenonT(30) DEF StackInv, StandingInv, SavedInv, RunningInv, tcb, cpus, local, machine
  <2>5. HeldInv' /\ IdleInv'
    <3>1. UNCHANGED <<current, pending, onCpu, state>>
      BY <2>1 DEF tcb, cpus
    <3>2. \A d \in Cpu, t \in Thread : Holds(d, t)' <=> Holds(d, t)
      BY <3>1, Zenon DEF Holds
    <3>3. HeldInv'
      BY <3>1, <3>2, Zenon DEF StackInv, HeldInv
    <3>4. IdleInv'
      BY <3>1, <3>2, Zenon DEF StackInv, IdleInv
    <3> QED
      BY <3>3, <3>4
  <2> QED
    BY <2>2, <2>3, <2>4, <2>5 DEF TypeOK, StackInv
<1>2. ASSUME NEW c \in Cpu, Request(c)
      PROVE  Inv'
  <2>1. CASE AdoptSecondaryCpu(c)
    BY <2>1, AdoptKeeps
  <2>2. ASSUME NEW u \in Worker, NEW p \in Priorities, Spawn(c, u, p)
        PROVE  Inv'
    BY <2>2, SpawnType, SpawnIsCalm, CalmStepKeepsStackInv
  <2>3. ASSUME NEW u \in Worker, NEW p \in Priorities, SetPriority(c, u, p)
        PROVE  Inv'
    BY <2>3, SetPriorityType, SetPriorityIsCalm, CalmStepKeepsStackInv
  <2>4. ASSUME NEW t \in Worker, BlockCurrent(c, t)
        PROVE  Inv'
    BY <2>4, BlockCurrentType, BlockCurrentIsCalm, CalmStepKeepsStackInv
  <2>5. ASSUME NEW t \in Worker, NEW n \in 1..MaxSleep, SleepTicks(c, t, n)
        PROVE  Inv'
    BY <2>5, SleepTicksType, SleepTicksIsCalm, CalmStepKeepsStackInv
  <2>6. ASSUME NEW t \in Worker, NEW u \in Joinable, Join(c, t, u)
        PROVE  Inv'
    BY <2>6, JoinType, JoinIsCalm, CalmStepKeepsStackInv
  <2>7. ASSUME NEW t \in Worker, ExitCurrent(c, t)
        PROVE  Inv'
    BY <2>7, ExitCurrentType, ExitCurrentIsCalm, CalmStepKeepsStackInv
  <2>8. ASSUME NEW t \in Worker, YieldNow(c, t)
        PROVE  Inv'
    BY <2>8, YieldNowType, YieldNowIsCalm, CalmStepKeepsStackInv
  <2>9. ASSUME NEW u \in MayWake, Unblock(c, u)
        PROVE  Inv'
    BY <2>9, UnblockType, UnblockIsCalm, CalmStepKeepsStackInv
  <2> QED
    BY <1>2, <2>1, <2>2, <2>3, <2>4, <2>5, <2>6, <2>7, <2>8, <2>9 DEF Request
<1>3. ASSUME NEW c \in Cpu, TimerTick(c)
      PROVE  Inv'
  BY <1>3, TimerTickType, TimerTickIsCalm, CalmStepKeepsStackInv
<1>4. ASSUME NEW c \in Cpu, Proceed(c)
      PROVE  Inv'
  <2>1. CASE SpawnEnqueue(c)
    BY <2>1, SpawnEnqueueType, SpawnEnqueueIsCalm, CalmStepKeepsStackInv
  <2>2. CASE PublishDeadline(c)
    BY <2>2, PublishDeadlineType, PublishDeadlineIsCalm, CalmStepKeepsStackInv
  <2>3. ASSUME NEW u \in Worker, HandOutWake(c, u)
        PROVE  Inv'
    BY <2>3, HandOutWakeType, HandOutWakeIsCalm, CalmStepKeepsStackInv
  <2>4. CASE WakesDone(c)
    BY <2>4, WakesDoneType, WakesDoneIsCalm, CalmStepKeepsStackInv
  <2>5. CASE WakeDueSleepers(c)
    BY <2>5, WakeDueSleepersType, WakeDueSleepersIsCalm, CalmStepKeepsStackInv
  <2>6. CASE ParkSchedule(c)
    BY <2>6, ParkScheduleType, ParkScheduleIsCalm, CalmStepKeepsStackInv
  <2>7. CASE EnterSchedule(c)
    BY <2>7, EnterScheduleType, EnterScheduleIsCalm, CalmStepKeepsStackInv
  <2>8. CASE Steal(c)
    BY <2>8, StealType, StealIsCalm, CalmStepKeepsStackInv
  <2>9. ASSUME NEW order \in PickOrders, Pick(c, order)
        PROVE  Inv'
    BY <2>9, PickKeeps
  <2>10. CASE Bury(c)
    BY <2>10, BuryKeeps
  <2>11. CASE ContextSwitch(c)
    BY <2>11, ContextSwitchKeeps
  <2>12. CASE Arrive(c)
    BY <2>12, ArriveKeeps
  <2> QED
    BY <1>4, <2>1, <2>2, <2>3, <2>4, <2>5, <2>6, <2>7, <2>8, <2>9, <2>10, <2>11, <2>12
       DEF Proceed
<1> QED
  BY <1>1, <1>2, <1>3, <1>4 DEF Next

\* The scheduler keeps its types and SchedInv.
THEOREM Inductive == Spec => []Inv
BY InitInv, NextInv, PTL DEF Spec

\* Every control block, queue and per-processor field keeps its type, on any number
\* of processors.
THEOREM TypeCorrect == Spec => []TypeOK
<1>1. Inv => TypeOK
  BY DEF Inv
<1> QED
  BY Inductive, <1>1, PTL

\* The stack is never shared: of two processors at most one is on a thread's stack,
\* whatever is woken, stolen or preempted, and when.
THEOREM StacksNotShared == Spec => []OneCpuPerStack
<1>1. Inv => OneCpuPerStack
  <2> SUFFICES ASSUME Inv, NEW c \in Cpu, standing[c] # NoThread
               PROVE  \A d \in Cpu : c # d => standing[c] # standing[d]
    BY Zenon DEF OneCpuPerStack
  <2>1. standing[c] \in Thread
    BY DEF Inv, TypeOK, StackTypes
  <2>2. \A d \in Cpu : standing[d] = standing[c] => Holds(d, standing[c])
    BY DEF Inv, SchedInv, StackInv, StandingInv, Holds
  <2> QED
    BY <2>1, <2>2, Zenon DEF Inv, SchedInv, StackInv, HeldInv
<1> QED
  BY Inductive, <1>1, PTL

\* context_switch only ever loads a stack pointer that was stored when its thread
\* was last switched away from, or when it was spawned.
THEOREM ResumesSaved == Spec => []ResumesSavedOnly
<1>1. Inv => ResumesSavedOnly
  <2> SUFFICES ASSUME Inv, NEW c \in Cpu, pc[c] = "switch"
               PROVE  saved[current[c]]
    BY DEF ResumesSavedOnly
  <2>1. /\ current[c] \in Thread /\ current[c] # NoThread /\ Holds(c, current[c])
        /\ pending[c] # current[c] /\ standing[c] = pending[c]
    <3>1. pending[c] # NoThread /\ current[c] # NoThread /\ standing[c] = pending[c]
      BY DEF Inv, SchedInv, StackInv, StandingInv
    <3> QED
      BY <3>1 DEF Inv, SchedInv, StackInv, HeldInv, Holds, TypeOK, StackTypes
  <2>2. \A d \in Cpu : standing[d] = current[c] => Holds(d, current[c])
    BY <2>1 DEF Inv, SchedInv, StackInv, StandingInv, Holds
  <2>3. \A d \in Cpu : standing[d] # current[c]
    BY <2>1, <2>2 DEF Inv, SchedInv, StackInv, HeldInv
  <2> QED
    BY <2>1, <2>3, ZenonT(30) DEF Inv, SchedInv, StackInv, HeldInv, SavedInv
<1> QED
  BY Inductive, <1>1, PTL

-----------------------------------------------------------------------------
\* The scheduler implements module Parking.

Quiet == UNCHANGED <<ParkedView, wakePending>>

\* The body of unblock is Parking's, or nothing at all for a thread long gone.
LEMMA WakeIsUnblock ==
  ASSUME TypeOK, NEW c \in Cpu, NEW u \in Worker, Wake(c, u)
  PROVE  Quiet \/ Abstract!Unblock(u)
<1>1. u \in Thread
  BY Basics
<1>2. CASE u \notin threads
  BY <1>2 DEF Wake, Quiet, ParkedView
<1>3. CASE u \in threads
  <2>1. /\ state' = IF state[u] = "Blocked" THEN [state EXCEPT ![u] = "Ready"] ELSE state
        /\ wakePending' = IF state[u] \notin {"Blocked", "Finished"}
                          THEN [wakePending EXCEPT ![u] = TRUE] ELSE wakePending
    BY <1>3 DEF Wake
  <2> QED
    BY <1>1, <2>1 DEF ParkedView, Abstract!Unblock, TypeOK, StackTypes, States
<1> QED
  BY <1>2, <1>3

\* A thread that may call into the scheduler is neither parked nor gone.
LEMMA CallerIsUp ==
  ASSUME Inv, NEW c \in Cpu, NEW t \in Worker, Calls(c, t)
  PROVE  t \in Thread /\ state[t] = "Running" /\ ParkedView[t] = "up"
<1>1. t \in Thread
  BY Basics
<1>2. state[t] = "Running"
  BY Basics DEF Inv, SchedInv, StackInv, StandingInv, RunningInv, Calls, Open
<1> QED
  BY <1>1, <1>2 DEF ParkedView

\* Every step of the scheduler is one of Parking's, or none.
LEMMA StepParks ==
  ASSUME Inv, [Next]_vars
  PROVE  [Abstract!ParkingNext]_<<ParkedView, wakePending>>
<1> DEFINE Goal == Quiet \/ Abstract!ParkingNext
<1> SUFFICES Goal
  BY DEF Quiet
<1>0. TypeOK /\ StackInv /\ Worker \subseteq Thread
  BY Basics DEF Inv, SchedInv
<1>q. ASSUME UNCHANGED <<state, wakePending>>
      PROVE  Goal
  BY <1>q DEF Quiet, ParkedView
<1>1. CASE UNCHANGED vars
  BY <1>1, <1>q DEF vars, tcb
<1>2. ASSUME NEW c \in Cpu, Request(c)
      PROVE  Goal
  <2>1. CASE AdoptSecondaryCpu(c)
    <3>1. ParkedView' = ParkedView
      BY <1>0, <2>1, Basics, ZenonT(30)
         DEF AdoptSecondaryCpu, ParkedView, StackInv, IdleInv, TypeOK, StackTypes
    <3> QED
      BY <2>1, <3>1 DEF Quiet, AdoptSecondaryCpu
  <2>2. ASSUME NEW u \in Worker, NEW p \in Priorities, Spawn(c, u, p)
        PROVE  Goal
    BY <1>0, <2>2 DEF Quiet, Spawn, ParkedView, TypeOK, StackTypes
  <2>3. ASSUME NEW u \in Worker, NEW p \in Priorities, SetPriority(c, u, p)
        PROVE  Goal
    BY <1>q, <2>3 DEF SetPriority
  <2>4. ASSUME NEW t \in Worker, BlockCurrent(c, t)
        PROVE  Goal
    <3>1. t \in Thread /\ state[t] = "Running" /\ ParkedView[t] = "up"
      BY <2>4, CallerIsUp DEF BlockCurrent
    <3>2. CASE wakePending[t]
      BY <2>4, <3>1, <3>2 DEF BlockCurrent, ParkedView, Abstract!ParkingNext, Abstract!BlockCurrent
    <3>3. CASE ~wakePending[t]
      <4>1. ParkedView' = [ParkedView EXCEPT ![t] = "parked"] /\ wakePending' = wakePending
        BY <1>0, <2>4, <3>1, <3>3, ZenonT(30) DEF BlockCurrent, ParkedView, TypeOK, StackTypes
      <4> QED
        BY <3>1, <3>3, <4>1, Zenon DEF Abstract!ParkingNext, Abstract!BlockCurrent
    <3> QED
      BY <3>2, <3>3
  <2>5. ASSUME NEW t \in Worker, NEW n \in 1..MaxSleep, SleepTicks(c, t, n)
        PROVE  Goal
    <3>1. t \in Thread /\ state[t] = "Running" /\ ParkedView[t] = "up"
      BY <2>5, CallerIsUp DEF SleepTicks
    <3>2. /\ ParkedView' = [ParkedView EXCEPT ![t] = "parked"]
          /\ wakePending' = [wakePending EXCEPT ![t] = FALSE]
      BY <1>0, <2>5, <3>1, Zenon DEF SleepTicks, ParkedView, TypeOK, StackTypes
    <3> QED
      BY <3>1, <3>2, Zenon DEF Abstract!ParkingNext, Abstract!ParkAfresh
  <2>6. ASSUME NEW t \in Worker, NEW u \in Joinable, Join(c, t, u)
        PROVE  Goal
    <3>1. t \in Thread /\ state[t] = "Running" /\ ParkedView[t] = "up"
      BY <2>6, CallerIsUp, Zenon DEF Join
    <3>2. /\ ParkedView' = [ParkedView EXCEPT ![t] = "parked"]
          /\ wakePending' = [wakePending EXCEPT ![t] = FALSE]
      BY <1>0, <2>6, <3>1, Zenon DEF Join, ParkedView, TypeOK, StackTypes
    <3> QED
      BY <3>1, <3>2, Zenon DEF Abstract!ParkingNext, Abstract!ParkAfresh
  <2>7. ASSUME NEW t \in Worker, ExitCurrent(c, t)
        PROVE  Goal
    <3>1. t \in Thread /\ state[t] = "Running" /\ ParkedView[t] = "up"
      BY <2>7, CallerIsUp DEF ExitCurrent
    <3>2. ParkedView' = [ParkedView EXCEPT ![t] = "gone"] /\ wakePending' = wakePending
      BY <1>0, <2>7, <3>1, Zenon DEF ExitCurrent, ParkedView, TypeOK, StackTypes
    <3> QED
      BY <3>1, <3>2, Zenon DEF Abstract!ParkingNext, Abstract!Exit
  <2>8. ASSUME NEW t \in Worker, YieldNow(c, t)
        PROVE  Goal
    BY <1>q, <2>8 DEF YieldNow, tcb
  <2>9. ASSUME NEW u \in MayWake, Unblock(c, u)
        PROVE  Goal
    <3>1. u \in Worker /\ Wake(c, u)
      BY <2>9, Basics DEF Unblock
    <3> QED
      BY <1>0, <3>1, WakeIsUnblock DEF Abstract!ParkingNext
  <2> QED
    BY <1>2, <2>1, <2>2, <2>3, <2>4, <2>5, <2>6, <2>7, <2>8, <2>9 DEF Request
<1>3. ASSUME NEW c \in Cpu, TimerTick(c)
      PROVE  Goal
  BY <1>q, <1>3 DEF TimerTick, tcb
<1>4. ASSUME NEW c \in Cpu, Proceed(c)
      PROVE  Goal
  <2>1. CASE SpawnEnqueue(c) \/ PublishDeadline(c) \/ WakesDone(c) \/ WakeDueSleepers(c)
    BY <1>q, <2>1, ZenonT(30) DEF SpawnEnqueue, PublishDeadline, WakesDone, WakeDueSleepers, tcb
  <2>2. CASE ParkSchedule(c) \/ EnterSchedule(c) \/ Bury(c) \/ ContextSwitch(c)
    BY <1>q, <2>2, Zenon DEF ParkSchedule, EnterSchedule, Bury, ContextSwitch, tcb
  <2>3. CASE Steal(c)
    BY <1>q, <2>3, Zenon DEF Steal
  <2>4. CASE Arrive(c)
    BY <1>q, <2>4, Zenon DEF Arrive
  <2>5. ASSUME NEW u \in Worker, HandOutWake(c, u)
        PROVE  Goal
    BY <1>0, <2>5, WakeIsUnblock, Zenon DEF HandOutWake, Abstract!ParkingNext
  <2>6. ASSUME NEW order \in PickOrders, Pick(c, order)
        PROVE  Goal
    <3>1. wakePending' = wakePending
      BY <2>6, Zenon DEF Pick
    <3>2. Stays(c) \/ \E next \in Thread : SwitchesTo(c, next)
      BY <1>0, <2>6, PickStaysOrSwitches
    <3>3. CASE Stays(c)
      BY <3>1, <3>3, Zenon DEF Stays, ParkedView, Quiet
    <3>4. ASSUME NEW next \in Thread, SwitchesTo(c, next)
          PROVE  Goal
      <4>1. \A t \in Thread : (state'[t] = "Blocked" <=> state[t] = "Blocked")
                              /\ (state'[t] = "Finished" <=> state[t] = "Finished")
        BY <3>4 DEF SwitchesTo, OnStack
      <4>2. ParkedView' = ParkedView
        BY <4>1, Zenon DEF ParkedView
      <4> QED
        BY <3>1, <4>2 DEF Quiet
    <3> QED
      BY <3>2, <3>3, <3>4
  <2> QED
    BY <1>4, <2>1, <2>2, <2>3, <2>4, <2>5, <2>6 DEF Proceed
<1> QED
  BY <1>1, <1>2, <1>3, <1>4 DEF Next

\* The scheduler implements the parking protocol everything that blocks is built on:
\* whatever the processors are doing, block_current, unblock, sleep_ticks, join and
\* exit_current each take effect as one atomic step of module Parking.
THEOREM ParkingImplemented == Spec => ImplementsParking
<1>1. Init => Abstract!ParkingInit
  BY Basics DEF Init, Abstract!ParkingInit, ParkedView
<1> QED
  BY Inductive, StepParks, <1>1, PTL DEF Spec, ImplementsParking, Abstract!ParkingSpec, Abstract!parking

\* No step of Parking leaves a parked thread with a recorded wake.
LEMMA ParkingKeepsNoRecordedWake ==
  ASSUME TypeOK, ParkedHasNoRecordedWake, [Abstract!ParkingNext]_<<ParkedView, wakePending>>
  PROVE  ParkedHasNoRecordedWake'
<1> DEFINE Clear == \A t \in Thread : ParkedView[t] = "parked" => ~wakePending[t]
<1>1. Clear
  BY DEF ParkedView, ParkedHasNoRecordedWake
<1>2. /\ wakePending \in [Thread -> BOOLEAN]
      /\ ParkedView = [t \in Thread |-> ParkedView[t]]
  BY DEF TypeOK, ThreadTypes, ParkedView
<1>3. Clear'
  <2>1. CASE UNCHANGED <<ParkedView, wakePending>>
    BY <1>1, <2>1
  <2>2. ASSUME NEW u \in Thread, \/ Abstract!BlockCurrent(u) \/ Abstract!ParkAfresh(u)
                                 \/ Abstract!Unblock(u) \/ Abstract!Exit(u)
        PROVE  Clear'
    <3> HIDE DEF ParkedView
    <3> QED
      BY <1>1, <1>2, <2>2
         DEF Abstract!BlockCurrent, Abstract!ParkAfresh, Abstract!Unblock, Abstract!Exit
  <2> QED
    BY <2>1, <2>2 DEF Abstract!ParkingNext
<1>4. \A t \in Thread : state'[t] = "Blocked" => ParkedView'[t] = "parked"
  BY DEF ParkedView
<1> QED
  BY <1>3, <1>4 DEF ParkedHasNoRecordedWake

\* A wake is never both recorded and needed: unblock on a thread on its way to park
\* is consumed by the park, however the two interleave.
THEOREM WakeNotLost == Spec => []ParkedHasNoRecordedWake
<1>1. Init => ParkedHasNoRecordedWake
  BY DEF Init, ParkedHasNoRecordedWake
<1>2. ASSUME Inv, ParkedHasNoRecordedWake, [Next]_vars
      PROVE  ParkedHasNoRecordedWake'
  BY <1>2, StepParks, ParkingKeepsNoRecordedWake, Zenon DEF Inv
<1> QED
  BY Inductive, <1>1, <1>2, PTL DEF Spec

-----------------------------------------------------------------------------
\* What is known of one thread: where it is filed, who holds it, and when its stack
\* may go.  Each part needs the others: a queued thread is owned by the processor
\* whose queue it is on, so it is on no other one.

\* Processor c is between making t and queueing it.
Spawning(c, t) == pc[c] = "spawn" /\ arg[c] = t

\* On a queue, or on the way to one, a thread is runnable and its owner's.
Filed(t) ==
  \A c \in Cpu :
    /\ t \in Waiting(ready[c]) \/ Spawning(c, t)
         => state[t] = "Ready" /\ ~onCpu[t] /\ owner[t] = c
    /\ Spawning(c, t) => t \notin Waiting(ready[c])

\* A thread is held by its owner, and on_cpu says that it is held.
Housed(t) ==
  /\ \A c \in Cpu : Holds(c, t) => owner[t] = c
  /\ onCpu[t] => \E c \in Cpu : Holds(c, t)

\* Only a finished thread that nobody stands on is up for burial, and every other
\* one has its stack.
Alive(t) ==
  /\ \A c \in Cpu : t \in reaped[c] \cup burying[c] => state[t] = "Finished" /\ ~onCpu[t]
  /\ t # BootThread /\ state[t] # "Unborn" /\ (state[t] # "Finished" \/ onCpu[t])
       => t \in stacks

\* A runnable thread is somewhere.
Kept(t) == state[t] = "Ready" =>
             \E c \in Cpu : t \in Waiting(ready[c]) \/ Holds(c, t) \/ Spawning(c, t)

Placed(t) == Filed(t) /\ Housed(t) /\ Alive(t) /\ Kept(t)

\* A processor whose current thread is no longer Running is on its way through
\* schedule(), or the thread has yet to call it.
Leaves(c) ==
  LET t == current[c]
  IN  t # NoThread =>
        /\ state[t] = "Blocked" => \/ at[t] = "parking"
                                   \/ pc[c] \in {"publish", "enter", "steal", "pick"}
        /\ state[t] = "Ready" => at[t] = "parking" \/ pc[c] \in {"enter", "steal", "pick"}
        /\ state[t] = "Finished" => pc[c] \in {"wake", "enter", "steal", "pick"}
        /\ pc[c] = "publish" => state[t] = "Blocked" /\ at[t] = "free"

QueueInv ==
  /\ \A c \in Cpu : Once(ready[c]) /\ Leaves(c)
  /\ \A t \in Worker : Placed(t)

\* The three properties follow.

\* A thread on two queues would have two owners.
LEMMA QueueInvQueued ==
  ASSUME Inv, QueueInv
  PROVE  QueuedOnceAndRunnable
<1> SUFFICES ASSUME NEW c \in Cpu, NEW l \in Level, NEW i \in 1..Len(ready[c][l])
             PROVE  /\ state[ready[c][l][i]] = "Ready" /\ ~onCpu[ready[c][l][i]]
                    /\ owner[ready[c][l][i]] = c
                    /\ \A d \in Cpu, m \in Level : \A j \in 1..Len(ready[d][m]) :
                         ready[d][m][j] = ready[c][l][i] => <<d, m, j>> = <<c, l, i>>
  BY DEF QueuedOnceAndRunnable
<1> DEFINE t == ready[c][l][i]
<1>0. t \in Worker
  <2>1. ready[c][l] \in Seq(Worker)
    BY DEF Inv, TypeOK, QueueTypes
  <2> QED
    BY <2>1
<1>1. \A d \in Cpu, m \in Level : \A j \in 1..Len(ready[d][m]) :
        ready[d][m][j] \in Waiting(ready[d])
  BY DEF Waiting
<1> HIDE DEF t
<1>2. t \in Waiting(ready[c])
  BY <1>1, Zenon DEF t
<1>3. state[t] = "Ready" /\ ~onCpu[t] /\ owner[t] = c
  BY <1>0, <1>2, Zenon DEF QueueInv, Placed, Filed
<1>4. ASSUME NEW d \in Cpu, NEW m \in Level, NEW j \in 1..Len(ready[d][m]), ready[d][m][j] = t
      PROVE  <<d, m, j>> = <<c, l, i>>
  <2>1. d = c
    <3>1. t \in Waiting(ready[d])
      BY <1>1, <1>4, Zenon
    <3> QED
      BY <1>0, <1>3, <3>1, Zenon DEF QueueInv, Placed, Filed
  <2>2. Once(ready[c]) /\ j \in 1..Len(ready[c][m]) /\ ready[c][m][j] = ready[c][l][i]
    BY <1>4, <2>1 DEF QueueInv, t
  <2>3. \A a \in 1..Len(ready[c][m]), b \in 1..Len(ready[c][l]) :
          ready[c][m][a] = ready[c][l][b] => m = l /\ a = b
    BY <2>2 DEF Once
  <2>4. m = l /\ j = i
    BY <2>2, <2>3
  <2> QED
    BY <2>1, <2>4
<1> QED
  BY <1>3, <1>4 DEF t

\* A thread that is current and Ready is on its way through schedule().
LEMMA QueueInvReady ==
  ASSUME Inv, QueueInv
  PROVE  ReadyNotLost
<1> SUFFICES ASSUME NEW t \in Worker, state[t] = "Ready"
             PROVE  \E c \in Cpu :
                      \/ t \in Waiting(ready[c])
                      \/ t = pending[c]
                      \/ t = current[c] /\ (at[t] = "parking" \/ pc[c] \in {"enter", "steal", "pick"})
                      \/ pc[c] = "spawn" /\ arg[c] = t
  BY Zenon DEF ReadyNotLost
<1>1. PICK c \in Cpu : t \in Waiting(ready[c]) \/ Holds(c, t) \/ Spawning(c, t)
  BY Zenon DEF QueueInv, Placed, Kept
<1>2. Leaves(c) /\ t # NoThread
  BY Basics, Zenon DEF QueueInv
<1> QED
  BY <1>1, <1>2, Zenon DEF Holds, Spawning, Leaves

\* A stack a processor is on, or is about to be on, belongs to a thread it holds.
LEMMA QueueInvStacks ==
  ASSUME Inv, QueueInv
  PROVE  NoStackFreedInUse
<1>1. ASSUME NEW c \in Cpu, NEW t \in Worker \ {BootThread}, Holds(c, t)
      PROVE  t \in stacks
  <2>1. onCpu[t] /\ state[t] # "Unborn"
    BY <1>1, Basics DEF Inv, SchedInv, StackInv, HeldInv
  <2> QED
    BY <2>1, Zenon DEF QueueInv, Placed, Alive
<1>2. ASSUME NEW c \in Cpu, standing[c] \in Worker \ {BootThread}
      PROVE  standing[c] \in stacks
  <2>1. Holds(c, standing[c])
    BY <1>2, Basics DEF Inv, SchedInv, StackInv, StandingInv, Holds
  <2> QED
    BY <1>1, <1>2, <2>1
<1>3. ASSUME NEW c \in Cpu, current[c] \in Worker \ {BootThread}
      PROVE  current[c] \in stacks
  <2>1. Holds(c, current[c])
    BY <1>3, Basics DEF Holds
  <2> QED
    BY <1>1, <1>3, <2>1
<1>4. ASSUME NEW c \in Cpu, pc[c] \in {"out", "arrive"}, current[c] # NoThread
      PROVE  state[current[c]] # "Finished"
  BY <1>4 DEF QueueInv, Leaves
<1> QED
  BY <1>2, <1>3, <1>4 DEF NoStackFreedInUse

-----------------------------------------------------------------------------
\* Every step keeps them.

\* A step that leaves a thread where it is.
Same(t) ==
  /\ state'[t] = state[t] /\ onCpu'[t] = onCpu[t] /\ owner'[t] = owner[t]
  /\ \A d \in Cpu : /\ t \in Waiting(ready'[d]) <=> t \in Waiting(ready[d])
                    /\ Spawning(d, t)' <=> Spawning(d, t)
                    /\ Holds(d, t)' <=> Holds(d, t)
                    /\ t \in reaped'[d] \cup burying'[d] => t \in reaped[d] \cup burying[d]
  /\ t \in stacks => t \in stacks'

\* What was known of it stays true.
LEMMA SamePlaced ==
  ASSUME NEW t, Placed(t), Same(t)
  PROVE  Placed(t)'
<1>1. Filed(t)'
  BY Zenon DEF Placed, Filed, Same
<1>2. Housed(t)'
  BY Zenon DEF Placed, Housed, Same
<1>3. Alive(t)'
  BY Zenon DEF Placed, Alive, Same
<1>4. Kept(t)'
  BY Zenon DEF Placed, Kept, Same
<1> QED
  BY <1>1, <1>2, <1>3, <1>4, Zenon DEF Placed

\* A processor that stays in its place, its thread with it.
LEMMA LeavesSame ==
  ASSUME NEW d \in Cpu, Leaves(d), current'[d] = current[d], pc'[d] = pc[d],
         current[d] # NoThread => /\ state'[current[d]] = state[current[d]]
                                  /\ at'[current[d]] = at[current[d]]
  PROVE  Leaves(d)'
BY Zenon DEF Leaves

\* What a processor does to its own place does not touch another one's.
LEMMA LeavesElsewhere ==
  ASSUME Inv, NEW c \in Cpu, NEW d \in Cpu, d # c, Leaves(d),
         current'[d] = current[d], pc'[d] = pc[d],
         \A t \in Thread : t # current[c] => state'[t] = state[t] /\ at'[t] = at[t]
  PROVE  Leaves(d)'
<1>1. current[d] # NoThread => current[d] \in Thread /\ current[d] # current[c]
  BY DEF Inv, TypeOK, StackTypes, SchedInv, StackInv, HeldInv, Holds
<1> QED
  BY <1>1, LeavesSame, Zenon

\* A step that changes no queue and no owner, and parks or ends at most the thread
\* it is made by.
Shift(c) ==
  /\ UNCHANGED <<onCpu, owner, ready, current, pending, reaped, burying, stacks>>
  /\ pc[c] # "spawn" /\ \E p \in Places \ {"spawn"} : pc' = [pc EXCEPT ![c] = p]
  /\ \A d \in Cpu : d # c => arg'[d] = arg[d]
  /\ \A t \in Thread :
       /\ t # current[c] => state'[t] = state[t] /\ at'[t] = at[t]
       /\ \/ state'[t] = state[t]
          \/ state[t] = "Running" /\ state'[t] \in {"Blocked", "Finished"}

\* Such a step keeps the invariant, if the processor itself is still on its way.
LEMMA ShiftKeeps ==
  ASSUME Inv, QueueInv, NEW c \in Cpu, Shift(c), Leaves(c)'
  PROVE  QueueInv'
<1>1. pc'[c] # "spawn" /\ \A d \in Cpu : d # c => pc'[d] = pc[d]
  BY DEF Shift, Inv, TypeOK, StackTypes
<1>2. ASSUME NEW t \in Worker
      PROVE  Placed(t)'
  <2>0. t \in Thread /\ Placed(t)
    BY Basics, Zenon DEF QueueInv
  <2>1. \A d \in Cpu : Spawning(d, t)' <=> Spawning(d, t)
    BY <1>1 DEF Shift, Spawning
  <2>2. \A d \in Cpu : Holds(d, t)' <=> Holds(d, t)
    BY Zenon DEF Shift, Holds
  <2>3. CASE state'[t] = state[t]
    <3>1. Same(t)
      BY <2>1, <2>2, <2>3, Zenon DEF Same, Shift
    <3> QED
      BY <2>0, <3>1, SamePlaced
  <2>4. CASE t = current[c] /\ state[t] = "Running" /\ state'[t] \in {"Blocked", "Finished"}
    <3>1. Filed(t)'
      BY <2>0, <2>1, <2>4 DEF Shift, Placed, Filed
    <3>2. Housed(t)'
      BY <2>0, <2>2, Zenon DEF Shift, Placed, Housed
    <3>3. Alive(t)'
      BY <2>0, <2>4 DEF Shift, Placed, Alive
    <3>4. Kept(t)'
      BY <2>4 DEF Kept
    <3> QED
      BY <3>1, <3>2, <3>3, <3>4 DEF Placed
  <2> QED
    BY <2>0, <2>3, <2>4 DEF Shift
<1>3. ASSUME NEW d \in Cpu
      PROVE  Once(ready[d])' /\ Leaves(d)'
  <2>1. Once(ready'[d])
    BY Zenon DEF Shift, QueueInv
  <2>2. CASE d # c
    <3>1. Leaves(d) /\ current'[d] = current[d] /\ pc'[d] = pc[d]
      BY <1>1, <2>2 DEF Shift, QueueInv
    <3>2. \A t \in Thread : t # current[c] => state'[t] = state[t] /\ at'[t] = at[t]
      BY Zenon DEF Shift
    <3> QED
      BY <2>1, <2>2, <3>1, <3>2, LeavesElsewhere
  <2> QED
    BY <2>1, <2>2
<1> QED
  BY <1>2, <1>3 DEF QueueInv
=============================================================================
